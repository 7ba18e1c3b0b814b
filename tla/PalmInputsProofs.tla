-------------------------- MODULE PalmInputsProofs --------------------------
(***************************************************************************)
(* What holds of the input side for every key matrix and every set of      *)
(* guest writes.  The inductive invariant adds to the properties the runs  *)
(* check that a snapshot, too, carries the requests of its own inputs.     *)
(***************************************************************************)
EXTENDS PalmInputs, TLAPS

SavedCurrent ==
  saved # <<>> =>
    /\ saved[1].pending \cap KeySource =
         KeyRequests(saved[1].portD, saved[1].rows, saved[1].down, saved[1].portDEdge)
    /\ "PEN" \in saved[1].pending <=> saved[1].penDown

InputInv == TypeOK /\ InterruptLinesCurrent /\ SavedCurrent

-----------------------------------------------------------------------------
(* The operators. *)

\* Only the key sources are requested by the port D logic.
LEMMA KeyRequestsAreKeys ==
  ASSUME NEW pd, NEW rw, NEW dn, NEW edges
  PROVE  KeyRequests(pd, rw, dn, edges) \subseteq KeySource
BY DEF KeyRequests, KeySource, KeyColumns

\* IRQ1 and PEN are not key sources, and all are sources.
LEMMA Sources == /\ "IRQ1" \notin KeySource /\ "PEN" \notin KeySource
                 /\ KeySource \subseteq Source /\ {"IRQ1", "PEN"} \subseteq Source
                 /\ Other \subseteq Source /\ Other \cap KeySource = {}
                 /\ "PEN" \notin Other /\ "IRQ1" \notin Other
BY InputConstants DEF KeySource, Source

\* updateInterruptStatus leaves every line but the cradle's as it was asked to.
LEMMA StatusCurrent ==
  ASSUME NEW p \in SUBSET Source, UpdateStatus(p),
         p \cap KeySource = KeyRequests(portD', rows', down', portDEdge'),
         "PEN" \in p <=> penDown'
  PROVE  /\ InterruptLinesCurrent'
         /\ pending' \subseteq Source /\ status' \subseteq Source
<1>1. pending' \in {p, p \cup {"IRQ1"}, p \ {"IRQ1"}}
  BY DEF UpdateStatus, WithCradleLevel
<1>2. pending' \cap KeySource = p \cap KeySource /\ ("PEN" \in pending' <=> "PEN" \in p)
  BY <1>1, Sources
<1>3. ~icr'.et1 => ("IRQ1" \in pending' <=> CradleAsserted(icr', lineLow'))
  BY DEF UpdateStatus, WithCradleLevel
<1>4. RequestsCurrent(pending, portD, rows, down, portDEdge, penDown, icr, lineLow)'
  BY <1>2, <1>3 DEF RequestsCurrent, KeyRequests, KeyColumns, CradleAsserted
<1>5. status' = pending' \ mask' /\ pending' \subseteq Source
  BY <1>1, Sources DEF UpdateStatus
<1> QED BY <1>4, <1>5 DEF InterruptLinesCurrent

\* updatePortDInterrupts brings the key lines up to date whatever was pending.
LEMMA PortDCurrent ==
  ASSUME NEW p \in SUBSET Source, UpdatePortD(p), "PEN" \in p <=> penDown'
  PROVE  /\ InterruptLinesCurrent'
         /\ pending' \subseteq Source /\ status' \subseteq Source
<1> DEFINE q == (p \ KeySource) \cup KeyRequests(portD', rows', down', portDEdge')
<1>1. KeyRequests(portD', rows', down', portDEdge') \subseteq KeySource
  BY KeyRequestsAreKeys
<1>2. q \in SUBSET Source /\ ("PEN" \in q <=> "PEN" \in p)
  BY <1>1, Sources
<1>3. q \cap KeySource = KeyRequests(portD', rows', down', portDEdge')
  BY <1>1
<1>4. UpdateStatus(q)
  BY DEF UpdatePortD
<1> HIDE DEF q
<1> QED BY <1>2, <1>3, <1>4, StatusCurrent

\* The registers a step may set without disturbing the types.
TypedRest == /\ down \subseteq Key /\ rows \subseteq Row /\ portD \in PortD
             /\ portDEdge \subseteq Col /\ penDown \in BOOLEAN /\ lineLow \in BOOLEAN
             /\ icr \in Icr /\ asleep \in BOOLEAN /\ mask \subseteq Source
             /\ saved = <<>> \/ \E s \in SavedInputs : saved = <<s>>

\* The type invariant in parts: those of the pending register and the rest.
LEMMA TypeParts ==
  /\ TypeOK => TypedRest /\ pending \in SUBSET Source
  /\ TypedRest' /\ pending' \subseteq Source /\ status' \subseteq Source => TypeOK'
BY DEF TypeOK, TypedRest

\* A pressed key pulls a column.
LEMMA ColumnsAreColumns ==
  ASSUME NEW rw, NEW dn PROVE KeyColumns(rw, dn) \subseteq Col
BY DEF KeyColumns

\* A snapshot that is left alone stays current.
LEMMA SavedKept == ASSUME SavedCurrent, saved' = saved PROVE SavedCurrent'
BY DEF SavedCurrent, KeyRequests, KeyColumns

-----------------------------------------------------------------------------
(* Every step keeps the invariant. *)

\* The invariant holds at reset.
LEMMA InitInv == Init => InputInv
<1> SUFFICES ASSUME Init PROVE InputInv
  OBVIOUS
<1>1. KeyRequests(portD, rows, down, portDEdge) = {}
  BY DEF Init, NoPortD, KeyRequests, KeyColumns
<1>2. InterruptLinesCurrent
  BY <1>1 DEF Init, InterruptLinesCurrent, RequestsCurrent, CradleAsserted
<1>3. portD \in PortD /\ icr \in Icr
  BY DEF Init, NoPortD, PortD, Icr
<1> QED BY <1>2, <1>3 DEF Init, InputInv, TypeOK, SavedCurrent

\* The buttons, the pen, the cradle and the other lines keep it, ...
LEMMA HostStepInv == InputInv /\ HostStep => InputInv'
<1> SUFFICES ASSUME InputInv, HostStep PROVE InputInv'
  OBVIOUS
<1> USE TypeParts, SavedKept
<1>p. "PEN" \in pending <=> penDown
  BY DEF InputInv, InterruptLinesCurrent, RequestsCurrent
<1>k. pending \cap KeySource = KeyRequests(portD, rows, down, portDEdge)
  BY DEF InputInv, InterruptLinesCurrent, RequestsCurrent
<1>t. TypedRest /\ pending \in SUBSET Source /\ SavedCurrent
  BY DEF InputInv
<1>1. ASSUME NEW k \in Key, PressButton(k) PROVE InputInv'
  <2>1. TypedRest'
    <3>1. SleepColumn[k] \subseteq Col
      BY InputConstants
    <3>2. KeyColumns(rows, down') \subseteq Col
      BY ColumnsAreColumns
    <3>3. down' \subseteq Key /\ portDEdge' \subseteq Col
      BY <1>1, <1>t, <3>1, <3>2 DEF PressButton, TypedRest
    <3> QED BY <1>1, <1>t, <3>3 DEF PressButton, TypedRest
  <2>2. UpdatePortD(pending) /\ penDown' = penDown /\ saved' = saved
    BY <1>1 DEF PressButton
  <2> QED BY <2>1, <2>2, <1>p, <1>t, PortDCurrent DEF InputInv
<1>2. ASSUME NEW k \in Key, ReleaseButton(k) PROVE InputInv'
  <2>1. TypedRest'
    BY <1>2, <1>t DEF ReleaseButton, TypedRest
  <2>2. UpdatePortD(pending) /\ penDown' = penDown /\ saved' = saved
    BY <1>2 DEF ReleaseButton
  <2> QED BY <2>1, <2>2, <1>p, <1>t, PortDCurrent DEF InputInv
<1>3. ASSUME NEW d \in BOOLEAN, SetPen(d) PROVE InputInv'
  <2> DEFINE p == IF d THEN pending \cup {"PEN"} ELSE pending \ {"PEN"}
  <2>1. TypedRest' /\ saved' = saved
    BY <1>3, <1>t DEF SetPen, TypedRest, keypad
  <2>2. p \in SUBSET Source /\ p \cap KeySource = pending \cap KeySource
    BY <1>t, Sources
  <2>3. "PEN" \in p <=> penDown'
    BY <1>3 DEF SetPen
  <2>4. KeyRequests(portD', rows', down', portDEdge') = KeyRequests(portD, rows, down, portDEdge)
    BY <1>3 DEF SetPen, keypad
  <2>5. UpdateStatus(p)
    BY <1>3 DEF SetPen
  <2> HIDE DEF p
  <2> QED BY <2>1, <2>2, <2>3, <2>4, <2>5, <1>k, <1>t, StatusCurrent DEF InputInv
<1>4. ASSUME NEW d \in BOOLEAN, SetCradle(d) PROVE InputInv'
  <2> DEFINE p == IF icr.et1 /\ ~CradleAsserted(icr, lineLow) /\ CradleAsserted(icr, d)
                  THEN pending \cup {"IRQ1"} ELSE pending
  <2>1. TypedRest' /\ saved' = saved
    BY <1>4, <1>t DEF SetCradle, TypedRest, keypad
  <2>2. p \in SUBSET Source /\ p \cap KeySource = pending \cap KeySource
    BY <1>t, Sources
  <2>3. "PEN" \in p <=> penDown'
    BY <1>4, <1>p DEF SetCradle
  <2>4. KeyRequests(portD', rows', down', portDEdge') = KeyRequests(portD, rows, down, portDEdge)
    BY <1>4 DEF SetCradle, keypad
  <2>5. UpdateStatus(p)
    BY <1>4 DEF SetCradle
  <2> HIDE DEF p
  <2> QED BY <2>1, <2>2, <2>3, <2>4, <2>5, <1>k, <1>t, StatusCurrent DEF InputInv
<1>5. ASSUME NEW s \in Other, NEW on \in BOOLEAN, SetOther(s, on) PROVE InputInv'
  <2> DEFINE p == IF on THEN pending \cup {s} ELSE pending \ {s}
  <2>1. TypedRest' /\ saved' = saved
    BY <1>5, <1>t DEF SetOther, TypedRest, keypad
  <2>2. s \notin KeySource /\ s # "PEN" /\ s \in Source
    BY Sources
  <2>3. p \in SUBSET Source /\ p \cap KeySource = pending \cap KeySource
    BY <1>t, <2>2
  <2>4. "PEN" \in p <=> penDown'
    BY <1>5, <1>p, <2>2 DEF SetOther
  <2>5. KeyRequests(portD', rows', down', portDEdge') = KeyRequests(portD, rows, down, portDEdge)
    BY <1>5 DEF SetOther, keypad
  <2>6. UpdateStatus(p)
    BY <1>5 DEF SetOther
  <2> HIDE DEF p
  <2> QED BY <2>1, <2>3, <2>4, <2>5, <2>6, <1>k, <1>t, StatusCurrent DEF InputInv
<1> QED BY <1>1, <1>2, <1>3, <1>4, <1>5 DEF HostStep

\* ... the guest's accesses do, ...
LEMMA GuestStepInv == InputInv /\ GuestStep => InputInv'
<1> SUFFICES ASSUME InputInv, GuestStep PROVE InputInv'
  OBVIOUS
<1> USE TypeParts, SavedKept
<1>p. "PEN" \in pending <=> penDown
  BY DEF InputInv, InterruptLinesCurrent, RequestsCurrent
<1>k. pending \cap KeySource = KeyRequests(portD, rows, down, portDEdge)
  BY DEF InputInv, InterruptLinesCurrent, RequestsCurrent
<1>t. TypedRest /\ pending \in SUBSET Source /\ SavedCurrent
  BY DEF InputInv
<1>1. ASSUME NEW f \in DOMAIN PortDValues, NEW v \in PortDValues[f], WritePortD(f, v)
      PROVE  InputInv'
  <2>1. f \in {"outputs", "polarity", "request", "kbdEnable", "edge"} /\ v \in SUBSET Col
    BY InputConstants
  <2>2. [portD EXCEPT ![f] = v] \in PortD
    BY <2>1, <1>t DEF TypedRest, PortD
  <2>3. TypedRest'
    BY <1>1, <1>t, <2>2 DEF WritePortD, TypedRest
  <2>4. UpdatePortD(pending) /\ penDown' = penDown /\ saved' = saved
    BY <1>1 DEF WritePortD
  <2> QED BY <2>3, <2>4, <1>p, <1>t, PortDCurrent DEF InputInv
<1>2. ASSUME NEW v \in SUBSET Col, AckEdges(v) PROVE InputInv'
  <2>1. TypedRest'
    BY <1>2, <1>t DEF AckEdges, TypedRest
  <2>2. UpdatePortD(pending) /\ penDown' = penDown /\ saved' = saved
    BY <1>2 DEF AckEdges
  <2> QED BY <2>1, <2>2, <1>p, <1>t, PortDCurrent DEF InputInv
<1>3. ASSUME NEW r \in RowValues, DriveRows(r) PROVE InputInv'
  <2>1. TypedRest'
    BY <1>3, <1>t, InputConstants DEF DriveRows, TypedRest
  <2>2. UpdatePortD(pending) /\ penDown' = penDown /\ saved' = saved
    BY <1>3 DEF DriveRows
  <2> QED BY <2>1, <2>2, <1>p, <1>t, PortDCurrent DEF InputInv
<1>4. ASSUME NEW i \in IcrValues, WriteIcr(i) PROVE InputInv'
  <2>1. TypedRest' /\ saved' = saved
    BY <1>4, <1>t, InputConstants DEF WriteIcr, TypedRest, keypad
  <2>2. /\ UpdateStatus(pending) /\ penDown' = penDown
        /\ KeyRequests(portD', rows', down', portDEdge') = KeyRequests(portD, rows, down, portDEdge)
    BY <1>4 DEF WriteIcr, keypad
  <2> QED BY <2>1, <2>2, <1>p, <1>k, <1>t, StatusCurrent DEF InputInv
<1>5. ASSUME AckIrq1 PROVE InputInv'
  <2> DEFINE p == IF icr.et1 THEN pending \ {"IRQ1"} ELSE pending
  <2>1. TypedRest' /\ saved' = saved
    BY <1>5, <1>t DEF AckIrq1, TypedRest, keypad
  <2>2. p \in SUBSET Source /\ p \cap KeySource = pending \cap KeySource
    BY <1>t, Sources
  <2>3. "PEN" \in p <=> penDown'
    BY <1>5, <1>p DEF AckIrq1
  <2>4. /\ UpdateStatus(p)
        /\ KeyRequests(portD', rows', down', portDEdge') = KeyRequests(portD, rows, down, portDEdge)
    BY <1>5 DEF AckIrq1, keypad
  <2> HIDE DEF p
  <2> QED BY <2>1, <2>2, <2>3, <2>4, <1>k, <1>t, StatusCurrent DEF InputInv
<1>6. ASSUME NEW m \in MaskValues, WriteMask(m) PROVE InputInv'
  <2>1. TypedRest' /\ saved' = saved
    BY <1>6, <1>t, InputConstants DEF WriteMask, TypedRest, keypad
  <2>2. /\ UpdateStatus(pending) /\ penDown' = penDown
        /\ KeyRequests(portD', rows', down', portDEdge') = KeyRequests(portD, rows, down, portDEdge)
    BY <1>6 DEF WriteMask, keypad
  <2> QED BY <2>1, <2>2, <1>p, <1>k, <1>t, StatusCurrent DEF InputInv
<1>7. ASSUME NEW off \in BOOLEAN, WritePll(off) PROVE InputInv'
  <2>1. TypedRest' /\ saved' = saved /\ pending' = pending /\ status' = status
    BY <1>7, <1>t DEF WritePll, TypedRest, keypad
  <2>2. InterruptLinesCurrent'
    BY <1>7 DEF WritePll, keypad, InputInv, InterruptLinesCurrent, RequestsCurrent,
                KeyRequests, KeyColumns, CradleAsserted
  <2>3. status \subseteq Source
    BY DEF InputInv, TypeOK
  <2> QED BY <2>1, <2>2, <2>3, <1>t DEF InputInv
<1> QED BY <1>1, <1>2, <1>3, <1>4, <1>5, <1>6, <1>7 DEF GuestStep

\* ... and a reset, a save, a load and the preparation of the sleep snapshot.
LEMMA StateStepInv == InputInv /\ StateStep => InputInv'
<1> SUFFICES ASSUME InputInv, StateStep PROVE InputInv'
  OBVIOUS
<1> USE TypeParts
<1>p. "PEN" \in pending <=> penDown
  BY DEF InputInv, InterruptLinesCurrent, RequestsCurrent
<1>k. pending \cap KeySource = KeyRequests(portD, rows, down, portDEdge)
  BY DEF InputInv, InterruptLinesCurrent, RequestsCurrent
<1>t. TypedRest /\ pending \in SUBSET Source /\ SavedCurrent
  BY DEF InputInv
<1>1. ASSUME Reset PROVE InputInv'
  <2>1. TypedRest'
    BY <1>1, <1>t DEF Reset, TypedRest, NoPortD, PortD, Icr
  <2>2. KeyRequests(portD', rows', down', portDEdge') = {}
    BY <1>1 DEF Reset, NoPortD, KeyRequests, KeyColumns
  <2>3. KeyRequests(portD, rows, down, portDEdge)' = {}
    BY <2>2 DEF KeyRequests, KeyColumns
  <2>4. InterruptLinesCurrent'
    BY <1>1, <2>3 DEF Reset, InterruptLinesCurrent, RequestsCurrent, CradleAsserted
  <2>5. SavedCurrent'
    BY <1>1, <1>t, SavedKept DEF Reset
  <2> QED BY <1>1, <2>1, <2>4, <2>5 DEF Reset, InputInv
<1>2. ASSUME PrepareForSleepSnapshot PROVE InputInv'
  <2>1. TypedRest' /\ saved' = saved
    BY <1>2, <1>t DEF PrepareForSleepSnapshot, TypedRest
  <2>2. UpdatePortD(pending \ {"PEN", "IRQ1"}) /\ ~penDown'
    BY <1>2 DEF PrepareForSleepSnapshot
  <2>3. pending \ {"PEN", "IRQ1"} \in SUBSET Source
    BY <1>t
  <2> QED BY <2>1, <2>2, <2>3, <1>t, SavedKept, PortDCurrent DEF InputInv
<1>3. ASSUME SaveState PROVE InputInv'
  <2> DEFINE s == [down |-> down, rows |-> rows, portD |-> portD, portDEdge |-> portDEdge,
                   penDown |-> penDown, icr |-> icr, asleep |-> asleep, mask |-> mask,
                   pending |-> pending, lineLow |-> lineLow]
  <2>1. s \in SavedInputs /\ saved' = <<s>>
    BY <1>3, <1>t DEF SaveState, SavedInputs, TypedRest
  <2>2. TypedRest'
    BY <1>3, <1>t, <2>1 DEF SaveState, TypedRest, keypad
  <2>3. SavedCurrent'
    BY <2>1, <1>p, <1>k DEF SavedCurrent, KeyRequests, KeyColumns
  <2>4. /\ UpdateStatus(pending) /\ penDown' = penDown
        /\ KeyRequests(portD', rows', down', portDEdge') = KeyRequests(portD, rows, down, portDEdge)
    BY <1>3 DEF SaveState, keypad
  <2> QED BY <2>2, <2>3, <2>4, <1>p, <1>k, <1>t, StatusCurrent DEF InputInv
<1>4. ASSUME LoadState PROVE InputInv'
  <2>1. saved[1] \in SavedInputs /\ saved' = saved
    BY <1>4, <1>t DEF LoadState, TypedRest
  <2>2. TypedRest'
    BY <1>4, <1>t, <2>1 DEF LoadState, TypedRest, SavedInputs
  <2>3. UpdatePortD(saved[1].pending) /\ penDown' = saved[1].penDown
    BY <1>4 DEF LoadState
  <2>4. saved[1].pending \in SUBSET Source /\ ("PEN" \in saved[1].pending <=> saved[1].penDown)
    BY <1>4, <2>1, <1>t DEF LoadState, SavedCurrent, SavedInputs
  <2> QED BY <2>1, <2>2, <2>3, <2>4, <1>t, SavedKept, PortDCurrent DEF InputInv
<1> QED BY <1>1, <1>2, <1>3, <1>4 DEF StateStep

\* Every step keeps the invariant.
LEMMA NextInv == InputInv /\ [Next]_vars => InputInv'
<1>1. InputInv /\ UNCHANGED vars => InputInv'
  <2> SUFFICES ASSUME InputInv, UNCHANGED vars PROVE InputInv'
    OBVIOUS
  <2>1. TypeOK'
    BY DEF vars, keypad, InputInv, TypeOK
  <2>2. InterruptLinesCurrent'
    BY DEF vars, keypad, InputInv, InterruptLinesCurrent, RequestsCurrent, KeyRequests,
           KeyColumns, CradleAsserted
  <2>3. SavedCurrent'
    BY SavedKept DEF vars, InputInv
  <2> QED BY <2>1, <2>2, <2>3 DEF InputInv
<1> QED BY <1>1, HostStepInv, GuestStepInv, StateStepInv DEF Next

-----------------------------------------------------------------------------
(* The theorems. *)

\* Every register keeps its type, for every matrix and every configuration.
THEOREM TypeCorrect == Spec => []TypeOK
<1>1. InputInv => TypeOK
  BY DEF InputInv
<1> QED BY <1>1, InitInv, NextInv, PTL DEF Spec

\* The interrupt lines are always those of the inputs as they are now.
THEOREM LinesAlwaysCurrent == Spec => []InterruptLinesCurrent
<1>1. InputInv => InterruptLinesCurrent
  BY DEF InputInv
<1> QED BY <1>1, InitInv, NextInv, PTL DEF Spec

\* A restored guest finds the requests it was saved with: what a snapshot holds was
\* current when it was taken, and recomputing it from the restored registers is idle.
THEOREM RestoreAlwaysKeepsRequests == Spec => RestoreKeepsRequests
<1>1. InputInv /\ [Next]_vars =>
        [LoadState => pending' \ {"IRQ1"} = saved[1].pending \ {"IRQ1"}]_vars
  <2> SUFFICES ASSUME InputInv, LoadState
               PROVE  pending' \ {"IRQ1"} = saved[1].pending \ {"IRQ1"}
    OBVIOUS
  <2> DEFINE q == (saved[1].pending \ KeySource)
                    \cup KeyRequests(portD', rows', down', portDEdge')
  <2>1. /\ portD' = saved[1].portD /\ rows' = saved[1].rows /\ down' = saved[1].down
        /\ portDEdge' = saved[1].portDEdge /\ saved # <<>>
    BY DEF LoadState
  <2>2. saved[1].pending \cap KeySource = KeyRequests(portD', rows', down', portDEdge')
    BY <2>1 DEF InputInv, SavedCurrent
  <2>3. q = saved[1].pending
    BY <2>2
  <2>4. UpdateStatus(q)
    BY DEF LoadState, UpdatePortD
  <2>5. UpdateStatus(saved[1].pending)
    BY <2>3, <2>4
  <2> HIDE DEF q
  <2> QED BY <2>5 DEF UpdateStatus, WithCradleLevel
<1> QED BY <1>1, InitInv, NextInv, PTL DEF Spec, RestoreKeepsRequests

\* An edge the guest has not acknowledged survives the key and the keyboard scan.
THEOREM EdgesAlwaysOutlive == Spec => EdgesOutliveTheKey
<1> DEFINE Scan == (\E k \in Key : ReleaseButton(k)) \/ (\E r \in RowValues : DriveRows(r))
<1>1. InputInv /\ [Next]_vars => [Scan => pending \cap portD.edge \subseteq pending']_vars
  <2> SUFFICES ASSUME InputInv, Scan, NEW c \in pending \cap portD.edge PROVE c \in pending'
    OBVIOUS
  <2>1. UpdatePortD(pending) /\ portD' = portD /\ portDEdge' = portDEdge
    BY DEF ReleaseButton, DriveRows
  <2>2. c \in Col /\ c \in KeySource /\ c # "KBD" /\ c # "IRQ1"
    BY InputConstants DEF InputInv, TypeOK, PortD, KeySource
  <2>3. c \in KeyRequests(portD, rows, down, portDEdge)
    BY <2>2 DEF InputInv, InterruptLinesCurrent, RequestsCurrent
  <2>4. c \in portDEdge /\ c \in portD.polarity /\ c \in portD.request /\ c \notin portD.outputs
    BY <2>2, <2>3 DEF KeyRequests
  <2>5. c \in KeyRequests(portD', rows', down', portDEdge')
    BY <2>1, <2>2, <2>4 DEF KeyRequests
  <2> QED BY <2>1, <2>2, <2>5 DEF UpdatePortD, UpdateStatus, WithCradleLevel
<1> QED BY <1>1, InitInv, NextInv, PTL DEF Spec, EdgesOutliveTheKey

\* A press on a column the guest asked for is heard in the same step.
THEOREM PressAlwaysReported == Spec => PressIsReported
<1> DEFINE Rose(k) == (KeyColumns(rows, down') \ KeyColumns(rows, down))
                        \cup (IF asleep THEN SleepColumn[k] ELSE {})
           Seen == KeyColumns(rows, down') \ portD.outputs
           Heard(k) == /\ ((Rose(k) \cap portD.edge \cap portD.polarity \cap portD.request)
                              \ portD.outputs) \subseteq pending'
                       /\ Seen \cap portD.kbdEnable # {} => "KBD" \in pending'
<1>1. InputInv /\ [Next]_vars => [\A k \in Key : PressButton(k) => Heard(k)]_vars
  <2> SUFFICES ASSUME InputInv, NEW k \in Key, PressButton(k) PROVE Heard(k)
    OBVIOUS
  <2>1. UpdatePortD(pending) /\ portD' = portD /\ rows' = rows /\ Rose(k) \subseteq portDEdge'
    BY DEF PressButton
  <2>2. KeyRequests(portD', rows', down', portDEdge') \ {"IRQ1"} \subseteq pending'
    BY <2>1 DEF UpdatePortD, UpdateStatus, WithCradleLevel
  <2>3. SleepColumn[k] \subseteq Col /\ "IRQ1" \notin Col
    BY InputConstants
  <2>4. Rose(k) \subseteq Col
    BY <2>3, ColumnsAreColumns
  <2>5. ASSUME NEW c \in ((Rose(k) \cap portD.edge \cap portD.polarity \cap portD.request)
                            \ portD.outputs)
        PROVE  c \in pending'
    <3>1. c \in portDEdge' /\ c \in Col
      BY <2>1, <2>4
    <3>2. c \in portD.edge /\ c \in portD.polarity /\ c \in portD.request /\ c \notin portD.outputs
      OBVIOUS
    <3> HIDE DEF Rose
    <3>3. c \in KeyRequests(portD', rows', down', portDEdge')
      BY <2>1, <3>1, <3>2 DEF KeyRequests
    <3> QED BY <2>2, <2>3, <3>1, <3>3
  <2>6. Seen \cap portD.kbdEnable # {} => "KBD" \in KeyRequests(portD', rows', down', portDEdge')
    BY <2>1 DEF KeyRequests
  <2> QED BY <2>2, <2>5, <2>6
<1> QED BY <1>1, InitInv, NextInv, PTL DEF Spec, PressIsReported

\* Exactly when a prepared snapshot is quiet.
THEOREM PrepareQuietsExactly == Spec => PrepareQuiets
<1> DEFINE Idle == /\ (portD.request \ (portD.outputs \cup portD.polarity)) \subseteq portD.edge
                   /\ icr.et1 \/ ~icr.pol1
<1>1. InputInv /\ [Next]_vars => [PrepareForSleepSnapshot => (SnapshotInputsQuiet' <=> Idle)]_vars
  <2> SUFFICES ASSUME InputInv, InputInv', PrepareForSleepSnapshot
               PROVE  SnapshotInputsQuiet' <=> Idle
    BY StateStepInv DEF StateStep
  <2>1. /\ down' = {} /\ portDEdge' = {} /\ penDown' = FALSE /\ lineLow' = FALSE
        /\ portD' = portD /\ icr' = icr /\ rows' = rows
    BY DEF PrepareForSleepSnapshot
  <2>2. KeyRequests(portD, rows, down, portDEdge)' =
          (portD.request \ (portD.outputs \cup portD.polarity)) \ portD.edge
    BY <2>1 DEF KeyRequests, KeyColumns, InputInv, TypeOK, PortD
  <2>3. pending' \cap KeySource = KeyRequests(portD, rows, down, portDEdge)'
    BY DEF InputInv, InterruptLinesCurrent, RequestsCurrent
  <2>4. "PEN" \notin pending'
    BY <2>1 DEF InputInv, InterruptLinesCurrent, RequestsCurrent
  <2>5. "IRQ1" \in pending' <=> ~icr.et1 /\ icr.pol1
    <3>1. CASE icr.et1
      BY <2>1, <3>1, Sources, KeyRequestsAreKeys
      DEF PrepareForSleepSnapshot, UpdatePortD, UpdateStatus, WithCradleLevel
    <3>2. CASE ~icr.et1
      <4>1. "IRQ1" \in pending' <=> CradleAsserted(icr', lineLow')
        BY <2>1, <3>2 DEF InputInv, InterruptLinesCurrent, RequestsCurrent, CradleAsserted
      <4>2. icr.pol1 \in BOOLEAN
        BY DEF InputInv, TypeOK, Icr
      <4> QED BY <4>1, <4>2, <2>1, <3>2 DEF CradleAsserted
    <3> QED BY <3>1, <3>2
  <2>6. SnapshotInputsQuiet' <=> pending' \cap KeySource = {} /\ "IRQ1" \notin pending'
    BY <2>1, <2>4 DEF SnapshotInputsQuiet
  <2>7. icr.et1 \in BOOLEAN /\ icr.pol1 \in BOOLEAN
    BY DEF InputInv, TypeOK, Icr
  <2>8. pending' \cap KeySource = {} <=>
          (portD.request \ (portD.outputs \cup portD.polarity)) \subseteq portD.edge
    BY <2>2, <2>3
  <2> QED BY <2>5, <2>6, <2>7, <2>8
<1> QED BY <1>1, InitInv, NextInv, PTL DEF Spec, PrepareQuiets

\* In edge mode the active transition of the cradle line sets its request, nothing else does,
\* and the guest's acknowledgement alone takes it back.
THEOREM CradleEdgeAlwaysLatches == Spec => CradleEdgeLatches
<1> DEFINE Edge  == lineLow' # lineLow /\ CradleAsserted(icr', lineLow')
           Kept  == "IRQ1" \in pending' <=> "IRQ1" \in pending
           Latch == icr'.et1 /\ ~(AckIrq1 \/ PrepareForSleepSnapshot \/ LoadState) =>
                      ("IRQ1" \in pending' <=> "IRQ1" \in pending \/ Edge)
<1>1. ASSUME NEW p, UpdateStatus(p), icr'.et1, "IRQ1" \in p <=> "IRQ1" \in pending
      PROVE  "IRQ1" \in pending' <=> "IRQ1" \in pending
  BY <1>1 DEF UpdateStatus, WithCradleLevel
<1>2. ASSUME UpdatePortD(pending), icr'.et1
      PROVE  "IRQ1" \in pending' <=> "IRQ1" \in pending
  <2> DEFINE q == (pending \ KeySource) \cup KeyRequests(portD', rows', down', portDEdge')
  <2>1. "IRQ1" \in q <=> "IRQ1" \in pending
    BY Sources, KeyRequestsAreKeys
  <2>2. UpdateStatus(q)
    BY <1>2 DEF UpdatePortD
  <2> HIDE DEF q
  <2> QED BY <1>1, <1>2, <2>1, <2>2
<1>3. InputInv /\ [Next]_vars => [Latch]_vars
  <2> SUFFICES ASSUME InputInv, Next, icr'.et1 PROVE Latch
    OBVIOUS
  <2>0. ASSUME lineLow' = lineLow, Kept PROVE Latch
    BY <2>0
  <2>1. ASSUME NEW k \in Key, PressButton(k) \/ ReleaseButton(k) PROVE Latch
    BY <1>2, <2>0, <2>1 DEF PressButton, ReleaseButton
  <2>2. ASSUME NEW d \in BOOLEAN, SetPen(d) PROVE Latch
    <3> DEFINE p == IF d THEN pending \cup {"PEN"} ELSE pending \ {"PEN"}
    <3>1. UpdateStatus(p) /\ ("IRQ1" \in p <=> "IRQ1" \in pending) /\ lineLow' = lineLow
      BY <2>2 DEF SetPen
    <3> QED BY <1>1, <2>0, <3>1
  <2>3. ASSUME NEW d \in BOOLEAN, SetCradle(d) PROVE Latch
    <3> DEFINE rise == ~CradleAsserted(icr, lineLow) /\ CradleAsserted(icr, d)
    <3>1. /\ icr' = icr /\ icr.et1 /\ lineLow' = d
          /\ UpdateStatus(IF icr.et1 /\ rise THEN pending \cup {"IRQ1"} ELSE pending)
      BY <2>3 DEF SetCradle
    <3>2. lineLow \in BOOLEAN /\ icr.pol1 \in BOOLEAN
      BY DEF InputInv, TypeOK, Icr
    <3>3. rise <=> Edge
      BY <3>1, <3>2 DEF CradleAsserted
    <3> HIDE DEF rise, Edge
    <3>4. "IRQ1" \in pending' <=> "IRQ1" \in pending \/ rise
      BY <3>1 DEF UpdateStatus, WithCradleLevel
    <3> QED BY <3>3, <3>4
  <2>4. ASSUME NEW s \in Other, NEW on \in BOOLEAN, SetOther(s, on) PROVE Latch
    <3> DEFINE p == IF on THEN pending \cup {s} ELSE pending \ {s}
    <3>1. UpdateStatus(p) /\ ("IRQ1" \in p <=> "IRQ1" \in pending) /\ lineLow' = lineLow
      BY <2>4, Sources DEF SetOther
    <3> QED BY <1>1, <2>0, <3>1
  <2>5. CASE GuestStep
    <3>1. ASSUME NEW f \in DOMAIN PortDValues, NEW v \in PortDValues[f], WritePortD(f, v) PROVE Latch
      BY <1>2, <2>0, <3>1 DEF WritePortD
    <3>2. ASSUME NEW v \in SUBSET Col, AckEdges(v) PROVE Latch
      BY <1>2, <2>0, <3>2 DEF AckEdges
    <3>3. ASSUME NEW r \in RowValues, DriveRows(r) PROVE Latch
      BY <1>2, <2>0, <3>3 DEF DriveRows
    <3>4. ASSUME NEW i \in IcrValues, WriteIcr(i) PROVE Latch
      BY <1>1, <2>0, <3>4 DEF WriteIcr
    <3>5. ASSUME NEW m \in MaskValues, WriteMask(m) PROVE Latch
      BY <1>1, <2>0, <3>5 DEF WriteMask
    <3>6. ASSUME NEW off \in BOOLEAN, WritePll(off) PROVE Latch
      BY <2>0, <3>6 DEF WritePll
    <3> QED BY <2>5, <3>1, <3>2, <3>3, <3>4, <3>5, <3>6 DEF GuestStep
  <2>6. CASE StateStep
    <3>1. ~Reset
      BY DEF Reset
    <3>2. ASSUME SaveState PROVE Latch
      BY <1>1, <2>0, <3>2 DEF SaveState
    <3> QED BY <2>6, <3>1, <3>2 DEF StateStep
  <2> QED BY <2>1, <2>2, <2>3, <2>4, <2>5, <2>6 DEF Next, HostStep
<1> QED BY <1>3, InitInv, NextInv, PTL DEF Spec, CradleEdgeLatches

=============================================================================
