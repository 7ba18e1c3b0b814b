------------------------------ MODULE PalmUart ------------------------------
(***************************************************************************)
(* The emulated DragonBall UART of palm_hw.cpp and the host serial bridge  *)
(* of ESP32-PALM.ino.  Guest register accesses and servicePalmUartBridge   *)
(* run in one task, so each call is one atomic step; the host's serial     *)
(* line and the passing of time are the environment.                       *)
(*                                                                         *)
(* Registers are kept as the sets of flags the code tests: control is UART *)
(* $900, misc IRDAEn is the bit of $908, rxFlags/txFlags the status bits   *)
(* updateUartRegs computes into $904/$906, and uartPending is INT_LO_UART  *)
(* of the interrupt pending register.                                      *)
(***************************************************************************)
EXTENDS Integers, Sequences

CONSTANTS
  Byte,           \* byte values the model tells apart
  ZeroByte,       \* what a cleared FIFO cell holds
  Framing,        \* IRDA_SIR_BOF, IRDA_SIR_EOF, IRDA_SIR_ESCAPE
  FifoSize,       \* PALM_UART_FIFO_SIZE
  BridgeChunk,    \* PALM_UART_BRIDGE_CHUNK
  EchoBytes,      \* PALM_UART_IRDA_PROBE_ECHO_BYTES
  ControlValues,  \* values the guest writes to $900, as sets of flags
  IrdaValues,     \* values the guest writes to IRDAEn
  MaxSerial,      \* bound: bytes waiting in the host serial driver
  MaxOverruns,    \* bound: each overrun counter
  Snapshots       \* bound: does the run take and restore snapshots

Flags == {"ENABLE", "RX_ENABLE", "TX_ENABLE",
          "RX_FULL_INT", "RX_HALF_INT", "RX_RDY_INT",
          "TX_EMPTY_INT", "TX_HALF_INT", "TX_AVAIL_INT"}
RxFlags == {"RX_FULL", "RX_HALF", "RX_READY"}
TxFlags == {"TX_EMPTY", "TX_HALF", "TX_AVAIL"}

ASSUME UartConstants ==
  /\ ZeroByte \in Byte /\ Framing \subseteq Byte
  /\ FifoSize \in Nat \ {0} /\ BridgeChunk \in Nat \ {0} /\ EchoBytes \in Nat
  /\ ControlValues \subseteq SUBSET Flags /\ IrdaValues \subseteq BOOLEAN
  /\ MaxSerial \in Nat /\ MaxOverruns \in Nat /\ Snapshots \in BOOLEAN

VARIABLES
  rx, tx,                \* uartRxFifo/uartTxFifo with head, tail and count
  rxOverrun, txOverrun,  \* uartRxOverrunCount, uartTxOverrunCount
  control,               \* $900
  irdaEnabled,           \* IRDAEn in $908
  irdaEnabledLast,       \* uartIrdaEnabledLast
  echoBudget,            \* uartIrdaProbeEchoBudget
  echoWindow,            \* millis() has not passed uartIrdaProbeEchoUntilMs
  rxFlags, txFlags,      \* status bits of $904 and $906
  uartPending,           \* INT_LO_UART in $312
  serialIn,              \* bytes the host serial driver holds for Serial.read
  saved                  \* <<>> or the UART part of the last snapshot

fifos == <<rx, tx, rxOverrun, txOverrun>>
irda  == <<irdaEnabled, irdaEnabledLast, echoBudget, echoWindow>>
regs  == <<rxFlags, txFlags, uartPending>>
vars  == <<fifos, control, irda, regs, serialIn, saved>>

Index == 0..(FifoSize - 1)
Ring  == [buf : [Index -> Byte], head : Index, tail : Index, count : 0..FifoSize]

-----------------------------------------------------------------------------
(* Ring buffers. *)

EmptyRing == [buf |-> [i \in Index |-> ZeroByte], head |-> 0, tail |-> 0, count |-> 0]

\* resetUartState rewinds the indices and leaves the cells alone.
Rewound(r) == [buf |-> r.buf, head |-> 0, tail |-> 0, count |-> 0]

Put(r, b) == [buf   |-> [r.buf EXCEPT ![r.head] = b],
              head  |-> (r.head + 1) % FifoSize,
              tail  |-> r.tail,
              count |-> r.count + 1]

Take(r, n) == [buf   |-> r.buf,
               head  |-> r.head,
               tail  |-> (r.tail + n) % FifoSize,
               count |-> r.count - n]

\* The queued bytes, oldest first.
Contents(r) == [k \in 1..r.count |-> r.buf[(r.tail + k - 1) % FifoSize]]

Smaller(a, b) == IF a < b THEN a ELSE b

\* The bytes of s that fit, stored one after the other from the head.
PutMany(r, s) ==
  LET n == Smaller(Len(s), FifoSize - r.count)
  IN [buf   |-> [i \in Index |-> LET k == ((i + FifoSize) - r.head) % FifoSize
                                 IN IF k < n THEN s[k + 1] ELSE r.buf[i]],
      head  |-> (r.head + n) % FifoSize,
      tail  |-> r.tail,
      count |-> r.count + n]

\* loadUartQueue: the saved bytes from cell 0 on, the rest cleared.
Loaded(q) == [buf   |-> [i \in Index |-> IF i < Len(q) THEN q[i + 1] ELSE ZeroByte],
              head  |-> Len(q) % FifoSize,
              tail  |-> 0,
              count |-> Len(q)]

-----------------------------------------------------------------------------
(* updateUartRegs. *)

RxStatus(r) == {f \in RxFlags : \/ f = "RX_READY" /\ r.count > 0
                                \/ f = "RX_HALF" /\ r.count > 0 /\ r.count >= FifoSize \div 2
                                \/ f = "RX_FULL" /\ r.count > 0 /\ r.count >= FifoSize}

\* TX_AVAIL is reported whether or not there is room.
TxStatus(t) == {f \in TxFlags : \/ f = "TX_AVAIL"
                                \/ f = "TX_EMPTY" /\ t.count = 0
                                \/ f = "TX_HALF" /\ t.count < FifoSize \div 2}

Requested(c, rf, tf) ==
  /\ "ENABLE" \in c
  /\ \/ /\ "RX_ENABLE" \in c
        /\ \/ "RX_READY" \in rf /\ "RX_RDY_INT" \in c
           \/ "RX_HALF" \in rf /\ "RX_HALF_INT" \in c
           \/ "RX_FULL" \in rf /\ "RX_FULL_INT" \in c
     \/ /\ "TX_ENABLE" \in c
        /\ \/ "TX_AVAIL" \in tf /\ "TX_AVAIL_INT" \in c
           \/ "TX_HALF" \in tf /\ "TX_HALF_INT" \in c
           \/ "TX_EMPTY" \in tf /\ "TX_EMPTY_INT" \in c

UpdateUartRegs(r, t, c) ==
  /\ rxFlags' = RxStatus(r)
  /\ txFlags' = TxStatus(t)
  /\ uartPending' = Requested(c, RxStatus(r), TxStatus(t))

-----------------------------------------------------------------------------
(* Guest register accesses. *)

\* Mutant of CpuReadRx: without the second updateUartRegs.
CpuReadRxStale ==
  /\ rx.count > 0
  /\ rx' = Take(rx, 1)
  /\ UNCHANGED <<tx, rxOverrun, txOverrun, control, irda, regs, serialIn, saved>>

\* palmHwRead8($905) with a byte waiting.
CpuReadRx ==
  /\ rx.count > 0
  /\ rx' = Take(rx, 1)
  /\ UpdateUartRegs(rx', tx, control)
  /\ UNCHANGED <<tx, rxOverrun, txOverrun, control, irda, serialIn, saved>>

\* enqueueUartIrdaEcho after the guest's byte b went into the TX FIFO.
NoEcho(b) ==
  /\ \/ (~irdaEnabled \/ echoBudget = 0) /\ UNCHANGED echoBudget
     \/ /\ irdaEnabled /\ echoBudget > 0 /\ (~echoWindow \/ b \in Framing)
        /\ echoBudget' = 0
  /\ UNCHANGED <<rx, rxOverrun>>

Echoed(b) ==
  /\ irdaEnabled /\ echoBudget > 0 /\ echoWindow /\ b \notin Framing
  /\ \/ /\ rx.count < FifoSize
        /\ rx' = Put(rx, b)
        /\ echoBudget' = echoBudget - 1
        /\ UNCHANGED rxOverrun
     \/ /\ rx.count >= FifoSize /\ rxOverrun < MaxOverruns
        /\ rxOverrun' = rxOverrun + 1
        /\ UNCHANGED <<rx, echoBudget>>

\* palmHwWrite8($907, b).
CpuWriteTx(b) ==
  /\ tx.count < FifoSize
  /\ tx' = Put(tx, b)
  /\ NoEcho(b) \/ Echoed(b)
  /\ UpdateUartRegs(rx', tx', control)
  /\ UNCHANGED <<txOverrun, control, irdaEnabled, irdaEnabledLast, echoWindow, serialIn, saved>>

CpuWriteTxFull ==
  /\ tx.count >= FifoSize /\ txOverrun < MaxOverruns
  /\ txOverrun' = txOverrun + 1
  /\ UpdateUartRegs(rx, tx, control)
  /\ UNCHANGED <<rx, tx, rxOverrun, control, irda, serialIn, saved>>

\* palmHwWrite8($900/$901).
CpuWriteControl(c) ==
  /\ control' = c
  /\ UpdateUartRegs(rx, tx, c)
  /\ UNCHANGED <<fifos, irda, serialIn, saved>>

\* palmHwWrite8($908/$909) and updateUartIrdaProbeEchoState.
CpuWriteMisc(enable) ==
  /\ irdaEnabled' = enable
  /\ irdaEnabledLast' = enable
  /\ \/ enable /\ ~irdaEnabledLast /\ echoBudget' = EchoBytes /\ echoWindow' = TRUE
     \/ enable /\ irdaEnabledLast /\ UNCHANGED <<echoBudget, echoWindow>>
     \/ ~enable /\ echoBudget' = 0 /\ UNCHANGED echoWindow
  /\ UpdateUartRegs(rx, tx, control)
  /\ UNCHANGED <<fifos, control, serialIn, saved>>

-----------------------------------------------------------------------------
(* Time and the host. *)

EchoWindowCloses ==
  /\ echoWindow
  /\ echoWindow' = FALSE
  /\ UNCHANGED <<fifos, control, irdaEnabled, irdaEnabledLast, echoBudget, regs, serialIn, saved>>

HostSends(b) ==
  /\ Len(serialIn) < MaxSerial
  /\ serialIn' = Append(serialIn, b)
  /\ UNCHANGED <<fifos, control, irda, regs, saved>>

\* palmHwUartWriteRx: what does not fit is counted as overrun.
WriteRx(s) ==
  /\ rx' = PutMany(rx, s)
  /\ rxOverrun' = rxOverrun + Len(s) - Smaller(Len(s), FifoSize - rx.count)

\* Mutant of BridgeReads: the free space of the FIFO is not asked for.
BridgeReadsChunk == SubSeq(serialIn, 1, Smaller(Len(serialIn), BridgeChunk))

\* What the bridge reads from the serial driver in one call: no more than its
\* buffer and than palmHwUartRxFree.
BridgeReads ==
  SubSeq(serialIn, 1, Smaller(Len(serialIn), Smaller(BridgeChunk, FifoSize - rx.count)))

\* servicePalmUartBridge: n bytes leave the TX FIFO before Serial stops taking.
BridgeService(n) ==
  /\ n <= tx.count
  /\ WriteRx(BridgeReads)
  /\ serialIn' = SubSeq(serialIn, Len(BridgeReads) + 1, Len(serialIn))
  /\ tx' = Take(tx, n)
  /\ UpdateUartRegs(rx', tx', control)
  /\ UNCHANGED <<txOverrun, control, irda, saved>>

-----------------------------------------------------------------------------
(* Reset and snapshots. *)

\* palmHwInit: resetUartState over a cleared register file.
Reset ==
  /\ rx' = Rewound(rx) /\ tx' = Rewound(tx)
  /\ rxOverrun' = 0 /\ txOverrun' = 0
  /\ control' = {}
  /\ irdaEnabled' = FALSE /\ irdaEnabledLast' = FALSE
  /\ echoBudget' = 0 /\ echoWindow' = FALSE
  /\ UpdateUartRegs(rx', tx', control')
  /\ UNCHANGED <<serialIn, saved>>

\* palmHwSaveState and palmHwSaveUartState.
SaveState ==
  /\ Snapshots
  /\ saved' = <<[rx |-> Contents(rx), tx |-> Contents(tx),
                 rxOverrun |-> rxOverrun, txOverrun |-> txOverrun,
                 control |-> control, irdaEnabled |-> irdaEnabled]>>
  /\ UpdateUartRegs(rx, tx, control)
  /\ UNCHANGED <<fifos, control, irda, serialIn>>

\* Mutant of LoadState: the transmit queue is not restored.
LoadStateRxOnly ==
  /\ saved # <<>>
  /\ rx' = Loaded(saved[1].rx)
  /\ rxOverrun' = saved[1].rxOverrun /\ txOverrun' = saved[1].txOverrun
  /\ control' = saved[1].control
  /\ irdaEnabled' = saved[1].irdaEnabled /\ irdaEnabledLast' = saved[1].irdaEnabled
  /\ echoBudget' = 0 /\ echoWindow' = FALSE
  /\ UpdateUartRegs(rx', tx, control')
  /\ UNCHANGED <<tx, serialIn, saved>>

\* palmHwLoadState followed by palmHwLoadUartState.
LoadState ==
  /\ saved # <<>>
  /\ rx' = Loaded(saved[1].rx) /\ tx' = Loaded(saved[1].tx)
  /\ rxOverrun' = saved[1].rxOverrun /\ txOverrun' = saved[1].txOverrun
  /\ control' = saved[1].control
  /\ irdaEnabled' = saved[1].irdaEnabled /\ irdaEnabledLast' = saved[1].irdaEnabled
  /\ echoBudget' = 0 /\ echoWindow' = FALSE
  /\ UpdateUartRegs(rx', tx', control')
  /\ UNCHANGED <<serialIn, saved>>

-----------------------------------------------------------------------------
Init ==
  /\ rx = EmptyRing /\ tx = EmptyRing
  /\ rxOverrun = 0 /\ txOverrun = 0
  /\ control = {}
  /\ irdaEnabled = FALSE /\ irdaEnabledLast = FALSE
  /\ echoBudget = 0 /\ echoWindow = FALSE
  /\ rxFlags = {} /\ txFlags = TxStatus(tx) /\ uartPending = FALSE
  /\ serialIn = <<>>
  /\ saved = <<>>

GuestStep ==
  \/ CpuReadRx
  \/ \E b \in Byte : CpuWriteTx(b)
  \/ CpuWriteTxFull
  \/ \E c \in ControlValues : CpuWriteControl(c)
  \/ \E e \in IrdaValues : CpuWriteMisc(e)

HostStep ==
  \/ EchoWindowCloses
  \/ \E b \in Byte : HostSends(b)
  \/ \E n \in 0..FifoSize : BridgeService(n)

StateStep == Reset \/ SaveState \/ LoadState

Next == GuestStep \/ HostStep \/ StateStep

Spec == Init /\ [][Next]_vars

-----------------------------------------------------------------------------
(* Properties. *)

SavedUart ==
  [rx : UNION {[1..n -> Byte] : n \in 0..FifoSize},
   tx : UNION {[1..n -> Byte] : n \in 0..FifoSize},
   rxOverrun : Nat, txOverrun : Nat, control : SUBSET Flags, irdaEnabled : BOOLEAN]

\* Every variable stays in its range; ring indices stay inside the arrays.
TypeOK ==
  /\ rx \in Ring /\ tx \in Ring
  /\ rxOverrun \in Nat /\ txOverrun \in Nat
  /\ control \in SUBSET Flags
  /\ irdaEnabled \in BOOLEAN /\ irdaEnabledLast \in BOOLEAN
  /\ echoBudget \in 0..EchoBytes /\ echoWindow \in BOOLEAN
  /\ rxFlags \in SUBSET RxFlags /\ txFlags \in SUBSET TxFlags
  /\ uartPending \in BOOLEAN
  /\ serialIn \in Seq(Byte)
  /\ saved = <<>> \/ (saved = <<saved[1]>> /\ saved[1] \in SavedUart)

\* The head of each ring is always its tail advanced by its count, whichever of
\* enqueue, dequeue, burst, reset and restore moved it last (they each move two of
\* the three on their own).
Coherent(r) == r.head = (r.tail + r.count) % FifoSize

RingsCoherent == Coherent(rx) /\ Coherent(tx)

\* The status bits and the UART interrupt request the guest sees always belong to
\* the queues as they are now: no path that moves a byte leaves a stale request.
RequestMatchesQueues ==
  /\ rxFlags = RxStatus(rx)
  /\ txFlags = TxStatus(tx)
  /\ uartPending = Requested(control, rxFlags, txFlags)

\* The probe echo is armed only while IrDA mode is on, and the edge detector that
\* arms it always knows the mode in force, through reset and restore too: a guest
\* that turns IrDA on always gets a fresh probe, one that has it on never does.
EchoOnlyInIrda ==
  /\ irdaEnabledLast = irdaEnabled
  /\ echoBudget > 0 => irdaEnabled

\* What the code derives by hand after each operation is what it should be: the flags and the
\* request from the queues, and the probe echo from the mode (updateUartRegs,
\* updateUartIrdaProbeEchoState).
DerivedStateCurrent == RequestMatchesQueues /\ EchoOnlyInIrda

\* The serial bridge takes from the host only what the guest's FIFO can hold: a
\* byte read from Serial is never dropped.
BridgeLosesNothing ==
  [][Len(serialIn') < Len(serialIn) =>
       /\ rxOverrun' = rxOverrun
       /\ Contents(rx') \o serialIn' = Contents(rx) \o serialIn]_vars

\* The two FIFOs with everything around them implement two bounded queues.
Link == INSTANCE ByteLink
          WITH Capacity <- FifoSize, MaxBurst <- BridgeChunk,
               rxq <- Contents(rx), txq <- Contents(tx),
               rxLost <- rxOverrun, txLost <- txOverrun,
               kept <- IF saved = <<>> THEN <<>>
                       ELSE <<[rx |-> saved[1].rx, tx |-> saved[1].tx,
                               rxLost |-> saved[1].rxOverrun,
                               txLost |-> saved[1].txOverrun]>>

\* Bytes come out of each FIFO once, in order, and only overruns drop any; a
\* restored snapshot brings back the queues it was taken from.
ImplementsByteLink == Link!LinkSpec

\* What HARDWARE_PROFILES.md says of IrDA mode: "transmitted bytes echo back to
\* receive".  With room in the receive FIFO every transmitted byte would show there.
TransmittedBytesEchoInIrda ==
  [][\A b \in Byte :
       irdaEnabled /\ rx.count < FifoSize /\ CpuWriteTx(b) => rx' = Put(rx, b)]_vars
=============================================================================
