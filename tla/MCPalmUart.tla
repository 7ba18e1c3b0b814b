----------------------------- MODULE MCPalmUart -----------------------------
(* Inputs for model checking PalmUart: a polled driver, one interrupted on   *)
(* every status bit, and one interrupted on reception only.                  *)
EXTENDS PalmUart

Off      == {}
Polled   == {"ENABLE", "RX_ENABLE", "TX_ENABLE"}
RxDriven == Polled \cup {"RX_RDY_INT", "RX_FULL_INT"}
TxDriven == Polled \cup {"RX_HALF_INT", "TX_EMPTY_INT"}

Drivers  == {Off, RxDriven, TxDriven}
Both == BOOLEAN

\* Bound: the snapshots that are kept, of a receive queue that is full and a transmit queue
\* that is not, and what may happen to the queues and the mode until they are restored.
FewSnapshots ==
  saved # <<>> =>
    /\ Len(saved[1].rx) = 2 /\ saved[1].rx[1] # saved[1].rx[2]
    /\ Len(saved[1].tx) = 1 /\ saved[1].rxOverrun = 1 /\ saved[1].txOverrun = 0
    /\ saved[1].control = RxDriven
    /\ serialIn = <<>> /\ control # TxDriven
=============================================================================
