------------------------------ MODULE ByteLink ------------------------------
(***************************************************************************)
(* What the emulated DragonBall UART promises to its two sides, the guest  *)
(* (Palm OS serial driver) and the host (the board's serial port): two     *)
(* bounded first-in first-out byte queues.  A byte offered to a full queue *)
(* is dropped and counted, every other byte comes out once and in order,   *)
(* and a snapshot puts both queues back exactly as they were.              *)
(*                                                                         *)
(* PalmUart implements this module with ring buffers (PalmUart!Link).      *)
(***************************************************************************)
EXTENDS Naturals, Sequences

CONSTANTS
  Byte,        \* the byte values the model tells apart
  Capacity,    \* bytes one queue holds
  MaxBurst     \* most bytes the host moves into the guest in one call

VARIABLES
  rxq,         \* bytes from the host the guest has not read
  txq,         \* bytes from the guest the host has not taken
  rxLost,      \* bytes dropped because rxq was full
  txLost,      \* bytes dropped because txq was full
  kept         \* <<>> or <<[rx, tx, rxLost, txLost]>>: the queues of the last snapshot

linkVars == <<rxq, txq, rxLost, txLost, kept>>

Bursts == UNION {[1..n -> Byte] : n \in 0..MaxBurst}

Least(a, b) == IF a < b THEN a ELSE b

\* The prefix of s that fits behind q.
Accepted(q, s) == Least(Len(s), Capacity - Len(q))

Drop(q, n) == SubSeq(q, n + 1, Len(q))

LinkInit ==
  /\ rxq = <<>> /\ txq = <<>>
  /\ rxLost = 0 /\ txLost = 0
  /\ kept = <<>>

\* The host hands over a burst and takes some of what the guest has sent.
HostExchange(s, n) ==
  /\ rxq' = rxq \o SubSeq(s, 1, Accepted(rxq, s))
  /\ rxLost' = rxLost + Len(s) - Accepted(rxq, s)
  /\ txq' = Drop(txq, n)
  /\ UNCHANGED <<txLost, kept>>

GuestReceive ==
  /\ rxq # <<>>
  /\ rxq' = Tail(rxq)
  /\ UNCHANGED <<txq, rxLost, txLost, kept>>

\* The byte is queued; in the infra-red probe it may also come back.
GuestSend(b, echo) ==
  /\ Len(txq) < Capacity
  /\ txq' = Append(txq, b)
  /\ rxq' = rxq \o SubSeq(<<b>>, 1, IF echo THEN Accepted(rxq, <<b>>) ELSE 0)
  /\ rxLost' = rxLost + (IF echo THEN 1 - Accepted(rxq, <<b>>) ELSE 0)
  /\ UNCHANGED <<txLost, kept>>

GuestSendDropped ==
  /\ Len(txq) = Capacity
  /\ txLost' = txLost + 1
  /\ UNCHANGED <<rxq, txq, rxLost, kept>>

PowerOn ==
  /\ rxq' = <<>> /\ txq' = <<>>
  /\ rxLost' = 0 /\ txLost' = 0
  /\ UNCHANGED kept

Keep ==
  /\ kept' = <<[rx |-> rxq, tx |-> txq, rxLost |-> rxLost, txLost |-> txLost]>>
  /\ UNCHANGED <<rxq, txq, rxLost, txLost>>

Recall ==
  /\ kept # <<>>
  /\ rxq' = kept[1].rx /\ txq' = kept[1].tx
  /\ rxLost' = kept[1].rxLost /\ txLost' = kept[1].txLost
  /\ UNCHANGED kept

LinkNext ==
  \/ \E s \in Bursts, n \in 0..Capacity : n <= Len(txq) /\ HostExchange(s, n)
  \/ GuestReceive
  \/ \E b \in Byte, echo \in BOOLEAN : GuestSend(b, echo)
  \/ GuestSendDropped
  \/ PowerOn
  \/ Keep
  \/ Recall

LinkSpec == LinkInit /\ [][LinkNext]_linkVars
=============================================================================
