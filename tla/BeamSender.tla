----------------------------- MODULE BeamSender -----------------------------
(***************************************************************************)
(* The sending half of the IrDA tool (PalmBeamCom/MainForm.vb 1081 to      *)
(* 1450): discovery, link setup, the IAS query, and an OBEX PUT in chunks, *)
(* one information frame at a time. The sender is one record; an operator  *)
(* takes it to the sender that a call leaves behind, with what was written *)
(* to the port at the end of s.serial.                                     *)
(*                                                                         *)
(* A file is a number of units, a chunk a few of them. A message is its    *)
(* kind, for a PUT with its units and whether it is the last. Rejected IAS *)
(* queries and the progress shown are left out.                            *)
(***************************************************************************)
EXTENDS Naturals, Sequences

CONSTANTS
    Files,        \* files to beam
    None,         \* no file, no frame
    Units,        \* how long each file is
    TextFiles,    \* those sent as a memo
    Modulus,      \* frames are numbered modulo this (8)
    MaxRetries,   \* IrdaBeamMaxInformationRetries
    MaxChunk,     \* the chunk size negotiated, in units; backing off halves it
    Grant,        \* TinyTP credits in a message (0x10)
    LastSlot,     \* the last discovery slot
    AnswerSlot    \* the slot the receiver answers in

ASSUME BeamAssumption ==
    /\ None \notin Files
    /\ Units \in [Files -> Nat] /\ TextFiles \subseteq Files
    /\ Modulus \in Nat /\ Modulus >= 2
    /\ MaxRetries \in Nat /\ MaxChunk \in Nat \ {0} /\ Grant \in Nat \ {0}
    /\ LastSlot \in Nat /\ AnswerSlot \in 1 .. LastSlot

\* The parts of a file in their order.
UnitsOf(file) == [k \in 1 .. Units[file] |-> [file |-> file, unit |-> k]]
Parts == [file : Files, unit : Nat]

MessageKinds == {"LmpConnect", "IasQuery", "ObexConnect", "PutMeta", "PutBody", "ObexDisconnect",
                 "LmpConfirm", "IasLsap", "ObexContinue", "ObexOk", "none"}
Message(kind) == [kind |-> kind, units |-> <<>>, final |-> FALSE, obex |-> FALSE]
ToObex(kind) == [Message(kind) EXCEPT !.obex = TRUE]
Messages == [kind : MessageKinds, units : Seq(Parts), final : BOOLEAN, obex : BOOLEAN]

FrameKinds == {"Xid", "XidResponse", "Snrm", "Ua", "I", "RR", "Disc"}
Frame(kind, ns, nr, data) == [kind |-> kind, ns |-> ns, nr |-> nr, data |-> data]
Control(kind) == Frame(kind, 0, 0, Message("none"))
Frames == [kind : FrameKinds, ns : Nat, nr : Nat, data : Messages]

NextSeq(n) == (n + 1) % Modulus

----------------------------------------------------------------------------
(* The sender *)

SendStates == {"Idle", "Discover", "Snrm", "IasConnect", "IasQuery", "ObexLmpConnect",
               "ObexConnect", "ObexPutMeta", "ObexPutBody", "ObexDisconnect"}

Senders == [state : SendStates, file : Files \union {None}, transmitNext : Nat,
            receiveNext : Nat, last : Frames \union {None}, retries : Nat, offset : Nat,
            chunk : Nat, paced : BOOLEAN, due : BOOLEAN, pending : BOOLEAN, credits : Nat,
            slot : Nat, endSent : BOOLEAN, serial : Seq(Frames)]

\* ResetIrdaBeamSender; what was written before stays on the line.
SenderReset(line) ==
    [state |-> "Idle", file |-> None, transmitNext |-> 0, receiveNext |-> 0, last |-> None,
     retries |-> 0, offset |-> 0, chunk |-> 1, paced |-> FALSE, due |-> FALSE,
     pending |-> FALSE, credits |-> 0, slot |-> 0, endSent |-> FALSE, serial |-> line]

Write(s, f) == [s EXCEPT !.serial = Append(@, f)]

\* Slot 0 begins a round of discovery (0xFF in the frame); slots count from 1 here.
SendIrdaBeamDiscovery(s) ==
    LET slot == IF s.slot > LastSlot THEN 0 ELSE s.slot
    IN  [Write(s, Frame("Xid", slot, 0, Message("none"))) EXCEPT !.slot = slot + 1]

StartIrdaBeamSend(s, file) ==
    SendIrdaBeamDiscovery([SenderReset(s.serial) EXCEPT !.file = file, !.state = "Discover"])

SendIrdaBeamInformation(s, data) ==
    LET f == Frame("I", s.transmitNext, s.receiveNext, data)
    IN  [Write(s, f) EXCEPT !.last = f, !.retries = 0, !.transmitNext = NextSeq(@)]

SendIrdaBeamReceiveReady(s) == Write(s, Frame("RR", 0, s.receiveNext, Message("none")))

\* The frame goes out as it was built, with the acknowledgement of that time.
CanRetransmit(s) == s.last # None /\ s.retries < MaxRetries
RetransmitLast(s) ==
    IF CanRetransmit(s) THEN [Write(s, s.last) EXCEPT !.retries = @ + 1] ELSE s

BackoffIrdaBeamBodyTransfer(s) ==
    [s EXCEPT !.chunk = IF @ > 1 THEN @ \div 2 ELSE @, !.paced = TRUE]

\* An acknowledgement of all that was sent ends the frame.
Acknowledged(s, nr) ==
    IF nr = s.transmitNext THEN [s EXCEPT !.last = None, !.retries = 0] ELSE s

----------------------------------------------------------------------------
(* The body *)

Put(units, final) == [ToObex("PutBody") EXCEPT !.units = units, !.final = final]

\* Nothing remains: a memo may need an empty end, anything else is done.
SendAfterBody(s) ==
    IF s.file \notin TextFiles \/ s.endSent
    THEN SendIrdaBeamInformation([s EXCEPT !.state = "ObexDisconnect"], ToObex("ObexDisconnect"))
    ELSE IF s.credits = 0 THEN [s EXCEPT !.pending = TRUE]
    ELSE SendIrdaBeamInformation([s EXCEPT !.credits = @ - 1, !.pending = FALSE, !.due = FALSE,
                                           !.endSent = TRUE], Put(<<>>, TRUE))

SendChunk(s) ==
    LET end == IF s.offset + s.chunk < Units[s.file] THEN s.offset + s.chunk ELSE Units[s.file]
    IN  IF s.credits = 0 THEN [s EXCEPT !.pending = TRUE]
        ELSE SendIrdaBeamInformation(
                 [s EXCEPT !.credits = @ - 1, !.pending = FALSE, !.due = FALSE, !.offset = end],
                 Put(SubSeq(UnitsOf(s.file), s.offset + 1, end), end = Units[s.file]))

\* Nothing is sent while a frame is unacknowledged; a paced body waits for its time.
SendIrdaBeamNextBodyChunk(s) ==
    IF s.last # None THEN s
    ELSE IF s.paced /\ ~s.due THEN [s EXCEPT !.due = TRUE, !.pending = TRUE]
    ELSE LET now == [s EXCEPT !.due = FALSE]
         IN  IF s.offset >= Units[s.file] THEN SendAfterBody(now) ELSE SendChunk(now)

----------------------------------------------------------------------------
(* Frames received *)

\* Mutant: credits are counted for the connection only.
AddIrdaBeamTinyTpCreditNever(s, m) == s

\* Every message over TinyTP brings credits; that of the connection sets them.
AddIrdaBeamTinyTpCredit(s, m) ==
    IF m.obex /\ m.kind # "LmpConfirm" THEN [s EXCEPT !.credits = @ + Grant] ELSE s

Request(s, state, data) == SendIrdaBeamInformation([s EXCEPT !.state = state], data)

\* The link is closed without waiting for an answer; this is where the send is complete.
SendDisc(s) == SenderReset(Write(s, Control("Disc")).serial)

HandleIrdaBeamSenderPayload(s0, m) ==
    LET s == AddIrdaBeamTinyTpCredit(s0, m)
    IN  CASE s.state = "IasConnect" /\ m.kind = "LmpConfirm" /\ ~m.obex ->
                 Request(s, "IasQuery", Message("IasQuery"))
          [] s.state = "IasQuery" /\ m.kind = "IasLsap" ->
                 Request(s, "ObexLmpConnect", ToObex("LmpConnect"))
          [] s.state = "ObexLmpConnect" /\ m.kind = "LmpConfirm" ->
                 Request([s EXCEPT !.credits = IF m.obex THEN Grant ELSE 0], "ObexConnect",
                         ToObex("ObexConnect"))
          [] s.state = "ObexConnect" /\ m.kind = "ObexOk" ->
                 Request(s, "ObexPutMeta", ToObex("PutMeta"))
          [] s.state = "ObexPutMeta" /\ m.kind \in {"ObexContinue", "ObexOk"} ->
                 SendIrdaBeamNextBodyChunk([s EXCEPT !.state = "ObexPutBody"])
          [] s.state = "ObexPutBody" /\ m.kind = "ObexContinue" -> SendIrdaBeamNextBodyChunk(s)
          [] s.state = "ObexPutBody" /\ m.kind = "ObexOk" ->
                 Request(s, "ObexDisconnect", ToObex("ObexDisconnect"))
          [] s.state = "ObexDisconnect" /\ m.kind = "ObexOk" -> SendDisc(s)
          [] OTHER -> s

\* Mutant: a repeated answer has the last frame sent again as well.
HandleInformationRepeats(s, f) ==
    LET acked == Acknowledged(s, f.nr)
    IN  IF f.ns # s.receiveNext THEN RetransmitLast(SendIrdaBeamReceiveReady(acked))
        ELSE HandleIrdaBeamSenderPayload([acked EXCEPT !.receiveNext = NextSeq(@)], f.data)

HandleInformation(s, f) ==
    LET acked == Acknowledged(s, f.nr)
    IN  IF f.ns # s.receiveNext THEN SendIrdaBeamReceiveReady(acked)
        ELSE HandleIrdaBeamSenderPayload([acked EXCEPT !.receiveNext = NextSeq(@)], f.data)

HandleReceiveReady(s, f) ==
    IF f.nr = s.transmitNext THEN Acknowledged(s, f.nr) ELSE RetransmitLast(s)

HandleIrdaBeamSenderFrame(s, f) ==
    CASE s.state = "Idle" -> s
      [] s.state = "Discover" /\ f.kind = "XidResponse" ->
             [Write(s, Control("Snrm")) EXCEPT !.state = "Snrm"]
      [] s.state = "Snrm" /\ f.kind = "Ua" ->
             Request([s EXCEPT !.chunk = MaxChunk, !.paced = FALSE, !.due = FALSE,
                               !.transmitNext = 0, !.receiveNext = 0],
                     "IasConnect", Message("LmpConnect"))
      [] s.state # "Idle" /\ f.kind = "RR" -> HandleReceiveReady(s, f)
      [] s.state # "Idle" /\ f.kind = "I" -> HandleInformation(s, f)
      [] OTHER -> s

----------------------------------------------------------------------------
(* The timer, ServiceIrdaBeamSender *)

BodyWaits(s) == s.pending /\ s.last = None

\* After 3 s without progress; in the body the sender also slows down.
Timeout(s) ==
    RetransmitLast(IF s.state = "ObexPutBody" THEN BackoffIrdaBeamBodyTransfer(s) ELSE s)
TimeoutDue(s) == s.state \notin {"Idle", "Discover"} /\ ~BodyWaits(s) /\ CanRetransmit(s)

\* Mutant: the end is waited for only while a frame is unacknowledged.
GiveUpDueForFrames(s) == s.state \notin {"Idle", "Discover"} /\ s.last # None
                         /\ ~CanRetransmit(s)

\* After 45 s, which only come when nothing is left to repeat.
GiveUpDue(s) == s.state \notin {"Idle", "Discover"} /\ ~BodyWaits(s) /\ ~CanRetransmit(s)
=============================================================================
