---------------------------- MODULE BeamReceiver ----------------------------
(***************************************************************************)
(* The receiving half of the IrDA tool (PalmBeamCom/MainForm.vb 412 to     *)
(* 830 and 991 to 1080). Answers are queued and written when the line is   *)
(* quiet. The record r holds the link, the queue, the object received so   *)
(* far and, as a history, the objects saved. An OBEX packet comes in one   *)
(* frame, as the sending half writes it; the reassembly of packets that a  *)
(* Palm splits is left out.                                                *)
(***************************************************************************)
EXTENDS BeamSender

Receivers == [connected : BOOLEAN, responded : BOOLEAN, receiveNext : Nat, transmitNext : Nat,
              last : [data : Messages, ns : Nat] \union {None},
              slot : Frames \union {None}, queue : Seq(Frames),
              body : Seq(Parts), saved : Seq(Seq(Parts))]

\* No frame is the absence of one.
ASSUME NoneAssumption == None \notin Frames /\ None \notin [data : Messages, ns : Nat]

ReceiverAtStart == [connected |-> FALSE, responded |-> FALSE, receiveNext |-> 0,
                    transmitNext |-> 0, last |-> None, slot |-> None, queue |-> <<>>,
                    body |-> <<>>, saved |-> <<>>]

QueueIrdaResponse(r, f) == [r EXCEPT !.queue = Append(@, f)]

SendIrdaReceiveReady(r) == QueueIrdaResponse(r, Frame("RR", 0, r.receiveNext, Message("none")))

SendIrdaInformationResponse(r, data) ==
    [QueueIrdaResponse(r, Frame("I", r.transmitNext, r.receiveNext, data))
         EXCEPT !.last = [data |-> data, ns |-> r.transmitNext], !.transmitNext = NextSeq(@)]

\* The answer is built again, with the acknowledgement of now.
QueueIrdaInformationRetransmit(r) ==
    QueueIrdaResponse(r, Frame("I", r.last.ns, r.receiveNext, r.last.data))

----------------------------------------------------------------------------
(* Link setup: these answers go into the slot of the next one to be written *)

HandleIrdaXidFrame(r, slot) ==
    IF slot = 0 THEN [r EXCEPT !.responded = FALSE]
    ELSE IF r.responded \/ slot # AnswerSlot THEN r
    ELSE [r EXCEPT !.responded = TRUE, !.slot = Control("XidResponse")]

\* A new link numbers from 0; queue and object of the one before are left.
HandleIrdaSnrmFrame(r) ==
    [r EXCEPT !.connected = TRUE, !.receiveNext = 0, !.transmitNext = 0, !.last = None,
              !.slot = Control("Ua")]

\* The answer to a disconnect is written at once, see BeamLink.
Disconnected(r) ==
    [ReceiverAtStart EXCEPT !.responded = r.responded, !.saved = r.saved]

----------------------------------------------------------------------------
(* Messages *)

\* The body is kept after it is saved; a connection or its end clears it.
Received(r, m) == [r EXCEPT !.body = @ \o m.units]
SaveIrdaObexObject(r) == [r EXCEPT !.saved = Append(@, r.body)]

HandleIrdaInformationPayload(r, m) ==
    CASE m.kind = "LmpConnect" ->
             SendIrdaInformationResponse(r, [Message("LmpConfirm") EXCEPT !.obex = m.obex])
      [] m.kind = "IasQuery" -> SendIrdaInformationResponse(r, Message("IasLsap"))
      [] m.kind \in {"ObexConnect", "ObexDisconnect"} ->
             SendIrdaInformationResponse([r EXCEPT !.body = <<>>], ToObex("ObexOk"))
      [] m.kind = "PutMeta" \/ (m.kind = "PutBody" /\ ~m.final) ->
             SendIrdaInformationResponse(Received(r, m), ToObex("ObexContinue"))
      [] m.kind = "PutBody" /\ m.final ->
             SendIrdaInformationResponse(SaveIrdaObexObject(Received(r, m)), ToObex("ObexOk"))
      [] OTHER -> SendIrdaReceiveReady(r)

\* An acknowledgement of all answers is itself answered only if there was none yet.
HandleIrdaReceiveAck(r, nr, sendIdleReceiveReady) ==
    IF nr # r.transmitNext /\ r.last # None THEN QueueIrdaInformationRetransmit(r)
    ELSE IF sendIdleReceiveReady /\ r.last = None THEN SendIrdaReceiveReady(r) ELSE r

\* Mutant: whatever the number of a frame, its message is taken.
HandleIrdaInformationFrameAny(r0, f) ==
    LET r == HandleIrdaReceiveAck(r0, f.nr, FALSE)
    IN  HandleIrdaInformationPayload([r EXCEPT !.receiveNext = NextSeq(f.ns)], f.data)

\* Mutant: a repeated frame is acknowledged, not answered again.
HandleIrdaInformationFrameAcks(r, f) ==
    IF f.ns = r.receiveNext
    THEN HandleIrdaInformationPayload([r EXCEPT !.receiveNext = NextSeq(@)], f.data)
    ELSE SendIrdaReceiveReady(r)

\* A frame repeated after its answer was lost acknowledges too little as well: two answers.
HandleIrdaInformationFrame(r0, f) ==
    LET r == HandleIrdaReceiveAck(r0, f.nr, FALSE)
    IN  IF f.ns = r.receiveNext
        THEN HandleIrdaInformationPayload([r EXCEPT !.receiveNext = NextSeq(@)], f.data)
        ELSE IF r.last # None THEN QueueIrdaInformationRetransmit(r)
        ELSE SendIrdaReceiveReady(r)

HandleIrdaFrame(r, f) ==
    CASE f.kind = "Xid" -> HandleIrdaXidFrame(r, f.ns)
      [] f.kind = "Snrm" -> HandleIrdaSnrmFrame(r)
      [] f.kind = "I" /\ r.connected -> HandleIrdaInformationFrame(r, f)
      [] f.kind = "RR" /\ r.connected -> HandleIrdaReceiveAck(r, f.nr, TRUE)
      [] f.kind = "Disc" /\ r.connected -> Disconnected(r)
      [] OTHER -> r
=============================================================================
