------------------------------ MODULE BeamLink ------------------------------
(***************************************************************************)
(* A beam from one IrDA tool to another: the sending half of BeamSender    *)
(* and the receiving half of BeamReceiver on a line that keeps frames in   *)
(* order and may lose some. s.serial is the line to the receiver, toSender *)
(* the line back. The timers of both tools are steps of their own; what    *)
(* they may wait for is stated where they are.                             *)
(***************************************************************************)
EXTENDS BeamReceiver, FiniteSets

CONSTANTS MaxSends, MaxFaults   \* bounds: sends started, frames lost or timers early

ASSUME LinkAssumption == MaxSends \in Nat /\ MaxFaults \in Nat

\* A saved object tells which file it is: not one of two empty memos.
ASSUME ObjectAssumption ==
    \A f, g \in TextFiles : Units[f] = 0 /\ Units[g] = 0 => f = g

VARIABLES
    s,         \* the sender, with the line to the receiver
    r,         \* the receiver
    toSender,  \* the line back
    started,   \* history: the files started, in order
    before,    \* history: objects saved before the last start
    past,      \* history: what the sends before have left on the way, see Pasts
    outcome,   \* history: how the last send ended
    faults     \* frames lost and timers early so far

vars == <<s, r, toSender, started, before, past, outcome, faults>>

\* Nothing; frames that no link is set up over; or frames that one may be set up over.
Pasts == {"gone", "left", "mixed"}

TypeOK ==
    /\ s \in Senders /\ r \in Receivers /\ toSender \in Seq(Frames)
    /\ started \in Seq(Files) /\ before \in Nat /\ past \in Pasts
    /\ outcome \in {"none", "complete", "aborted"}
    /\ faults \in Nat

Init ==
    /\ s = SenderReset(<<>>) /\ r = ReceiverAtStart /\ toSender = <<>>
    /\ started = <<>> /\ before = 0 /\ past = "gone" /\ outcome = "none" /\ faults = 0

----------------------------------------------------------------------------
(* The sender *)

Quiet == s.serial = <<>> /\ toSender = <<>> /\ r.slot = None /\ r.queue = <<>>

\* The button is live during a send, which it breaks off.
UserSends ==
    \E file \in Files :
        /\ Len(started) < MaxSends
        /\ s' = StartIrdaBeamSend(s, file)
        /\ started' = Append(started, file)
        /\ before' = Len(r.saved) /\ outcome' = "none"
        /\ past' = IF Quiet THEN "gone" ELSE IF past = "gone" THEN "left" ELSE past
        /\ UNCHANGED <<r, toSender, faults>>

SenderHears ==
    /\ toSender # <<>>
    /\ toSender' = Tail(toSender)
    /\ s' = HandleIrdaBeamSenderFrame(s, Head(toSender))
    /\ outcome' = IF s.state # "Idle" /\ s'.state = "Idle" THEN "complete" ELSE outcome
    /\ UNCHANGED <<r, started, before, past, faults>>

SenderMoves == UNCHANGED <<r, toSender, started, before, past>>

\* Every 250 ms, in which any answer (20 ms) has come ...
DiscoveryTimer ==
    /\ s.state = "Discover" /\ Quiet
    /\ s' = SendIrdaBeamDiscovery(s)
    /\ past' = "gone"
    /\ UNCHANGED <<r, toSender, started, before, outcome, faults>>

\* ... unless a window is busy for longer: the timer does not look at the line.
DiscoveryTimerEarly ==
    /\ s.state = "Discover" /\ ~Quiet /\ faults < MaxFaults
    /\ s' = SendIrdaBeamDiscovery(s)
    /\ faults' = faults + 1
    /\ past' = IF past = "gone" THEN "gone" ELSE "mixed"
    /\ UNCHANGED <<r, toSender, started, before, outcome>>

BodyTimer ==
    /\ BodyWaits(s)
    /\ s' = SendIrdaBeamNextBodyChunk(s)
    /\ SenderMoves /\ UNCHANGED <<outcome, faults>>

\* After 3 s, when the answer is lost ...
RetransmitTimer ==
    /\ TimeoutDue(s) /\ Quiet
    /\ s' = Timeout(s)
    /\ SenderMoves /\ UNCHANGED <<outcome, faults>>

\* ... or late, because the receiver's window was busy.
RetransmitTimerEarly ==
    /\ TimeoutDue(s) /\ ~Quiet /\ faults < MaxFaults
    /\ s' = Timeout(s)
    /\ faults' = faults + 1
    /\ SenderMoves /\ UNCHANGED outcome

GiveUpTimer ==
    /\ GiveUpDue(s) /\ Quiet
    /\ s' = SenderReset(s.serial)
    /\ outcome' = "aborted"
    /\ SenderMoves /\ UNCHANGED faults

----------------------------------------------------------------------------
(* The receiver *)

\* After each frame an answer that is queued moves to the slot, if the slot is free.
TakeUp(x) ==
    IF x.slot = None /\ x.queue # <<>>
    THEN [x EXCEPT !.slot = Head(x.queue), !.queue = Tail(@)] ELSE x

\* The end of a link is answered at once, the end of one that has ended as well.
ReceiverHears ==
    /\ s.serial # <<>>
    /\ LET f == Head(s.serial)
       IN  /\ r' = TakeUp(HandleIrdaFrame(r, f))
           /\ toSender' = IF f.kind = "Disc" THEN Append(toSender, Control("Ua")) ELSE toSender
    /\ s' = [s EXCEPT !.serial = Tail(@)]
    /\ UNCHANGED <<started, before, past, outcome, faults>>

SendPendingIrdaResponse ==
    /\ TakeUp(r).slot # None
    /\ toSender' = Append(toSender, TakeUp(r).slot)
    /\ r' = [TakeUp(r) EXCEPT !.slot = None]
    /\ UNCHANGED <<s, started, before, past, outcome, faults>>

\* The timer comes while the port still has bytes to write.
ResponseTakenUp ==
    /\ TakeUp(r) # r
    /\ r' = TakeUp(r)
    /\ UNCHANGED <<s, toSender, started, before, past, outcome, faults>>

----------------------------------------------------------------------------
(* The line *)

LineLoses ==
    /\ faults < MaxFaults /\ faults' = faults + 1
    /\ \/ /\ s.serial # <<>>
          /\ s' = [s EXCEPT !.serial = Tail(@)] /\ UNCHANGED toSender
       \/ /\ toSender # <<>>
          /\ toSender' = Tail(toSender) /\ UNCHANGED s
    /\ UNCHANGED <<r, started, before, past, outcome>>

Next ==
    \/ UserSends \/ SenderHears \/ DiscoveryTimer \/ DiscoveryTimerEarly \/ BodyTimer
    \/ RetransmitTimer \/ RetransmitTimerEarly \/ GiveUpTimer
    \/ ReceiverHears \/ SendPendingIrdaResponse \/ ResponseTakenUp
    \/ LineLoses

Spec == Init /\ [][Next]_vars

\* Both windows run their timers and take what the port brings; nobody has to start a send.
Fairness ==
    /\ WF_vars(SenderHears) /\ WF_vars(DiscoveryTimer) /\ WF_vars(BodyTimer)
    /\ WF_vars(RetransmitTimer) /\ WF_vars(GiveUpTimer)
    /\ WF_vars(ReceiverHears) /\ WF_vars(SendPendingIrdaResponse)

FairSpec == Spec /\ Fairness

----------------------------------------------------------------------------
(* Properties *)

\* The file an object is, if it is a whole one.
Whole(object, f) == object = UnitsOf(f) /\ (Units[f] > 0 \/ f \in TextFiles)
FileOf(object) == IF \E f \in Files : Whole(object, f)
                  THEN CHOOSE f \in Files : Whole(object, f) ELSE object

\* A beam keeps the promise of BeamTransfer: whatever is lost, repeated or late, a saved
\* object is a whole file in its order (HandleObexHeaders, SaveIrdaObexObject), each start
\* gives at most one, and "Beam send complete" (SendIrdaBeamControl) comes only for a file
\* that is saved, or that has nothing to send, unless answers of two links are mixed.
Transfer ==
    INSTANCE BeamTransfer WITH
        Empty <- {f \in Files \ TextFiles : Units[f] = 0},
        sending <- s.file,
        started <- [f \in Files |-> Cardinality({k \in DOMAIN started : started[k] = f})],
        saved <- [k \in 1 .. Len(r.saved) |-> FileOf(r.saved[k])],
        delivered <- /\ s.file # None
                     /\ \E k \in before + 1 .. Len(r.saved) : FileOf(r.saved[k]) = s.file,
        apart <- past # "mixed"
ImplementsTransfer == Transfer!Spec

\* A body chunk never waits for a credit: a send that did would neither be repeated nor
\* time out (ServiceIrdaBeamSender), and the receiver gives credit only with an answer.
NeverStarved == s.pending => s.credits > 0

\* A repeat does not snowball, unless links are mixed: each early or needed repeat adds two
\* answers at most, each of which draws one acknowledgement, which draws one answer
\* (HandleIrdaReceiveAck).
Numbered(line) == Cardinality({k \in DOMAIN line : line[k].kind \in {"I", "RR"}})
FewFrames ==
    past # "mixed" =>
        Numbered(s.serial) + Numbered(toSender) + Numbered(r.queue) <= 2 + 2 * faults

\* Once a link is up that was not set up over frames of one before, losses that the retries
\* can cover delay a file but do not stop it: the send is complete, unless the user starts
\* another.
Linked == s.state \notin {"Idle", "Discover", "Snrm"}
LossIsRepaired ==
    \A n \in 1 .. MaxSends :
        (Linked /\ past # "mixed" /\ Len(started) = n) ~>
            (outcome = "complete" \/ Len(started) > n)

\* Every send ends, with the file saved or with "Beam send timed out": nothing is waited
\* for that no timer watches. A send that breaks off another may not end: the last answer
\* of the link before and the acknowledgements it draws (HandleIrdaBeamSenderFrame answers
\* in Discover as well) repeat each other, and each holds discovery back.
SendEnds == (s.state # "Idle" /\ past = "gone") ~> (s.state = "Idle" \/ past # "gone")
=============================================================================
