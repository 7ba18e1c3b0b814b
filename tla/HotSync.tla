------------------------------ MODULE HotSync ------------------------------
(***************************************************************************)
(* A HotSync: the host of HotSyncHost on a line with a Palm. The Palm is   *)
(* outside the repository. It is modelled from what the host expects of    *)
(* it: it wakes the host, acknowledges every fragment it gets, carries out *)
(* complete requests and answers them under their transaction number; it   *)
(* may refuse a request, ask something itself, send a message again whose  *)
(* acknowledgement it has not seen, or break the session off.              *)
(*                                                                         *)
(* The line keeps frames in order and may lose some: a damaged frame is    *)
(* dropped by its checksum. It is the queue host.uart in one direction and *)
(* toHost, transmit queue and uartSlpRxBuffer, in the other.               *)
(***************************************************************************)
EXTENDS HotSyncHost

CONSTANTS
    WakeTxs,      \* transaction numbers a wake may carry
    LongReplies,  \* commands whose answer takes the Palm two fragments
    MaxSyncs, MaxClicks, MaxFaults   \* bounds: syncs, files queued, faults of any kind

ASSUME SessionAssumption ==
    /\ WakeTxs \subseteq 1 .. TxMax /\ LongReplies \subseteq Commands
    /\ MaxSyncs \in Nat /\ MaxClicks \in Nat /\ MaxFaults \in Nat

VARIABLES
    host,      \* the host, with the queue to the Palm
    toHost,    \* frames on their way to the host
    palm,      \* the Palm's side of the session
    device,    \* what the Palm holds of each database
    accepted,  \* history: files queued since installs were last forgotten
    done,      \* history: files the host reported as installed since then
    trouble,   \* history: what has gone wrong since the last wake
    spent      \* syncs, clicks and faults so far

vars == <<host, toHost, palm, device, accepted, done, trouble, spent>>

Absent == [present |-> FALSE, written |-> <<>>]

\* What the Palm is sending: unacked until its acknowledgement has come.
PalmSilent == [unacked |-> FALSE, tx |-> 0, msg |-> NoPayload, part |-> 0]
PalmDeaf == [tx |-> 0, parts |-> 0]
PalmAway == [mode |-> "away", in |-> PalmDeaf, out |-> PalmSilent, open |-> None,
             named |-> FALSE]

Troubles == {"lost", "repeated", "refused", "asked", "brokenOff", "forgotten"}

TypeOK ==
    /\ host \in Hosts
    /\ toHost \in Seq(FramesOf(Payloads))
    /\ palm \in [mode : {"away", "waking", "linked"}, in : [tx : Nat, parts : Nat],
                 out : [unacked : BOOLEAN, tx : Nat, msg : Payloads, part : Nat],
                 open : Images \union {None}, named : BOOLEAN]
    /\ device \in [Images -> [present : BOOLEAN,
                              written : Seq([cmd : Commands, image : Images \union {None},
                                             item : Nat])]]
    /\ accepted \in Seq(Images) /\ done \in Seq(Images)
    /\ trouble \subseteq Troubles
    /\ spent \in [syncs : Nat, clicks : Nat, faults : Nat]

Init ==
    /\ host = HostAtStart /\ toHost = <<>> /\ palm = PalmAway
    /\ device = [i \in Images |-> Absent]
    /\ accepted = <<>> /\ done = <<>> /\ trouble = {}
    /\ spent = [syncs |-> 0, clicks |-> 0, faults |-> 0]

----------------------------------------------------------------------------
(* The host *)

\* The transition out of CloseSent on which the host says "install complete".
ReportsInstalled(h, g) == /\ h.installState = "CloseSent"
                          /\ g.installState \in {"DeleteSent", "EndSent"}

HostReceives ==
    /\ toHost # <<>>
    /\ toHost' = Tail(toHost)
    /\ host' = HandlePalmSlpFrame(host, Head(toHost))
    /\ done' = IF ReportsInstalled(host, host') THEN Append(done, host.pendingInstall) ELSE done
    /\ UNCHANGED <<palm, device, accepted, trouble, spent>>

ServiceHotSyncHost ==
    /\ ReadUserInfoDue(host)
    /\ host' = SendDlpReadUserInfo(host)
    /\ UNCHANGED <<toHost, palm, device, accepted, done, trouble, spent>>

----------------------------------------------------------------------------
(* The Palm *)

Parts(p) == IF p.cmd \in LongReplies /\ p.answer THEN 2 ELSE 1
PalmFrame(tx, p, part) == Frame("data", tx, p, part, part + 1 = Parts(p))
PalmAck(tx) == Frame("ack", tx, NoPayload, 0, TRUE)
Sending(tx, p, part) == [unacked |-> TRUE, tx |-> tx, msg |-> p, part |-> part]

Arrived == Head(host.uart)
FrameTaken == host' = [host EXCEPT !.uart = Tail(@)]

\* Nobody listens.
PalmHearsNothing ==
    /\ host.uart # <<>> /\ palm.mode = "away"
    /\ FrameTaken
    /\ UNCHANGED <<toHost, palm, device, accepted, done, trouble, spent>>

PalmTakesAck ==
    /\ host.uart # <<>> /\ palm.mode # "away" /\ Arrived.kind = "ack"
    /\ FrameTaken
    /\ LET out == palm.out
           next == out.part + 1
       IN  IF out.unacked /\ out.tx = Arrived.tx
           THEN IF next < Parts(out.msg)
                THEN /\ palm' = [palm EXCEPT !.out = Sending(out.tx, out.msg, next)]
                     /\ toHost' = Append(toHost, PalmFrame(out.tx, out.msg, next))
                ELSE palm' = [palm EXCEPT !.out = PalmSilent] /\ UNCHANGED toHost
           ELSE UNCHANGED <<palm, toHost>>
    /\ UNCHANGED <<device, accepted, done, trouble, spent>>

\* The answer to the wake opens the session; other data of before it is acknowledged only.
PalmTakesInit ==
    /\ host.uart # <<>> /\ palm.mode = "waking" /\ Arrived.kind = "data"
    /\ FrameTaken
    /\ toHost' = Append(toHost, PalmAck(Arrived.tx))
    /\ palm' = IF Arrived.msg.cmd = "CmpInit"
               THEN [palm EXCEPT !.mode = "linked", !.in = PalmDeaf, !.out = PalmSilent]
               ELSE palm
    /\ UNCHANGED <<device, accepted, done, trouble, spent>>

DataArrived == host.uart # <<>> /\ palm.mode = "linked" /\ Arrived.kind = "data"
Fits(f) == f.offset = 0 \/ (f.tx = palm.in.tx /\ f.offset = palm.in.parts)

PalmTakesFragment ==
    /\ DataArrived /\ Fits(Arrived) /\ ~Arrived.last
    /\ FrameTaken
    /\ toHost' = Append(toHost, PalmAck(Arrived.tx))
    /\ palm' = [palm EXCEPT !.in = [tx |-> Arrived.tx, parts |-> Arrived.offset + 1]]
    /\ UNCHANGED <<device, accepted, done, trouble, spent>>

PalmDropsFragment ==
    /\ DataArrived /\ ~Fits(Arrived)
    /\ FrameTaken
    /\ UNCHANGED <<toHost, palm, device, accepted, done, trouble, spent>>

Reply(cmd, err) == [cmd |-> cmd, answer |-> TRUE, err |-> err, db |-> 1,
                    needsUserInfo |-> cmd = "ReadUserInfo" /\ ~palm.named]

\* A write that names the open database by its handle.
Writable(m) == palm.open # None /\ m.db = 1
Written(m) == [cmd |-> m.cmd, image |-> m.image, item |-> m.item]
Writes == {"WriteAppBlock", "WriteSortBlock", "WriteResource", "WriteRecord"}

ErrorOf(m) ==
    CASE m.cmd = "DeleteDB" /\ ~device[m.image].present -> "notFound"
      [] m.cmd = "CreateDB" /\ device[m.image].present -> "refused"
      [] (m.cmd \in Writes \/ m.cmd = "CloseDB") /\ ~Writable(m) -> "refused"
      [] OTHER -> "ok"

\* What a request that is carried out does to the databases, and which it leaves open.
DeviceAfter(m) ==
    CASE m.cmd = "DeleteDB" -> [device EXCEPT ![m.image] = Absent]
      [] m.cmd = "CreateDB" -> [device EXCEPT ![m.image] = [Absent EXCEPT !.present = TRUE]]
      [] m.cmd \in Writes -> [device EXCEPT ![palm.open].written = Append(@, Written(m))]
      [] OTHER -> device

OpenAfter(m) ==
    CASE m.cmd = "CreateDB" -> m.image
      [] m.cmd \in {"CloseDB", "EndOfSync"} -> None
      [] OTHER -> palm.open

\* Acknowledge the last fragment and answer; the end of a sync ends the session.
Answered(m, err, open) ==
    LET p == Reply(m.cmd, err)
    IN  /\ toHost' = toHost \o <<PalmAck(Arrived.tx), PalmFrame(Arrived.tx, p, 0)>>
        /\ palm' = [palm EXCEPT !.mode = IF m.cmd = "EndOfSync" THEN "away" ELSE @,
                                !.in = PalmDeaf,
                                !.out = IF m.cmd = "EndOfSync" THEN PalmSilent
                                        ELSE Sending(Arrived.tx, p, 0),
                                !.open = open,
                                !.named = @ \/ m.cmd = "WriteUserInfo"]

PalmExecutes ==
    /\ DataArrived /\ Fits(Arrived) /\ Arrived.last
    /\ FrameTaken
    /\ LET m == Arrived.msg
       IN  IF m.answer \/ m.cmd = "CmpInit"
           THEN /\ toHost' = Append(toHost, PalmAck(Arrived.tx))
                /\ palm' = [palm EXCEPT !.in = PalmDeaf]
                /\ UNCHANGED device
           ELSE IF ErrorOf(m) = "refused" THEN Answered(m, "refused", palm.open) /\ UNCHANGED device
           ELSE Answered(m, ErrorOf(m), OpenAfter(m)) /\ device' = DeviceAfter(m)
    /\ UNCHANGED <<accepted, done, trouble, spent>>

\* The user starts a HotSync. The harness has long polled what the Palm sent before.
PalmWakes ==
    /\ palm.mode = "away" /\ toHost = <<>> /\ spent.syncs < MaxSyncs
    /\ palm' = [palm EXCEPT !.mode = "waking"]
    /\ \E tx \in WakeTxs :
           LET wake == [NoPayload EXCEPT !.cmd = "CmpWake"]
           IN  toHost' = <<PalmFrame(tx, wake, 0)>>
    /\ trouble' = {}
    /\ spent' = [spent EXCEPT !.syncs = @ + 1]
    /\ UNCHANGED <<host, device, accepted, done>>

----------------------------------------------------------------------------
(* Faults, and what the user may do in the middle *)

Fault(kind) == /\ spent.faults < MaxFaults
               /\ spent' = [spent EXCEPT !.faults = @ + 1]
               /\ trouble' = trouble \union {kind}

LineLosesToHost ==
    /\ Fault("lost") /\ toHost # <<>> /\ toHost' = Tail(toHost)
    /\ UNCHANGED <<host, palm, device, accepted, done>>

LineLosesToPalm ==
    /\ Fault("lost") /\ host.uart # <<>> /\ FrameTaken
    /\ UNCHANGED <<toHost, palm, device, accepted, done>>

\* Its acknowledgement is late or lost.
PalmRepeats ==
    /\ Fault("repeated") /\ palm.out.unacked
    /\ toHost' = Append(toHost, PalmFrame(palm.out.tx, palm.out.msg, palm.out.part))
    /\ UNCHANGED <<host, palm, device, accepted, done>>

PalmRefuses ==
    /\ Fault("refused")
    /\ DataArrived /\ Fits(Arrived) /\ Arrived.last /\ ~Arrived.msg.answer
    /\ Arrived.msg.cmd \notin {"CmpInit", "WriteUserInfo"}
    /\ FrameTaken
    /\ Answered(Arrived.msg, "refused", palm.open)
    /\ UNCHANGED <<device, accepted, done>>

PalmAsks ==
    /\ Fault("asked") /\ palm.mode = "linked" /\ ~palm.out.unacked
    /\ LET p == [NoPayload EXCEPT !.cmd = "ReadSysInfo"]
       IN  /\ toHost' = Append(toHost, PalmFrame(palm.in.tx + 1, p, 0))
           /\ palm' = [palm EXCEPT !.out = Sending(palm.in.tx + 1, p, 0)]
    /\ UNCHANGED <<host, device, accepted, done>>

\* The user cancels, or the Palm times out; it may send an abort first.
PalmGivesUp ==
    /\ Fault("brokenOff") /\ palm.mode # "away"
    /\ palm' = [PalmAway EXCEPT !.named = palm.named]
    /\ \/ toHost' = Append(toHost, Frame("abort", 0, NoPayload, 0, TRUE))
       \/ UNCHANGED toHost
    /\ UNCHANGED <<host, device, accepted, done>>

InstallPrcButton_Click ==
    /\ spent.clicks < MaxClicks
    /\ \E i \in Images : /\ host' = InstallPrcClicked(host, i)
                         /\ accepted' = Append(accepted, i)
    /\ spent' = [spent EXCEPT !.clicks = @ + 1]
    /\ UNCHANGED <<toHost, palm, device, done, trouble>>

\* Both lose what the UART held and put the Palm outside any session.
ResetButton_Click ==
    /\ Fault("forgotten")
    /\ host' = WarmReset(host)
    /\ toHost' = <<>> /\ palm' = [PalmAway EXCEPT !.named = palm.named]
    /\ accepted' = <<>> /\ done' = <<>>
    /\ UNCHANGED device

\* The state restored is one of a Palm that never synchronised.
RestoreRamState_Click ==
    /\ Fault("forgotten")
    /\ host' = [InstallsForgotten(host) EXCEPT !.uart = <<>>]
    /\ toHost' = <<>> /\ palm' = PalmAway
    /\ device' = [i \in Images |-> Absent]
    /\ accepted' = <<>> /\ done' = <<>>

----------------------------------------------------------------------------
Next ==
    \/ HostReceives \/ ServiceHotSyncHost
    \/ PalmHearsNothing \/ PalmTakesAck \/ PalmTakesInit \/ PalmTakesFragment
    \/ PalmDropsFragment \/ PalmExecutes \/ PalmWakes
    \/ LineLosesToHost \/ LineLosesToPalm \/ PalmRepeats \/ PalmRefuses \/ PalmAsks
    \/ PalmGivesUp \/ InstallPrcButton_Click \/ ResetButton_Click \/ RestoreRamState_Click

PalmReceives == \/ PalmHearsNothing \/ PalmTakesAck \/ PalmTakesInit \/ PalmTakesFragment
                \/ PalmDropsFragment \/ PalmExecutes

Spec == Init /\ [][Next]_vars

\* The harness polls the UART after every slice, and the guest reads what it is sent.
FairSpec == Spec /\ WF_vars(HostReceives) /\ WF_vars(ServiceHotSyncHost)
                 /\ WF_vars(PalmReceives)

----------------------------------------------------------------------------
(* Properties *)

\* What a complete copy of an image consists of, in the order it is written.
Block(cmd, image, size) == IF size > 0 THEN <<[cmd |-> cmd, image |-> image, item |-> 0]>>
                           ELSE <<>>
Whole(image) ==
    Block("WriteAppBlock", image, Info[image].app)
    \o Block("WriteSortBlock", image, Info[image].sort)
    \o [k \in 1 .. Len(Info[image].items) |->
           [cmd |-> WriteCommand(image), image |-> image, item |-> k]]

\* When the host reports an install complete, the Palm holds the database whole, unless an
\* answer was sent twice in this session. (HandleDlpPayload, HandleInstallResponse)
CompleteMeansWhole ==
    [][done' # done /\ done' # <<>> /\ "repeated" \notin trouble
       => device[host.pendingInstall] = [present |-> TRUE,
                                         written |-> Whole(host.pendingInstall)]]_vars

\* Whatever is lost, repeated, refused or broken off, a database on the Palm holds only parts
\* of its own image, each once and in order. (SendNextInstallItem, HandleInstallResponse)
WrittenOnceInOrder ==
    \A i \in Images :
        LET w == device[i].written
            place(part) == CHOOSE k \in 1 .. Len(Whole(i)) : Whole(i)[k] = part
        IN  /\ \A k \in 1 .. Len(w) : \E l \in 1 .. Len(Whole(i)) : Whole(i)[l] = w[k]
            /\ \A k \in 1 .. Len(w) - 1 : place(w[k]) < place(w[k + 1])

\* A fragment continues what the Palm has of that message, unless a frame was lost: the host
\* never runs ahead of the acknowledgements. (SendNextPadpFragment, HandlePalmSlpFrame)
FragmentsInStep == DataArrived /\ "lost" \notin trouble => Fits(Arrived)

\* A queued file leaves the host only by a report that it is installed: failures and broken
\* sessions keep it for the next sync. (PrepareNextPendingInstall, FailInstall)
QueueKept ==
    accepted = done \o (IF host.pendingInstall = None THEN <<>> ELSE <<host.pendingInstall>>)
                    \o host.pendingInstalls

\* A host that waits for an answer to an install request has the database it installs, and
\* never counts more items than it has. (SendNextInstallItem, HandleInstallResponse)
MidwayHasImage ==
    host.installState \in Midway =>
        /\ host.pendingInstall # None
        /\ host.installResourceIndex <= Len(Info[host.pendingInstall].items)

Sendable(image) == LET i == Info[image]
                   IN  /\ i.app < DataMax - 1 /\ i.sort < DataMax - 1
                       /\ \A k \in 1 .. Len(i.items) : i.items[k] < DataMax - 1
Clean == trouble = {}
WakeAtHost == toHost # <<>> /\ palm.mode = "waking" /\ Head(toHost).msg.cmd = "CmpWake"
AllSendable == \A k \in 1 .. Len(accepted) : Sendable(accepted[k])

\* A session that the host enters with no install midway, and that nothing disturbs, installs
\* every file queued when it began. (ServiceHotSyncHost, BeginHotSyncWork)
InstallsEverything ==
    \A n \in 1 .. MaxClicks :
        (/\ WakeAtHost /\ Clean /\ host.installState \notin Midway \union {"EndSent"}
         /\ Len(accepted) >= n /\ AllSendable)
        ~> (Len(done) >= n \/ ~Clean \/ ~AllSendable)
=============================================================================
