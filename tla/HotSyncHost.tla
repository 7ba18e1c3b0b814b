---------------------------- MODULE HotSyncHost ----------------------------
(***************************************************************************)
(* The HotSync host of the desktop harness (PalmDesktopHarness/MainForm.vb *)
(* 2478 to 3150): PADP over SLP frames, the CMP handshake, and the DLP     *)
(* requests that install the queued databases.                             *)
(*                                                                         *)
(* The host is one record. A function of the code that changes the host    *)
(* and sends frames is an operator from the host to the host it leaves     *)
(* behind; the frames it writes go to the end of host.uart, which is the   *)
(* receive queue of the emulated UART. Composing the operators composes    *)
(* the calls, so what a caller overwrites after a call is overwritten here *)
(* as well. The module HotSync puts the host on a line with a Palm.        *)
(*                                                                         *)
(* A frame with a wrong length or checksum is dropped before anything      *)
(* looks at it, so to the host it is a lost frame. Payloads are what the   *)
(* host looks at: command, error, and the few fields it decodes. Sizes     *)
(* are counted in PADP chunks. installAwaitingTxId is only ever logged.    *)
(***************************************************************************)
EXTENDS Naturals, Sequences

CONSTANTS
    Images,       \* parsed database files a user may queue
    None,         \* no database
    Info,         \* what each holds: sizes of the two blocks and of the items
    ResourceDbs,  \* those whose items are resources
    TxMax,        \* the transaction number after which counting starts again (0xFE)
    DataMax       \* the longest block or item that a DLP argument may describe (0xFFFF)

ASSUME ImagesAssumption ==
    /\ None \notin Images
    /\ Info \in [Images -> [app : Nat, sort : Nat, items : Seq(Nat)]]
    /\ ResourceDbs \subseteq Images
ASSUME LimitsAssumption == TxMax \in Nat /\ TxMax >= 2 /\ DataMax \in Nat /\ DataMax >= 3

InstallStates == {"Idle", "DeleteSent", "CreateSent", "AppBlockSent", "SortBlockSent",
                  "WritingResource", "CloseSent", "EndSent", "Done", "Failed"}
\* An install is under way and the host waits for the answer to its last request.
Midway == {"DeleteSent", "CreateSent", "AppBlockSent", "SortBlockSent", "WritingResource",
           "CloseSent"}

Commands == {"CmpWake", "CmpInit", "ReadUserInfo", "WriteUserInfo", "ReadSysInfo", "DeleteDB",
             "CreateDB", "WriteAppBlock", "WriteSortBlock", "WriteResource", "WriteRecord",
             "CloseDB", "EndOfSync", "none"}
Errors == {"ok", "notFound", "refused"}

----------------------------------------------------------------------------
(* Messages and frames *)

\* A message of the host: a request, or with answer TRUE its answer to a request of the Palm.
Message(cmd, image, item, db, size, answer) ==
    [cmd |-> cmd, image |-> image, item |-> item, db |-> db, size |-> size, answer |-> answer]
Messages == [cmd : Commands, image : Images \union {None}, item : Nat, db : Nat, size : Nat,
             answer : BOOLEAN]
NoMessage == Message("none", None, 0, 0, 1, FALSE)

\* A message of the Palm.
Payloads == [cmd : Commands, answer : BOOLEAN, err : Errors, needsUserInfo : BOOLEAN, db : Nat]
NoPayload == [cmd |-> "none", answer |-> FALSE, err |-> "ok", needsUserInfo |-> FALSE, db |-> 0]

Kinds == {"data", "ack", "abort"}
Frame(kind, tx, msg, offset, last) ==
    [kind |-> kind, tx |-> tx, msg |-> msg, offset |-> offset, last |-> last]
FramesOf(M) == [kind : Kinds, tx : Nat, msg : M, offset : Nat, last : BOOLEAN]

\* Fragments a message of so many chunks of data takes.
Chunks(size) == IF size = 0 THEN 1 ELSE size

----------------------------------------------------------------------------
(* The host *)

NotSending == [active |-> FALSE, tx |-> 0, msg |-> NoMessage, offset |-> 0]
NotReceiving == [active |-> FALSE, tx |-> 0, msg |-> NoPayload, parts |-> 0]

Hosts == [cmpHandshakeStarted : BOOLEAN, cmpInitTxId : Nat, hostPadpTxId : Nat,
          dlpReadUserInfoQueued : BOOLEAN, dlpReadUserInfoSent : BOOLEAN,
          dlpWriteUserInfoSent : BOOLEAN,
          pendingInstalls : Seq(Images), pendingInstall : Images \union {None},
          installState : InstallStates, installDbId : Nat, installResourceIndex : Nat,
          installAppBlockDone : BOOLEAN, installSortBlockDone : BOOLEAN,
          pendingPadp : [active : BOOLEAN, tx : Nat, msg : Messages, offset : Nat],
          rxPadp : [active : BOOLEAN, tx : Nat, msg : Payloads, parts : Nat],
          uart : Seq(FramesOf(Messages))]

HostAtStart ==
    [cmpHandshakeStarted |-> FALSE, cmpInitTxId |-> 0, hostPadpTxId |-> 1,
     dlpReadUserInfoQueued |-> FALSE, dlpReadUserInfoSent |-> FALSE,
     dlpWriteUserInfoSent |-> FALSE,
     pendingInstalls |-> <<>>, pendingInstall |-> None, installState |-> "Idle",
     installDbId |-> 0, installResourceIndex |-> 0,
     installAppBlockDone |-> FALSE, installSortBlockDone |-> FALSE,
     pendingPadp |-> NotSending, rxPadp |-> NotReceiving, uart |-> <<>>]

NextPadpTxId(tx) == IF tx >= TxMax THEN 1 ELSE tx + 1

FailInstall(h) == [h EXCEPT !.installState = "Failed", !.installAppBlockDone = FALSE,
                            !.installSortBlockDone = FALSE]

----------------------------------------------------------------------------
(* PADP: sending *)

\* The last fragment ends the send: its acknowledgement is not waited for.
SendNextPadpFragment(h) ==
    LET p == h.pendingPadp
        last == p.offset + 1 >= Chunks(p.msg.size)
    IN  IF ~p.active THEN h
        ELSE [h EXCEPT !.uart = Append(@, Frame("data", p.tx, p.msg, p.offset, last)),
                       !.pendingPadp = IF last THEN NotSending
                                       ELSE [p EXCEPT !.offset = @ + 1]]

SendPadpData(h, tx, msg) ==
    IF h.pendingPadp.active \/ msg.size >= DataMax - 1
    THEN FailInstall(h)
    ELSE SendNextPadpFragment(
             [h EXCEPT !.pendingPadp = [active |-> TRUE, tx |-> tx, msg |-> msg, offset |-> 0]])

SendPadpAck(h, tx) == [h EXCEPT !.uart = Append(@, Frame("ack", tx, NoMessage, 0, TRUE))]

\* The answer to a wake. It is written at once, whatever is being sent.
SendCmpInit(h, requestTx) ==
    LET tx == IF requestTx >= TxMax THEN 2 ELSE requestTx + 2
        init == Message("CmpInit", None, 0, 0, 1, FALSE)
    IN  [h EXCEPT !.cmpInitTxId = tx, !.hostPadpTxId = NextPadpTxId(tx),
                  !.uart = Append(@, Frame("data", tx, init, 0, TRUE))]

----------------------------------------------------------------------------
(* DLP requests *)

\* SendPadpData with the host's own transaction number, which then moves on.
SendOwn(h, msg) ==
    LET sent == SendPadpData(h, h.hostPadpTxId, msg)
    IN  [sent EXCEPT !.hostPadpTxId = NextPadpTxId(@)]

SendDlpReadUserInfo(h) ==
    SendOwn([h EXCEPT !.dlpReadUserInfoQueued = FALSE, !.dlpReadUserInfoSent = TRUE],
            Message("ReadUserInfo", None, 0, 0, 1, FALSE))

SendDlpWriteUserInfo(h) ==
    SendOwn([h EXCEPT !.dlpWriteUserInfoSent = TRUE],
            Message("WriteUserInfo", None, 0, 0, 1, FALSE))

\* A request with an argument: data of DataMax chunks leaves no room for the argument's head.
SendDlpRequestWithArg(h, cmd, item, size) ==
    IF size >= DataMax THEN FailInstall(h)
    ELSE SendOwn(h, Message(cmd, h.pendingInstall, item, h.installDbId, size, FALSE))

\* The callers set the state after the request, whether or not it was sent.
SendDlpDeleteDb(h) ==
    [SendDlpRequestWithArg(h, "DeleteDB", 0, 1) EXCEPT !.installState = "DeleteSent"]
SendDlpCreateDb(h) ==
    [SendDlpRequestWithArg(h, "CreateDB", 0, 1) EXCEPT !.installState = "CreateSent"]
SendDlpCloseDb(h) ==
    [SendDlpRequestWithArg(h, "CloseDB", 0, 1) EXCEPT !.installState = "CloseSent"]
SendDlpEndOfSync(h) ==
    [SendDlpRequestWithArg(h, "EndOfSync", 0, 1) EXCEPT !.installState = "EndSent"]

SendDlpWriteBlock(h, cmd, size) ==
    IF size > DataMax THEN FailInstall(h) ELSE SendDlpRequestWithArg(h, cmd, 0, size)

WriteCommand(image) == IF image \in ResourceDbs THEN "WriteResource" ELSE "WriteRecord"

\* SendNextResource and SendNextRecord: here a failure of their own is not overwritten.
SendNextItem(h) ==
    LET item == h.installResourceIndex + 1
        size == Info[h.pendingInstall].items[item]
    IN  IF size > DataMax THEN FailInstall(h)
        ELSE [SendDlpRequestWithArg(h, WriteCommand(h.pendingInstall), item, size)
                  EXCEPT !.installState = "WritingResource"]

\* Mutant: the block that was written is not remembered.
AppBlockDueAgain(h) == h.installResourceIndex = 0 /\ Info[h.pendingInstall].app > 0
\* Mutant: the last item is taken for the end.
ItemDueShort(h) == h.installResourceIndex + 1 < Len(Info[h.pendingInstall].items)
AppBlockDue(h) == /\ h.installResourceIndex = 0 /\ ~h.installAppBlockDone
                  /\ Info[h.pendingInstall].app > 0
SortBlockDue(h) == /\ h.installResourceIndex = 0 /\ ~h.installSortBlockDone
                   /\ Info[h.pendingInstall].sort > 0
ItemDue(h) == h.installResourceIndex < Len(Info[h.pendingInstall].items)

SendNextInstallItem(h) ==
    IF AppBlockDue(h)
    THEN [SendDlpWriteBlock(h, "WriteAppBlock", Info[h.pendingInstall].app)
              EXCEPT !.installState = "AppBlockSent"]
    ELSE IF SortBlockDue(h)
    THEN [SendDlpWriteBlock(h, "WriteSortBlock", Info[h.pendingInstall].sort)
              EXCEPT !.installState = "SortBlockSent"]
    ELSE IF ItemDue(h) THEN SendNextItem(h) ELSE SendDlpCloseDb(h)

----------------------------------------------------------------------------
(* The install sequence *)

\* Mutant: an install that is still pending gives way to the next.
PrepareNextInstallOver(h) ==
    IF h.pendingInstalls = <<>> THEN h
    ELSE [h EXCEPT !.pendingInstall = Head(h.pendingInstalls), !.pendingInstalls = Tail(@),
                   !.installResourceIndex = 0]

PrepareNextPendingInstall(h) ==
    IF h.pendingInstall # None \/ h.pendingInstalls = <<>> THEN h
    ELSE [h EXCEPT !.pendingInstall = Head(h.pendingInstalls),
                   !.pendingInstalls = Tail(@), !.installDbId = 0,
                   !.installResourceIndex = 0, !.installAppBlockDone = FALSE,
                   !.installSortBlockDone = FALSE]

\* Delete what is to be replaced, or end the sync if nothing is queued.
StartInstall(h) == IF h.pendingInstall = None THEN SendDlpEndOfSync(h) ELSE SendDlpDeleteDb(h)

BeginHotSyncWork(h) ==
    IF h.installState # "Idle" THEN h ELSE StartInstall(PrepareNextPendingInstall(h))

InstallExpectedResponseCommand(h) ==
    CASE h.installState = "DeleteSent" -> "DeleteDB"
      [] h.installState = "CreateSent" -> "CreateDB"
      [] h.installState = "AppBlockSent" -> "WriteAppBlock"
      [] h.installState = "SortBlockSent" -> "WriteSortBlock"
      [] h.installState = "WritingResource" -> WriteCommand(h.pendingInstall)
      [] h.installState = "CloseSent" -> "CloseDB"
      [] h.installState = "EndSent" -> "EndOfSync"
      [] OTHER -> "none"

\* The answer the current state waits for, without an error.
Advance(h, p) ==
    CASE h.installState = "DeleteSent" -> SendDlpCreateDb(h)
      [] h.installState = "CreateSent" ->
             SendNextInstallItem([h EXCEPT !.installDbId = p.db, !.installResourceIndex = 0])
      [] h.installState = "AppBlockSent" ->
             SendNextInstallItem([h EXCEPT !.installAppBlockDone = TRUE])
      [] h.installState = "SortBlockSent" ->
             SendNextInstallItem([h EXCEPT !.installSortBlockDone = TRUE])
      [] h.installState = "WritingResource" ->
             SendNextInstallItem([h EXCEPT !.installResourceIndex = @ + 1])
      [] h.installState = "CloseSent" ->
             StartInstall(PrepareNextPendingInstall(
                 [h EXCEPT !.pendingInstall = None, !.installState = "Idle"]))
      [] h.installState = "EndSent" -> [h EXCEPT !.installState = "Done"]

HandleInstallResponse(h, p) ==
    IF h.installState \notin Midway \union {"EndSent"} THEN h
    ELSE IF p.err = "ok" \/ (p.err = "notFound" /\ h.installState = "DeleteSent")
    THEN Advance(h, p) ELSE FailInstall(h)

\* A request of the Palm is answered; an answer is accepted by its command alone.
HandleDlpPayload(h, tx, p) ==
    IF ~p.answer THEN SendPadpData(h, tx, Message(p.cmd, None, 0, 0, 1, TRUE))
    ELSE IF p.cmd = InstallExpectedResponseCommand(h) THEN HandleInstallResponse(h, p)
    ELSE IF p.err # "ok" THEN h
    ELSE IF p.cmd = "WriteUserInfo" \/ (p.cmd = "ReadUserInfo" /\ ~p.needsUserInfo)
    THEN BeginHotSyncWork(h)
    ELSE IF p.cmd = "ReadUserInfo" /\ ~h.dlpWriteUserInfoSent THEN SendDlpWriteUserInfo(h)
    ELSE h

----------------------------------------------------------------------------
(* PADP: receiving *)

\* A fragment that does not continue what was received throws all of it away.
HandlePadpDataFragment(h, f) ==
    LET r == h.rxPadp
        fits == f.offset = 0 \/ (r.active /\ f.tx = r.tx /\ f.offset = r.parts)
        msg == IF f.offset = 0 THEN f.msg ELSE r.msg
        got == [active |-> TRUE, tx |-> f.tx, msg |-> msg, parts |-> f.offset + 1]
    IN  IF fits /\ ~f.last THEN [h EXCEPT !.rxPadp = got]
        ELSE LET reset == [h EXCEPT !.rxPadp = NotReceiving]
             IN  IF fits THEN HandleDlpPayload(reset, f.tx, msg) ELSE reset

\* Mutant: a session that failed stays failed.
WokenFailed(h) ==
    [h EXCEPT !.cmpHandshakeStarted = TRUE, !.dlpReadUserInfoSent = FALSE,
              !.dlpReadUserInfoQueued = FALSE, !.dlpWriteUserInfoSent = FALSE,
              !.pendingPadp = NotSending, !.rxPadp = NotReceiving,
              !.installState = IF @ = "Done" THEN "Idle" ELSE @]

\* Mutant: what was being sent in the session before goes on.
WokenSending(h) ==
    [h EXCEPT !.cmpHandshakeStarted = TRUE, !.dlpReadUserInfoSent = FALSE,
              !.dlpReadUserInfoQueued = FALSE, !.dlpWriteUserInfoSent = FALSE,
              !.installState = IF @ \in {"Done", "Failed"} THEN "Idle" ELSE @,
              !.installDbId = 0, !.installResourceIndex = 0,
              !.installAppBlockDone = FALSE, !.installSortBlockDone = FALSE,
              !.rxPadp = NotReceiving]

\* A wake begins a session anew, but an install that is midway stays so.
Woken(h) ==
    [h EXCEPT !.cmpHandshakeStarted = TRUE, !.dlpReadUserInfoSent = FALSE,
              !.dlpReadUserInfoQueued = FALSE, !.dlpWriteUserInfoSent = FALSE,
              !.pendingPadp = NotSending,
              !.installState = IF @ \in {"Done", "Failed"} THEN "Idle" ELSE @,
              !.installDbId = 0, !.installResourceIndex = 0,
              !.installAppBlockDone = FALSE, !.installSortBlockDone = FALSE,
              !.rxPadp = NotReceiving]

\* An acknowledgement asks for the next fragment, or answers the handshake.
HandleAck(h, tx) ==
    IF h.pendingPadp.active /\ tx = h.pendingPadp.tx THEN SendNextPadpFragment(h)
    ELSE IF h.cmpHandshakeStarted /\ tx = h.cmpInitTxId /\ ~h.dlpReadUserInfoSent
    THEN [h EXCEPT !.dlpReadUserInfoQueued = TRUE]
    ELSE h

HandlePalmSlpFrame(h, f) ==
    CASE f.kind = "abort" -> [h EXCEPT !.pendingPadp = NotSending, !.rxPadp = NotReceiving]
      [] f.kind = "ack" -> HandleAck(h, f.tx)
      [] f.kind = "data" ->
             LET acked == SendPadpAck(h, f.tx)
             IN  IF f.msg.cmd = "CmpWake" THEN SendCmpInit(Woken(acked), f.tx)
                 ELSE HandlePadpDataFragment(acked, f)

\* The delay of 150 ms after the handshake has passed.
ReadUserInfoDue(h) == h.dlpReadUserInfoQueued /\ ~h.dlpReadUserInfoSent

----------------------------------------------------------------------------
(* The user *)

\* A file is queued; an install that is over makes room for it.
InstallPrcClicked(h, image) ==
    LET queued == [h EXCEPT !.pendingInstalls = Append(@, image),
                            !.installState = IF @ \in {"Done", "Failed"} THEN "Idle" ELSE @]
    IN  IF queued.installState = "Idle" THEN PrepareNextPendingInstall(queued) ELSE queued

\* Restoring a RAM state forgets the installs and nothing else of the session.
InstallsForgotten(h) ==
    [h EXCEPT !.pendingInstall = None, !.pendingInstalls = <<>>, !.installState = "Idle",
              !.installAppBlockDone = FALSE, !.installSortBlockDone = FALSE]

\* A warm reset forgets what was being sent and received as well.
WarmReset(h) == [InstallsForgotten(h) EXCEPT !.pendingPadp = NotSending,
                                             !.rxPadp = NotReceiving, !.uart = <<>>]
=============================================================================
