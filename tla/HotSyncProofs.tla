---------------------------- MODULE HotSyncProofs ----------------------------
(***************************************************************************)
(* Proofs about HotSync. The invariant IInv says that what the user queued *)
(* is what the host has reported as installed followed by what still waits *)
(* in it, and that a host midway in an install has a database and a place  *)
(* in it. Lemmas follow the host's record through the calls of the code:   *)
(* sending keeps the install as it is (Sends), a received message keeps    *)
(* the queue (Stays) or takes off its installed head (Installs).           *)
(*                                                                         *)
(* FragmentsOK, in the second part, says that what the host has sent and   *)
(* has still to send continues what the Palm has heard.                    *)
(*                                                                         *)
(* InOrderOK, in the third part, says which requests and answers may be on *)
(* the line together: what the Palm has still to write comes behind what   *)
(* its open database holds, in the order of the image, and no answer that  *)
(* is still to come takes the host back to a part it has sent. Lemmas      *)
(* follow both queues of frames through every step of the host, of the     *)
(* Palm and of the line.                                                   *)
(***************************************************************************)
EXTENDS HotSync, SequenceTheorems, TLAPS

\* The install queue and the place in it are as they were.
SameWork(h, g) == /\ g.pendingInstall = h.pendingInstall
                  /\ g.pendingInstalls = h.pendingInstalls
                  /\ g.installResourceIndex = h.installResourceIndex

\* What sending a message may do to the host besides.
Sends(h, g) == g \in Hosts /\ SameWork(h, g) /\ g.installState \in {h.installState, "Failed"}

\* A message built from typed fields is a message.
LEMMA MessageType ==
    ASSUME NEW cmd \in Commands, NEW image \in Images \union {None}, NEW item \in Nat,
           NEW db \in Nat, NEW size \in Nat, NEW answer \in BOOLEAN
    PROVE  Message(cmd, image, item, db, size, answer) \in Messages
  BY DEF Message, Messages

\* A frame around a payload of M is a frame of M.
LEMMA FrameType ==
    ASSUME NEW M, NEW kind \in Kinds, NEW tx \in Nat, NEW msg \in M, NEW offset \in Nat,
           NEW last \in BOOLEAN
    PROVE  Frame(kind, tx, msg, offset, last) \in FramesOf(M)
  BY DEF Frame, FramesOf

Pending == [active : BOOLEAN, tx : Nat, msg : Messages, offset : Nat]

\* The empty message of an acknowledgement is a message.
LEMMA NoMessageType == NoMessage \in Messages
  BY MessageType DEF NoMessage, Commands

\* A host that sends nothing has a typed, inactive send.
LEMMA NotSendingType == NotSending \in Pending
  BY NoMessageType DEF NotSending, Pending

\* Sending a fragment writes one frame and moves the send on, or ends it.
LEMMA FragmentSent ==
    ASSUME NEW h \in Hosts
    PROVE  /\ SendNextPadpFragment(h) \in Hosts
           /\ SameWork(h, SendNextPadpFragment(h))
           /\ SendNextPadpFragment(h).installState = h.installState
<1>1. CASE ~h.pendingPadp.active
  BY <1>1 DEF SendNextPadpFragment, SameWork
<1>2. CASE h.pendingPadp.active
  <2> DEFINE send == h.pendingPadp
             end == send.offset + 1 >= Chunks(send.msg.size)
             f == Frame("data", send.tx, send.msg, send.offset, end)
             q == IF end THEN NotSending ELSE [send EXCEPT !.offset = @ + 1]
  <2>0. send \in Pending
    BY DEF Hosts, Pending
  <2>1. f \in FramesOf(Messages)
    <3>1. end \in BOOLEAN
      BY DEF end
    <3> HIDE DEF end
    <3> QED BY <2>0, <3>1, FrameType DEF Pending, Kinds
  <2>2. q \in Pending
    <3>1. CASE end
      BY <3>1, NotSendingType
    <3>2. CASE ~end
      BY <3>2, <2>0 DEF Pending
    <3> QED BY <3>1, <3>2
  <2>3. SendNextPadpFragment(h) = [h EXCEPT !.uart = Append(@, f), !.pendingPadp = q]
    <3>1. SendNextPadpFragment(h)
              = IF ~h.pendingPadp.active THEN h
                ELSE [h EXCEPT !.uart = Append(@, f), !.pendingPadp = q]
      BY DEF SendNextPadpFragment
    <3> HIDE DEF f, q, send
    <3> QED BY <3>1, <1>2
  <2>4. Append(h.uart, f) \in Seq(FramesOf(Messages))
    BY <2>1 DEF Hosts
  <2> HIDE DEF f, q
  <2> QED BY <2>2, <2>3, <2>4 DEF Hosts, SameWork, Pending
<1> QED BY <1>1, <1>2

\* A failure leaves the database and the queue where they are.
LEMMA FailureSent ==
    ASSUME NEW h \in Hosts
    PROVE  Sends(h, FailInstall(h)) /\ FailInstall(h).installState = "Failed"
  BY DEF FailInstall, Sends, SameWork, Hosts, InstallStates

\* SendPadpData sends, or fails the install when a send is active.
LEMMA DataSent ==
    ASSUME NEW h \in Hosts, NEW tx \in Nat, NEW msg \in Messages
    PROVE  Sends(h, SendPadpData(h, tx, msg))
<1> DEFINE g == [h EXCEPT !.pendingPadp =
                     [active |-> TRUE, tx |-> tx, msg |-> msg, offset |-> 0]]
<1>1. g \in Hosts /\ SameWork(h, g) /\ g.installState = h.installState
  BY DEF Hosts, SameWork
<1>2. SendPadpData(h, tx, msg) \in {FailInstall(h), SendNextPadpFragment(g)}
  BY DEF SendPadpData
<1> HIDE DEF g
<1> QED BY <1>1, <1>2, FailureSent, FragmentSent DEF Sends, SameWork

\* Transaction numbers stay numbers.
LEMMA NextTxType ==
    ASSUME NEW tx \in Nat
    PROVE  NextPadpTxId(tx) \in Nat
  BY DEF NextPadpTxId

\* A message under the host's own number sends, and takes the next number.
LEMMA OwnSent ==
    ASSUME NEW h \in Hosts, NEW msg \in Messages
    PROVE  Sends(h, SendOwn(h, msg))
<1> DEFINE sent == SendPadpData(h, h.hostPadpTxId, msg)
<1>1. h.hostPadpTxId \in Nat
  BY DEF Hosts
<1>2. Sends(h, sent)
  BY <1>1, DataSent
<1>3. SendOwn(h, msg) = [sent EXCEPT !.hostPadpTxId = NextPadpTxId(@)]
  BY DEF SendOwn
<1> HIDE DEF sent
<1>4. NextPadpTxId(sent.hostPadpTxId) \in Nat
  BY <1>2, NextTxType DEF Sends, Hosts
<1> QED BY <1>2, <1>3, <1>4 DEF Sends, SameWork, Hosts

\* An acknowledgement changes nothing but the queue to the Palm.
LEMMA AckSent ==
    ASSUME NEW h \in Hosts, NEW tx \in Nat
    PROVE  /\ SendPadpAck(h, tx) \in Hosts /\ SameWork(h, SendPadpAck(h, tx))
           /\ SendPadpAck(h, tx).installState = h.installState
<1> DEFINE f == Frame("ack", tx, NoMessage, 0, TRUE)
<1>1. f \in FramesOf(Messages)
  BY NoMessageType, FrameType DEF Kinds
<1>2. SendPadpAck(h, tx) = [h EXCEPT !.uart = Append(@, f)]
  BY DEF SendPadpAck
<1> HIDE DEF f
<1>3. Append(h.uart, f) \in Seq(FramesOf(Messages))
  BY <1>1 DEF Hosts
<1> QED BY <1>2, <1>3 DEF Hosts, SameWork

\* The answer to a wake changes the numbers and the queue to the Palm only.
LEMMA InitSent ==
    ASSUME NEW h \in Hosts, NEW requestTx \in Nat
    PROVE  /\ SendCmpInit(h, requestTx) \in Hosts /\ SameWork(h, SendCmpInit(h, requestTx))
           /\ SendCmpInit(h, requestTx).installState = h.installState
<1> DEFINE t == IF requestTx >= TxMax THEN 2 ELSE requestTx + 2
           f == Frame("data", t, Message("CmpInit", None, 0, 0, 1, FALSE), 0, TRUE)
<1>1. t \in Nat
  BY LimitsAssumption
<1>2. NextPadpTxId(t) \in Nat
  BY <1>1, NextTxType
<1>3. Message("CmpInit", None, 0, 0, 1, FALSE) \in Messages
  BY MessageType DEF Commands
<1>4. f \in FramesOf(Messages)
  BY <1>1, <1>3, FrameType DEF Kinds
<1>5. SendCmpInit(h, requestTx) =
          [h EXCEPT !.cmpInitTxId = t, !.hostPadpTxId = NextPadpTxId(t), !.uart = Append(@, f)]
  BY DEF SendCmpInit
<1> HIDE DEF f, t
<1>6. Append(h.uart, f) \in Seq(FramesOf(Messages))
  BY <1>4 DEF Hosts
<1> QED BY <1>1, <1>2, <1>5, <1>6 DEF Hosts, SameWork

----------------------------------------------------------------------------
(* DLP requests *)

\* Asking for the user information leaves the install alone.
LEMMA ReadUserInfoSent ==
    ASSUME NEW h \in Hosts
    PROVE  Sends(h, SendDlpReadUserInfo(h))
<1> DEFINE g == [h EXCEPT !.dlpReadUserInfoQueued = FALSE, !.dlpReadUserInfoSent = TRUE]
           msg == Message("ReadUserInfo", None, 0, 0, 1, FALSE)
<1>1. g \in Hosts /\ SameWork(h, g) /\ g.installState = h.installState
  BY DEF Hosts, SameWork
<1>2. msg \in Messages
  BY MessageType DEF Commands
<1>3. SendDlpReadUserInfo(h) = SendOwn(g, msg)
  BY DEF SendDlpReadUserInfo
<1> HIDE DEF g, msg
<1> QED BY <1>1, <1>2, <1>3, OwnSent DEF Sends, SameWork

\* Naming the Palm leaves the install alone.
LEMMA WriteUserInfoSent ==
    ASSUME NEW h \in Hosts
    PROVE  Sends(h, SendDlpWriteUserInfo(h))
<1> DEFINE g == [h EXCEPT !.dlpWriteUserInfoSent = TRUE]
           msg == Message("WriteUserInfo", None, 0, 0, 1, FALSE)
<1>1. g \in Hosts /\ SameWork(h, g) /\ g.installState = h.installState
  BY DEF Hosts, SameWork
<1>2. msg \in Messages
  BY MessageType DEF Commands
<1>3. SendDlpWriteUserInfo(h) = SendOwn(g, msg)
  BY DEF SendDlpWriteUserInfo
<1> HIDE DEF g, msg
<1> QED BY <1>1, <1>2, <1>3, OwnSent DEF Sends, SameWork

\* A request with an argument is sent, or fails the install.
LEMMA RequestSent ==
    ASSUME NEW h \in Hosts, NEW cmd \in Commands, NEW item \in Nat, NEW size \in Nat
    PROVE  Sends(h, SendDlpRequestWithArg(h, cmd, item, size))
<1> DEFINE msg == Message(cmd, h.pendingInstall, item, h.installDbId, size, FALSE)
<1>1. msg \in Messages
  BY MessageType DEF Hosts
<1>2. SendDlpRequestWithArg(h, cmd, item, size) \in {FailInstall(h), SendOwn(h, msg)}
  BY DEF SendDlpRequestWithArg
<1> HIDE DEF msg
<1> QED BY <1>1, <1>2, FailureSent, OwnSent

\* A caller that sets the state after the request.
LEMMA StateSet ==
    ASSUME NEW h \in Hosts, NEW g, Sends(h, g), NEW state \in InstallStates,
           NEW k, k = [g EXCEPT !.installState = state]
    PROVE  k \in Hosts /\ SameWork(h, k) /\ k.installState = state
  BY DEF Sends, SameWork, Hosts

\* After SendDlpDeleteDb the host waits for the answer to DeleteDB.
LEMMA DeleteSent ==
    ASSUME NEW h \in Hosts
    PROVE  /\ SendDlpDeleteDb(h) \in Hosts /\ SameWork(h, SendDlpDeleteDb(h))
           /\ SendDlpDeleteDb(h).installState = "DeleteSent"
<1> DEFINE sent == SendDlpRequestWithArg(h, "DeleteDB", 0, 1)
<1>1. Sends(h, sent)
  BY RequestSent DEF Commands
<1>2. SendDlpDeleteDb(h) = [sent EXCEPT !.installState = "DeleteSent"]
  BY DEF SendDlpDeleteDb
<1> HIDE DEF sent
<1> QED BY <1>1, <1>2, StateSet DEF InstallStates

\* After SendDlpCreateDb the host waits for the answer to CreateDB.
LEMMA CreateSent ==
    ASSUME NEW h \in Hosts
    PROVE  /\ SendDlpCreateDb(h) \in Hosts /\ SameWork(h, SendDlpCreateDb(h))
           /\ SendDlpCreateDb(h).installState = "CreateSent"
<1> DEFINE sent == SendDlpRequestWithArg(h, "CreateDB", 0, 1)
<1>1. Sends(h, sent)
  BY RequestSent DEF Commands
<1>2. SendDlpCreateDb(h) = [sent EXCEPT !.installState = "CreateSent"]
  BY DEF SendDlpCreateDb
<1> HIDE DEF sent
<1> QED BY <1>1, <1>2, StateSet DEF InstallStates

\* After SendDlpCloseDb the host waits for the answer to CloseDB.
LEMMA CloseSent ==
    ASSUME NEW h \in Hosts
    PROVE  /\ SendDlpCloseDb(h) \in Hosts /\ SameWork(h, SendDlpCloseDb(h))
           /\ SendDlpCloseDb(h).installState = "CloseSent"
<1> DEFINE sent == SendDlpRequestWithArg(h, "CloseDB", 0, 1)
<1>1. Sends(h, sent)
  BY RequestSent DEF Commands
<1>2. SendDlpCloseDb(h) = [sent EXCEPT !.installState = "CloseSent"]
  BY DEF SendDlpCloseDb
<1> HIDE DEF sent
<1> QED BY <1>1, <1>2, StateSet DEF InstallStates

\* After SendDlpEndOfSync the host waits for the end of the sync.
LEMMA EndSent ==
    ASSUME NEW h \in Hosts
    PROVE  /\ SendDlpEndOfSync(h) \in Hosts /\ SameWork(h, SendDlpEndOfSync(h))
           /\ SendDlpEndOfSync(h).installState = "EndSent"
<1> DEFINE sent == SendDlpRequestWithArg(h, "EndOfSync", 0, 1)
<1>1. Sends(h, sent)
  BY RequestSent DEF Commands
<1>2. SendDlpEndOfSync(h) = [sent EXCEPT !.installState = "EndSent"]
  BY DEF SendDlpEndOfSync
<1> HIDE DEF sent
<1> QED BY <1>1, <1>2, StateSet DEF InstallStates

\* A block is sent as a request, or fails the install when it is too long.
LEMMA BlockSent ==
    ASSUME NEW h \in Hosts, NEW cmd \in Commands, NEW size \in Nat
    PROVE  Sends(h, SendDlpWriteBlock(h, cmd, size))
<1>1. SendDlpWriteBlock(h, cmd, size)
          \in {FailInstall(h), SendDlpRequestWithArg(h, cmd, 0, size)}
  BY DEF SendDlpWriteBlock
<1> QED BY <1>1, FailureSent, RequestSent

\* What an image holds.
LEMMA InfoType ==
    ASSUME NEW image \in Images
    PROVE  /\ Info[image].app \in Nat /\ Info[image].sort \in Nat
           /\ Info[image].items \in Seq(Nat)
           /\ Len(Info[image].items) \in Nat
           /\ \A k \in 1 .. Len(Info[image].items) : Info[image].items[k] \in Nat
<1>1. Info[image] \in [app : Nat, sort : Nat, items : Seq(Nat)]
  BY ImagesAssumption
<1>2. Info[image].items \in Seq(Nat)
  BY <1>1
<1>3. /\ Len(Info[image].items) \in Nat
      /\ \A k \in 1 .. Len(Info[image].items) : Info[image].items[k] \in Nat
  BY <1>2
<1> QED BY <1>1, <1>2, <1>3

\* An item that is due is there to be sent; the place moves only on its answer.
LEMMA ItemSent ==
    ASSUME NEW h \in Hosts, h.pendingInstall \in Images, ItemDue(h)
    PROVE  /\ SendNextItem(h) \in Hosts /\ SameWork(h, SendNextItem(h))
           /\ SendNextItem(h).installState \in {"WritingResource", "Failed"}
<1> DEFINE item == h.installResourceIndex + 1
           size == Info[h.pendingInstall].items[item]
           sent == SendDlpRequestWithArg(h, WriteCommand(h.pendingInstall), item, size)
<1>1. item \in Nat
  BY DEF Hosts
<1>2. item \in 1 .. Len(Info[h.pendingInstall].items)
  BY InfoType DEF Hosts, ItemDue
<1>3. size \in Nat
  BY <1>2, InfoType
<1>4. WriteCommand(h.pendingInstall) \in Commands
  BY DEF WriteCommand, Commands
<1>5. SendNextItem(h)
          \in {FailInstall(h), [sent EXCEPT !.installState = "WritingResource"]}
  BY DEF SendNextItem
<1> HIDE DEF item, size
<1>6. Sends(h, sent)
  BY <1>1, <1>3, <1>4, RequestSent
<1> HIDE DEF sent
<1>7. CASE SendNextItem(h) = [sent EXCEPT !.installState = "WritingResource"]
  BY <1>6, <1>7, StateSet DEF InstallStates
<1>8. CASE SendNextItem(h) = FailInstall(h)
  BY <1>8, FailureSent DEF Sends
<1> QED BY <1>5, <1>7, <1>8

\* The next request of an install: it never ends the install or the sync.
LEMMA NextItemSent ==
    ASSUME NEW h \in Hosts, h.pendingInstall \in Images
    PROVE  LET g == SendNextInstallItem(h)
           IN  /\ g \in Hosts /\ SameWork(h, g)
               /\ g.installState \in {"AppBlockSent", "SortBlockSent", "WritingResource",
                                      "CloseSent", "Failed"}
               /\ g.installState = "WritingResource" => ItemDue(h)
<1>1. CASE AppBlockDue(h)
  <2> DEFINE sent == SendDlpWriteBlock(h, "WriteAppBlock", Info[h.pendingInstall].app)
  <2>1. Sends(h, sent)
    BY BlockSent, InfoType DEF Commands
  <2>2. SendNextInstallItem(h) = [sent EXCEPT !.installState = "AppBlockSent"]
    BY <1>1 DEF SendNextInstallItem
  <2> HIDE DEF sent
  <2> QED BY <2>1, <2>2, StateSet DEF InstallStates
<1>2. CASE ~AppBlockDue(h) /\ SortBlockDue(h)
  <2> DEFINE sent == SendDlpWriteBlock(h, "WriteSortBlock", Info[h.pendingInstall].sort)
  <2>1. Sends(h, sent)
    BY BlockSent, InfoType DEF Commands
  <2>2. SendNextInstallItem(h) = [sent EXCEPT !.installState = "SortBlockSent"]
    BY <1>2 DEF SendNextInstallItem
  <2> HIDE DEF sent
  <2> QED BY <2>1, <2>2, StateSet DEF InstallStates
<1>3. CASE ~AppBlockDue(h) /\ ~SortBlockDue(h) /\ ItemDue(h)
  BY <1>3, ItemSent DEF SendNextInstallItem
<1>4. CASE ~AppBlockDue(h) /\ ~SortBlockDue(h) /\ ~ItemDue(h)
  BY <1>4, CloseSent DEF SendNextInstallItem
<1> QED BY <1>1, <1>2, <1>3, <1>4

----------------------------------------------------------------------------
(* The install queue *)

\* The files not yet reported as installed, in the order they are installed.
Waiting(h) == (IF h.pendingInstall = None THEN <<>> ELSE <<h.pendingInstall>>)
              \o h.pendingInstalls

\* A host that waits for an answer has the database it installs, and a place in it.
InPlace(h) == h.pendingInstall # None
              => h.installResourceIndex <= Len(Info[h.pendingInstall].items)
Working(h) == /\ h.installState \in Midway => h.pendingInstall # None
              /\ InPlace(h)
              /\ h.installState = "WritingResource" => ItemDue(h)

\* What a step of the host may do to the queue: nothing, or take off the installed file.
Stays(h, g) == g \in Hosts /\ Working(g) /\ Waiting(g) = Waiting(h) /\ ~ReportsInstalled(h, g)
Installs(h, g) == /\ g \in Hosts /\ Working(g) /\ ReportsInstalled(h, g)
                  /\ Waiting(h) = <<h.pendingInstall>> \o Waiting(g)
                  /\ h.pendingInstall \in Images

\* Sending, even when it fails, keeps the queue and the place in the install.
LEMMA SendingStays ==
    ASSUME NEW h \in Hosts, Working(h), NEW g, Sends(h, g)
    PROVE  Stays(h, g)
  BY DEF Sends, SameWork, Stays, Working, InPlace, Waiting, ReportsInstalled, ItemDue, Midway

\* The state alone, and what is no part of the install, may change before a step.
LEMMA StaysAfter ==
    ASSUME NEW h \in Hosts, NEW k \in Hosts, SameWork(h, k), k.installState = h.installState,
           Working(h)
    PROVE  /\ Working(k)
           /\ \A g : (Stays(k, g) => Stays(h, g)) /\ (Installs(k, g) => Installs(h, g))
  BY DEF SameWork, Stays, Installs, Working, InPlace, Waiting, ReportsInstalled, ItemDue

\* Taking up the next file keeps the order of what waits.
LEMMA NextPrepared ==
    ASSUME NEW h \in Hosts, InPlace(h)
    PROVE  LET g == PrepareNextPendingInstall(h)
           IN  /\ g \in Hosts /\ InPlace(g) /\ Waiting(g) = Waiting(h)
               /\ g.installState = h.installState
<1>1. CASE h.pendingInstall # None \/ h.pendingInstalls = <<>>
  BY <1>1 DEF PrepareNextPendingInstall
<1>2. CASE ~(h.pendingInstall # None \/ h.pendingInstalls = <<>>)
  <2> DEFINE g == PrepareNextPendingInstall(h)
             image == Head(h.pendingInstalls)
             rest == Tail(h.pendingInstalls)
  <2>0. h.pendingInstalls \in Seq(Images) /\ h.pendingInstalls # <<>>
    BY <1>2 DEF Hosts
  <2>1. image \in Images /\ rest \in Seq(Images) /\ h.pendingInstalls = <<image>> \o rest
    BY <2>0
  <2>2. g = [h EXCEPT !.pendingInstall = image, !.pendingInstalls = rest,
                      !.installDbId = 0, !.installResourceIndex = 0,
                      !.installAppBlockDone = FALSE, !.installSortBlockDone = FALSE]
    BY <1>2 DEF PrepareNextPendingInstall
  <2> HIDE DEF g, image, rest
  <2>3. g \in Hosts /\ g.installState = h.installState
    BY <2>1, <2>2 DEF Hosts
  <2>4. g.pendingInstall = image /\ g.pendingInstalls = rest /\ g.installResourceIndex = 0
    BY <2>2 DEF Hosts
  <2>5. InPlace(g)
    BY <2>1, <2>4, InfoType DEF InPlace
  <2>6. Waiting(g) = <<image>> \o rest
    BY <2>1, <2>4, ImagesAssumption DEF Waiting
  <2>7. Waiting(h) = h.pendingInstalls
    <3>1. Waiting(h) = <<>> \o h.pendingInstalls
      BY <1>2 DEF Waiting
    <3> QED BY <2>0, <3>1, ConcatEmptySeq
  <2> QED BY <2>1, <2>3, <2>5, <2>6, <2>7 DEF g
<1> QED BY <1>1, <1>2

\* An install starts with DeleteDB, or the sync ends; what waits still waits.
LEMMA InstallStarted ==
    ASSUME NEW h \in Hosts, InPlace(h)
    PROVE  LET g == StartInstall(h)
           IN  /\ g \in Hosts /\ Working(g) /\ Waiting(g) = Waiting(h)
               /\ g.installState \in {"DeleteSent", "EndSent"}
<1>1. CASE h.pendingInstall = None
  BY <1>1, EndSent DEF StartInstall, Working, InPlace, SameWork, Waiting, Midway
<1>2. CASE h.pendingInstall # None
  BY <1>2, DeleteSent DEF StartInstall, Working, InPlace, SameWork, Waiting, Midway
<1> QED BY <1>1, <1>2

\* Beginning the work of a session takes nothing off the queue.
LEMMA WorkBegun ==
    ASSUME NEW h \in Hosts, Working(h)
    PROVE  Stays(h, BeginHotSyncWork(h))
<1>1. CASE h.installState # "Idle"
  BY <1>1 DEF BeginHotSyncWork, Stays, ReportsInstalled
<1>2. CASE h.installState = "Idle"
  <2> DEFINE k == PrepareNextPendingInstall(h)
  <2>1. k \in Hosts /\ InPlace(k) /\ Waiting(k) = Waiting(h)
    BY NextPrepared DEF Working
  <2>2. BeginHotSyncWork(h) = StartInstall(k)
    BY <1>2 DEF BeginHotSyncWork
  <2> HIDE DEF k
  <2> QED BY <1>2, <2>1, <2>2, InstallStarted DEF Stays, ReportsInstalled
<1> QED BY <1>1, <1>2

\* Progress within an install: the next request follows a host k that differs in the place.
LEMMA ItemStays ==
    ASSUME NEW h \in Hosts, h.installState \in Midway, h.installState # "CloseSent",
           NEW k \in Hosts, k.pendingInstall = h.pendingInstall,
           k.pendingInstalls = h.pendingInstalls, h.pendingInstall \in Images, InPlace(k)
    PROVE  Stays(h, SendNextInstallItem(k))
<1> DEFINE g == SendNextInstallItem(k)
<1>1. /\ g \in Hosts /\ SameWork(k, g)
      /\ g.installState \in {"AppBlockSent", "SortBlockSent", "WritingResource", "CloseSent",
                             "Failed"}
      /\ g.installState = "WritingResource" => ItemDue(k)
  BY NextItemSent
<1> HIDE DEF g
<1>2. h.pendingInstall # None
  BY ImagesAssumption
<1>3. Working(g)
  BY <1>1, <1>2 DEF Working, InPlace, SameWork, ItemDue
<1>4. Waiting(g) = Waiting(h)
  BY <1>1 DEF SameWork, Waiting
<1>5. ~ReportsInstalled(h, g)
  BY DEF ReportsInstalled
<1> QED BY <1>1, <1>3, <1>4, <1>5 DEF Stays, g

\* The install of a database is complete: the next one starts, or the sync ends.
LEMMA InstallCompleted ==
    ASSUME NEW h \in Hosts, Working(h), h.installState = "CloseSent", NEW p \in Payloads
    PROVE  Installs(h, Advance(h, p))
<1> DEFINE k == [h EXCEPT !.pendingInstall = None, !.installState = "Idle"]
           n == PrepareNextPendingInstall(k)
<1>1. h.pendingInstall \in Images
  BY DEF Hosts, Working, Midway
<1>2. k \in Hosts /\ InPlace(k)
  BY DEF Hosts, InPlace, InstallStates
<1>3. Waiting(k) = <<>> \o h.pendingInstalls
  BY DEF Waiting, Hosts
<1>4. Waiting(k) = h.pendingInstalls
  BY <1>3, ConcatEmptySeq DEF Hosts
<1>5. Advance(h, p) = StartInstall(n)
  BY DEF Advance
<1> HIDE DEF k
<1>6. n \in Hosts /\ InPlace(n) /\ Waiting(n) = h.pendingInstalls
  BY <1>2, <1>4, NextPrepared
<1> HIDE DEF n
<1>7. /\ Advance(h, p) \in Hosts /\ Working(Advance(h, p))
      /\ Waiting(Advance(h, p)) = h.pendingInstalls
      /\ Advance(h, p).installState \in {"DeleteSent", "EndSent"}
  BY <1>5, <1>6, InstallStarted
<1>8. Waiting(h) = <<h.pendingInstall>> \o h.pendingInstalls
  BY <1>1, ImagesAssumption DEF Waiting
<1> QED BY <1>1, <1>7, <1>8 DEF Installs, ReportsInstalled

\* The answer that the install waits for takes it a step further.
LEMMA Advanced ==
    ASSUME NEW h \in Hosts, Working(h), NEW p \in Payloads,
           h.installState \in Midway \union {"EndSent"}
    PROVE  Stays(h, Advance(h, p)) \/ Installs(h, Advance(h, p))
<1> DEFINE g == Advance(h, p)
<1>0. h.installState \in Midway => h.pendingInstall \in Images
  BY DEF Hosts, Working
<1>1. CASE h.installState = "DeleteSent"
  <2>1. g = SendDlpCreateDb(h)
    BY <1>1 DEF Advance
  <2> HIDE DEF g
  <2>2. g \in Hosts /\ SameWork(h, g) /\ g.installState = "CreateSent"
    BY <2>1, CreateSent
  <2>3. Stays(h, g)
    BY <1>0, <1>1, <2>2, ImagesAssumption
       DEF Stays, SameWork, Working, InPlace, Waiting, ReportsInstalled, Midway
  <2> QED BY <2>3 DEF g
<1>2. CASE h.installState = "CreateSent"
  <2> DEFINE k == [h EXCEPT !.installDbId = p.db, !.installResourceIndex = 0]
  <2>1. g = SendNextInstallItem(k)
    BY <1>2 DEF Advance
  <2>2. k \in Hosts /\ k.pendingInstall = h.pendingInstall
        /\ k.pendingInstalls = h.pendingInstalls /\ k.installResourceIndex = 0
    BY DEF Hosts, Payloads
  <2>3. InPlace(k)
    BY <1>0, <1>2, <2>2, InfoType DEF InPlace, Midway
  <2> HIDE DEF k, g
  <2>4. Stays(h, g)
    BY <1>0, <1>2, <2>1, <2>2, <2>3, ItemStays DEF Midway
  <2> QED BY <2>4 DEF g
<1>3. CASE h.installState = "AppBlockSent"
  <2> DEFINE k == [h EXCEPT !.installAppBlockDone = TRUE]
  <2>1. g = SendNextInstallItem(k)
    BY <1>3 DEF Advance
  <2>2. k \in Hosts /\ SameWork(h, k)
    BY DEF Hosts, SameWork
  <2> HIDE DEF k, g
  <2>3. InPlace(k)
    BY <2>2 DEF InPlace, SameWork, Working
  <2>4. Stays(h, g)
    BY <1>0, <1>3, <2>1, <2>2, <2>3, ItemStays DEF Midway, SameWork
  <2> QED BY <2>4 DEF g
<1>4. CASE h.installState = "SortBlockSent"
  <2> DEFINE k == [h EXCEPT !.installSortBlockDone = TRUE]
  <2>1. g = SendNextInstallItem(k)
    BY <1>4 DEF Advance
  <2>2. k \in Hosts /\ SameWork(h, k)
    BY DEF Hosts, SameWork
  <2> HIDE DEF k, g
  <2>3. InPlace(k)
    BY <2>2 DEF InPlace, SameWork, Working
  <2>4. Stays(h, g)
    BY <1>0, <1>4, <2>1, <2>2, <2>3, ItemStays DEF Midway, SameWork
  <2> QED BY <2>4 DEF g
<1>5. CASE h.installState = "WritingResource"
  <2> DEFINE k == [h EXCEPT !.installResourceIndex = @ + 1]
  <2>1. g = SendNextInstallItem(k)
    BY <1>5 DEF Advance
  <2>0. h.installResourceIndex \in Nat /\ h.installResourceIndex + 1 \in Nat
    BY DEF Hosts
  <2>2. /\ k \in Hosts /\ k.pendingInstall = h.pendingInstall
        /\ k.pendingInstalls = h.pendingInstalls
        /\ k.installResourceIndex = h.installResourceIndex + 1
    BY <2>0 DEF Hosts
  <2>3. InPlace(k)
    BY <1>0, <1>5, <2>0, <2>2, InfoType DEF InPlace, Midway, Working, ItemDue
  <2> HIDE DEF k, g
  <2>4. Stays(h, g)
    BY <1>0, <1>5, <2>1, <2>2, <2>3, ItemStays DEF Midway
  <2> QED BY <2>4 DEF g
<1>6. CASE h.installState = "CloseSent"
  BY <1>6, InstallCompleted
<1>7. CASE h.installState = "EndSent"
  <2>1. g = [h EXCEPT !.installState = "Done"]
    BY <1>7 DEF Advance
  <2> HIDE DEF g
  <2>2. g \in Hosts /\ SameWork(h, g) /\ g.installState = "Done"
    BY <2>1 DEF Hosts, SameWork, InstallStates
  <2>3. Stays(h, g)
    BY <2>2 DEF Stays, SameWork, Working, InPlace, Waiting, ReportsInstalled, Midway
  <2> QED BY <2>3 DEF g
<1> QED BY <1>1, <1>2, <1>3, <1>4, <1>5, <1>6, <1>7 DEF Midway

\* Whatever a complete message is, a file leaves the queue only as it is reported installed.
LEMMA PayloadHandled ==
    ASSUME NEW h \in Hosts, Working(h), NEW tx \in Nat, NEW p \in Payloads
    PROVE  Stays(h, HandleDlpPayload(h, tx, p)) \/ Installs(h, HandleDlpPayload(h, tx, p))
<1> DEFINE g == HandleDlpPayload(h, tx, p)
           msg == Message(p.cmd, None, 0, 0, 1, TRUE)
<1>1. msg \in Messages
  BY MessageType DEF Payloads
<1>2. Stays(h, h)
  BY DEF Stays, ReportsInstalled
<1>3. g \in {SendPadpData(h, tx, msg), h, BeginHotSyncWork(h), SendDlpWriteUserInfo(h)}
      \/ (p.cmd = InstallExpectedResponseCommand(h) /\ g = HandleInstallResponse(h, p)
          /\ p.answer)
  BY DEF HandleDlpPayload
<1>4. CASE g \in {SendPadpData(h, tx, msg), h, BeginHotSyncWork(h), SendDlpWriteUserInfo(h)}
  <2> HIDE DEF g, msg
  <2>1. Stays(h, g)
    BY <1>1, <1>2, <1>4, DataSent, WriteUserInfoSent, SendingStays, WorkBegun
  <2> QED BY <2>1 DEF g
<1>5. CASE g = HandleInstallResponse(h, p)
  <2> HIDE DEF g
  <2>1. \/ g \in {h, FailInstall(h)}
        \/ g = Advance(h, p) /\ h.installState \in Midway \union {"EndSent"}
    BY <1>5 DEF HandleInstallResponse
  <2> QED BY <1>2, <2>1, Advanced, FailureSent, SendingStays DEF g
<1> QED BY <1>3, <1>4, <1>5

----------------------------------------------------------------------------
(* Frames and clicks *)

\* A frame of the Palm.
PalmFrames == FramesOf(Payloads)

\* The empty payload is a payload.
LEMMA NoPayloadType == NoPayload \in Payloads
  BY DEF NoPayload, Payloads, Commands, Errors

\* Putting fragments together changes nothing of the install before the message is whole.
LEMMA FragmentHandled ==
    ASSUME NEW h \in Hosts, Working(h), NEW f \in PalmFrames
    PROVE  LET g == HandlePadpDataFragment(h, f) IN Stays(h, g) \/ Installs(h, g)
<1> DEFINE whole == IF f.offset = 0 THEN f.msg ELSE h.rxPadp.msg
           more == [active |-> TRUE, tx |-> f.tx, msg |-> whole, parts |-> f.offset + 1]
           kept == [h EXCEPT !.rxPadp = more]
           reset == [h EXCEPT !.rxPadp = NotReceiving]
           g == HandlePadpDataFragment(h, f)
<1>1. f.tx \in Nat /\ f.msg \in Payloads /\ f.offset \in Nat
  BY DEF PalmFrames, FramesOf
<1>2. whole \in Payloads
  BY <1>1 DEF Hosts
<1>3. g \in {kept, reset, HandleDlpPayload(reset, f.tx, whole)}
  BY DEF HandlePadpDataFragment
<1> HIDE DEF g, whole
<1>4. more \in [active : BOOLEAN, tx : Nat, msg : Payloads, parts : Nat]
  BY <1>1, <1>2
<1>5. NotReceiving \in [active : BOOLEAN, tx : Nat, msg : Payloads, parts : Nat]
  BY NoPayloadType DEF NotReceiving
<1> HIDE DEF more
<1>6. kept \in Hosts /\ SameWork(h, kept) /\ kept.installState = h.installState
  BY <1>4 DEF Hosts, SameWork
<1>7. reset \in Hosts /\ SameWork(h, reset) /\ reset.installState = h.installState
  BY <1>5 DEF Hosts, SameWork
<1> HIDE DEF kept, reset
<1>8. Stays(h, kept) /\ Stays(h, reset)
  BY <1>6, <1>7, SendingStays DEF Sends
<1>9. Working(reset) /\ \A k : /\ Stays(reset, k) => Stays(h, k)
                               /\ Installs(reset, k) => Installs(h, k)
  BY <1>7, StaysAfter
<1>10. \/ Stays(reset, HandleDlpPayload(reset, f.tx, whole))
       \/ Installs(reset, HandleDlpPayload(reset, f.tx, whole))
  BY <1>1, <1>2, <1>7, <1>9, PayloadHandled
<1>11. Stays(h, g) \/ Installs(h, g)
  BY <1>3, <1>8, <1>9, <1>10
<1> QED BY <1>11 DEF g

\* A wake keeps the queue, and an install that is midway keeps its database.
LEMMA WakeStays ==
    ASSUME NEW h \in Hosts, Working(h)
    PROVE  Stays(h, Woken(h))
<1> DEFINE state == IF h.installState \in {"Done", "Failed"} THEN "Idle" ELSE h.installState
           g == Woken(h)
<1>1. state \in InstallStates /\ (state \in Midway => state = h.installState)
      /\ (h.installState = "CloseSent" => state = "CloseSent")
  BY DEF Hosts, InstallStates, Midway
<1>2. NotReceiving \in [active : BOOLEAN, tx : Nat, msg : Payloads, parts : Nat]
  BY NoPayloadType DEF NotReceiving
<1>3. NotSending \in [active : BOOLEAN, tx : Nat, msg : Messages, offset : Nat]
  BY NotSendingType DEF Pending
<1>4. g = [h EXCEPT !.cmpHandshakeStarted = TRUE, !.dlpReadUserInfoSent = FALSE,
                    !.dlpReadUserInfoQueued = FALSE, !.dlpWriteUserInfoSent = FALSE,
                    !.pendingPadp = NotSending, !.installState = state,
                    !.installDbId = 0, !.installResourceIndex = 0,
                    !.installAppBlockDone = FALSE, !.installSortBlockDone = FALSE,
                    !.rxPadp = NotReceiving]
  BY DEF Woken
<1> HIDE DEF g, state
<1>5. g \in Hosts
  BY <1>1, <1>2, <1>3, <1>4 DEF Hosts
<1>6. /\ g.pendingInstall = h.pendingInstall /\ g.pendingInstalls = h.pendingInstalls
      /\ g.installResourceIndex = 0 /\ g.installState = state
  BY <1>4 DEF Hosts
<1>7. Waiting(g) = Waiting(h)
  BY <1>6 DEF Waiting
<1>8. ~ReportsInstalled(h, g)
  BY <1>1, <1>6 DEF ReportsInstalled
<1>9. g.pendingInstall = None \/ g.pendingInstall \in Images
  BY <1>5 DEF Hosts
<1>10. InPlace(g)
  BY <1>6, <1>9, InfoType DEF InPlace
<1>11. g.installState \in Midway => g.pendingInstall # None
  BY <1>1, <1>6 DEF Working
<1>12. ASSUME g.installState = "WritingResource" PROVE ItemDue(g)
  <2>1. h.installState = "WritingResource" /\ g.pendingInstall # None
    BY <1>1, <1>6, <1>11, <1>12 DEF Midway
  <2>2. h.installResourceIndex < Len(Info[h.pendingInstall].items)
    BY <2>1 DEF Working, ItemDue
  <2>3. h.installResourceIndex \in Nat /\ Len(Info[h.pendingInstall].items) \in Nat
    BY <1>6, <1>9, <2>1, InfoType DEF Hosts
  <2> QED BY <1>6, <2>2, <2>3 DEF ItemDue
<1>13. Stays(h, g)
  BY <1>5, <1>7, <1>8, <1>10, <1>11, <1>12 DEF Stays, Working
<1> QED BY <1>13 DEF g

\* An acknowledgement sends on, or asks for the user information.
LEMMA AckStays ==
    ASSUME NEW h \in Hosts, Working(h), NEW tx \in Nat
    PROVE  Stays(h, HandleAck(h, tx))
<1> DEFINE q == [h EXCEPT !.dlpReadUserInfoQueued = TRUE]
<1>1. HandleAck(h, tx) \in {h, q, SendNextPadpFragment(h)}
  BY DEF HandleAck
<1>2. q \in Hosts /\ SameWork(h, q) /\ q.installState = h.installState
  BY DEF Hosts, SameWork
<1> HIDE DEF q
<1>3. Sends(h, h) /\ Sends(h, q) /\ Sends(h, SendNextPadpFragment(h))
  BY <1>2, FragmentSent DEF Sends, SameWork
<1> QED BY <1>1, <1>3, SendingStays

\* Whatever frame comes, a file leaves the queue only as it is reported installed.
LEMMA FrameHandled ==
    ASSUME NEW h \in Hosts, Working(h), NEW f \in PalmFrames
    PROVE  LET g == HandlePalmSlpFrame(h, f) IN Stays(h, g) \/ Installs(h, g)
<1> DEFINE g == HandlePalmSlpFrame(h, f)
<1>1. f.kind \in {"data", "ack", "abort"} /\ f.tx \in Nat
  BY DEF PalmFrames, FramesOf, Kinds
<1>2. CASE f.kind = "abort"
  <2>1. NotReceiving \in [active : BOOLEAN, tx : Nat, msg : Payloads, parts : Nat]
    BY NoPayloadType DEF NotReceiving
  <2>2. NotSending \in [active : BOOLEAN, tx : Nat, msg : Messages, offset : Nat]
    BY NotSendingType DEF Pending
  <2>3. g = [h EXCEPT !.pendingPadp = NotSending, !.rxPadp = NotReceiving]
    BY <1>2 DEF HandlePalmSlpFrame
  <2> HIDE DEF g
  <2>4. Sends(h, g)
    BY <2>1, <2>2, <2>3 DEF Sends, SameWork, Hosts
  <2>5. Stays(h, g)
    BY <2>4, SendingStays
  <2> QED BY <2>5 DEF g
<1>3. CASE f.kind = "ack"
  BY <1>1, <1>3, AckStays DEF HandlePalmSlpFrame
<1>4. CASE f.kind = "data"
  <2> DEFINE k == SendPadpAck(h, f.tx)
  <2>1. k \in Hosts /\ SameWork(h, k) /\ k.installState = h.installState
    BY <1>1, AckSent
  <2>2. g \in {SendCmpInit(Woken(k), f.tx), HandlePadpDataFragment(k, f)}
    BY <1>4 DEF HandlePalmSlpFrame
  <2> HIDE DEF k, g
  <2>3. Working(k) /\ \A n : /\ Stays(k, n) => Stays(h, n)
                             /\ Installs(k, n) => Installs(h, n)
    BY <2>1, StaysAfter
  <2>4. Stays(k, HandlePadpDataFragment(k, f)) \/ Installs(k, HandlePadpDataFragment(k, f))
    BY <2>1, <2>3, FragmentHandled
  <2>5. Stays(k, SendCmpInit(Woken(k), f.tx))
    <3> DEFINE w == Woken(k)
               n == SendCmpInit(w, f.tx)
    <3>1. Stays(k, w)
      BY <2>1, <2>3, WakeStays
    <3> HIDE DEF w
    <3>2. n \in Hosts /\ SameWork(w, n) /\ n.installState = w.installState
      BY <1>1, <3>1, InitSent DEF Stays
    <3> HIDE DEF n
    <3>3. Stays(k, n)
      BY <3>1, <3>2
         DEF Stays, SameWork, Working, InPlace, Waiting, ReportsInstalled, ItemDue
    <3> QED BY <3>3 DEF w, n
  <2>6. Stays(h, g) \/ Installs(h, g)
    BY <2>2, <2>3, <2>4, <2>5
  <2> QED BY <2>6 DEF g
<1> QED BY <1>1, <1>2, <1>3, <1>4

\* A click queues the file behind all that wait.
LEMMA FileQueued ==
    ASSUME NEW h \in Hosts, Working(h), NEW image \in Images
    PROVE  LET g == InstallPrcClicked(h, image)
           IN  g \in Hosts /\ Working(g) /\ Waiting(g) = Waiting(h) \o <<image>>
<1> DEFINE state == IF h.installState \in {"Done", "Failed"} THEN "Idle" ELSE h.installState
           rest == Append(h.pendingInstalls, image)
           k == [h EXCEPT !.pendingInstalls = rest, !.installState = state]
           g == InstallPrcClicked(h, image)
           head == IF h.pendingInstall = None THEN <<>> ELSE <<h.pendingInstall>>
<1>0. h.pendingInstalls \in Seq(Images)
  BY DEF Hosts
<1>1. state \in InstallStates /\ (state \in Midway => state = h.installState)
  BY DEF Hosts, InstallStates, Midway
<1>2. rest \in Seq(Images) /\ rest = h.pendingInstalls \o <<image>>
  BY <1>0
<1>3. g = IF k.installState = "Idle" THEN PrepareNextPendingInstall(k) ELSE k
  BY DEF InstallPrcClicked
<1> HIDE DEF g, state, rest
<1>4. k \in Hosts
  BY <1>1, <1>2 DEF Hosts
<1>5. /\ k.pendingInstall = h.pendingInstall /\ k.pendingInstalls = rest
      /\ k.installResourceIndex = h.installResourceIndex /\ k.installState = state
  BY DEF Hosts
<1> HIDE DEF k
<1>6. Working(k)
  BY <1>1, <1>5 DEF Working, InPlace, ItemDue, Midway
<1>7. head \in Seq(Images)
  <2>1. h.pendingInstall = None \/ h.pendingInstall \in Images
    BY DEF Hosts
  <2>2. CASE h.pendingInstall = None
    BY <2>2
  <2>3. CASE h.pendingInstall # None
    BY <2>1, <2>3
  <2> QED BY <2>2, <2>3
<1>8. Waiting(k) = Waiting(h) \o <<image>>
  <2>1. Waiting(k) = head \o rest /\ Waiting(h) = head \o h.pendingInstalls
    BY <1>5 DEF Waiting
  <2> HIDE DEF head
  <2>2. <<image>> \in Seq(Images)
    OBVIOUS
  <2>3. ASSUME NEW s \in Seq(Images), NEW t \in Seq(Images), NEW u \in Seq(Images)
        PROVE  (s \o t) \o u = s \o (t \o u)
    BY ConcatAssociative
  <2>4. (head \o h.pendingInstalls) \o <<image>> = head \o (h.pendingInstalls \o <<image>>)
    BY <1>0, <1>7, <2>2, <2>3
  <2> QED BY <1>2, <2>1, <2>4
<1>9. CASE k.installState = "Idle"
  <2> DEFINE n == PrepareNextPendingInstall(k)
  <2>1. n \in Hosts /\ InPlace(n) /\ Waiting(n) = Waiting(k) /\ n.installState = "Idle"
    BY <1>4, <1>6, <1>9, NextPrepared DEF Working
  <2>2. g = n
    BY <1>3, <1>9
  <2> HIDE DEF n
  <2> QED BY <1>8, <2>1, <2>2 DEF Working, Midway, g
<1>10. CASE k.installState # "Idle"
  BY <1>3, <1>4, <1>6, <1>8, <1>10 DEF g
<1> QED BY <1>9, <1>10

\* Forgetting the installs empties the queue.
LEMMA AllForgotten ==
    ASSUME NEW h \in Hosts
    PROVE  LET g == InstallsForgotten(h)
           IN  g \in Hosts /\ Working(g) /\ Waiting(g) = <<>>
<1> DEFINE g == InstallsForgotten(h)
<1>1. g = [h EXCEPT !.pendingInstall = None, !.pendingInstalls = <<>>,
                    !.installState = "Idle",
                    !.installAppBlockDone = FALSE, !.installSortBlockDone = FALSE]
  BY DEF InstallsForgotten
<1> HIDE DEF g
<1>2. g \in Hosts
  <2>1. <<>> \in Seq(Images) /\ "Idle" \in InstallStates
    BY DEF InstallStates
  <2> QED BY <1>1, <2>1 DEF Hosts
<1>3. g.pendingInstall = None /\ g.pendingInstalls = <<>> /\ g.installState = "Idle"
  BY <1>1 DEF Hosts
<1>4. Working(g)
  BY <1>3 DEF Working, InPlace, Midway
<1>5. Waiting(g) = <<>> \o <<>>
  BY <1>3 DEF Waiting
<1>6. Waiting(g) = <<>>
  BY <1>5
<1> QED BY <1>2, <1>4, <1>6 DEF g

----------------------------------------------------------------------------
(* The Palm's side keeps its types *)

PalmStates == [mode : {"away", "waking", "linked"}, in : [tx : Nat, parts : Nat],
               out : [unacked : BOOLEAN, tx : Nat, msg : Payloads, part : Nat],
               open : Images \union {None}, named : BOOLEAN]
Parcels == [cmd : Commands, image : Images \union {None}, item : Nat]
Devices == [Images -> [present : BOOLEAN, written : Seq(Parcels)]]

\* What the Palm sends, and remembers of it, is typed.
LEMMA PalmFrameType ==
    ASSUME NEW tx \in Nat, NEW p \in Payloads, NEW part \in Nat
    PROVE  /\ PalmFrame(tx, p, part) \in PalmFrames
           /\ Sending(tx, p, part) \in [unacked : BOOLEAN, tx : Nat, msg : Payloads, part : Nat]
<1> DEFINE end == part + 1 = Parts(p)
<1>1. end \in BOOLEAN
  OBVIOUS
<1>2. PalmFrame(tx, p, part) = Frame("data", tx, p, part, end)
  BY DEF PalmFrame
<1> HIDE DEF end
<1>3. PalmFrame(tx, p, part) \in PalmFrames
  BY <1>1, <1>2, FrameType DEF PalmFrames, Kinds
<1> QED BY <1>3 DEF Sending

\* The Palm's acknowledgement is a frame.
LEMMA PalmAckType ==
    ASSUME NEW tx \in Nat
    PROVE  PalmAck(tx) \in PalmFrames
  BY NoPayloadType, FrameType DEF PalmAck, PalmFrames, Kinds

\* A Palm that is silent, deaf or away is typed.
LEMMA PalmAtRest ==
    /\ PalmSilent \in [unacked : BOOLEAN, tx : Nat, msg : Payloads, part : Nat]
    /\ PalmDeaf \in [tx : Nat, parts : Nat]
    /\ PalmAway \in PalmStates
<1>1. PalmSilent \in [unacked : BOOLEAN, tx : Nat, msg : Payloads, part : Nat]
  BY NoPayloadType DEF PalmSilent
<1>2. PalmDeaf \in [tx : Nat, parts : Nat]
  BY DEF PalmDeaf
<1> QED BY <1>1, <1>2 DEF PalmAway, PalmStates

\* The parts of TypeOK that concern the Palm's side.
LEMMA PalmParts ==
    ASSUME TypeOK
    PROVE  /\ palm \in PalmStates /\ device \in Devices /\ toHost \in Seq(PalmFrames)
           /\ palm.mode \in {"away", "waking", "linked"} /\ palm.named \in BOOLEAN
           /\ palm.out \in [unacked : BOOLEAN, tx : Nat, msg : Payloads, part : Nat]
           /\ palm.in \in [tx : Nat, parts : Nat] /\ palm.open \in Images \union {None}
  BY DEF TypeOK, PalmStates, Devices, Parcels, PalmFrames

\* Taking the first frame from the host's queue leaves the install alone.
LEMMA FrameLeaves ==
    ASSUME TypeOK, Working(host), host.uart # <<>>, FrameTaken
    PROVE  /\ host' \in Hosts /\ Working(host') /\ Waiting(host') = Waiting(host)
           /\ Arrived \in FramesOf(Messages)
           /\ Arrived.tx \in Nat /\ Arrived.offset \in Nat /\ Arrived.msg \in Messages
<1> DEFINE rest == Tail(host.uart)
<1>1. host.uart \in Seq(FramesOf(Messages)) /\ host \in Hosts
  BY DEF TypeOK, Hosts
<1>2. rest \in Seq(FramesOf(Messages)) /\ Arrived \in FramesOf(Messages)
  BY <1>1 DEF Arrived
<1>3. host' = [host EXCEPT !.uart = rest]
  BY DEF FrameTaken
<1> HIDE DEF rest
<1>4. host' \in Hosts /\ SameWork(host, host') /\ host'.installState = host.installState
  BY <1>1, <1>2, <1>3 DEF Hosts, SameWork
<1>5. Working(host') /\ Waiting(host') = Waiting(host)
  BY <1>4 DEF SameWork, Working, InPlace, ItemDue, Waiting
<1>6. Arrived.tx \in Nat /\ Arrived.offset \in Nat /\ Arrived.msg \in Messages
  BY <1>2 DEF FramesOf
<1> QED BY <1>2, <1>4, <1>5, <1>6

\* Every answer of the Palm is a payload.
LEMMA ReplyType ==
    ASSUME TypeOK, NEW cmd \in Commands, NEW err \in Errors
    PROVE  Reply(cmd, err) \in Payloads
<1> DEFINE asks == cmd = "ReadUserInfo" /\ ~palm.named
<1>1. asks \in BOOLEAN
  OBVIOUS
<1>2. Reply(cmd, err) = [cmd |-> cmd, answer |-> TRUE, err |-> err, db |-> 1,
                         needsUserInfo |-> asks]
  BY DEF Reply
<1> HIDE DEF asks
<1> QED BY <1>1, <1>2 DEF Payloads

\* Answering a request leaves the Palm and its frames typed.
LEMMA AnsweredType ==
    ASSUME TypeOK, NEW m \in Messages, NEW err \in Errors, NEW open \in Images \union {None},
           Arrived.tx \in Nat, Answered(m, err, open)
    PROVE  toHost' \in Seq(PalmFrames) /\ palm' \in PalmStates
<1> DEFINE p == Reply(m.cmd, err)
           a == PalmAck(Arrived.tx)
           f == PalmFrame(Arrived.tx, p, 0)
           mode == IF m.cmd = "EndOfSync" THEN "away" ELSE palm.mode
           out == IF m.cmd = "EndOfSync" THEN PalmSilent ELSE Sending(Arrived.tx, p, 0)
           named == palm.named \/ m.cmd = "WriteUserInfo"
<1>1. m.cmd \in Commands
  BY DEF Messages
<1>2. p \in Payloads
  BY <1>1, ReplyType
<1>3. toHost' = toHost \o <<a, f>>
  BY DEF Answered
<1>4. palm' = [palm EXCEPT !.mode = mode, !.in = PalmDeaf, !.out = out, !.open = open,
                           !.named = named]
  BY DEF Answered
<1> HIDE DEF p
<1>5. f \in PalmFrames /\ a \in PalmFrames
  BY <1>2, PalmFrameType, PalmAckType
<1>6. out \in [unacked : BOOLEAN, tx : Nat, msg : Payloads, part : Nat]
  BY <1>2, PalmFrameType, PalmAtRest
<1>7. mode \in {"away", "waking", "linked"}
  BY PalmParts
<1>8. named \in BOOLEAN
  OBVIOUS
<1> HIDE DEF f, a, out, mode, named
<1>9. toHost' \in Seq(PalmFrames)
  BY <1>3, <1>5, PalmParts
<1>10. palm' \in PalmStates
  BY <1>4, <1>6, <1>7, <1>8, PalmParts, PalmAtRest DEF PalmStates
<1> QED BY <1>9, <1>10

\* Every request has one of the errors for an answer.
LEMMA ErrorType ==
    ASSUME NEW m \in Messages
    PROVE  ErrorOf(m) \in Errors
  BY DEF ErrorOf, Errors

\* Setting what the Palm holds of one database.
LEMMA DatabaseSet ==
    ASSUME NEW d \in Devices, NEW i, NEW e \in [present : BOOLEAN, written : Seq(Parcels)]
    PROVE  [d EXCEPT ![i] = e] \in Devices
  BY DEF Devices

\* A request that is not refused leaves databases behind.
LEMMA DeviceType ==
    ASSUME TypeOK, NEW m \in Messages, ErrorOf(m) # "refused"
    PROVE  DeviceAfter(m) \in Devices /\ OpenAfter(m) \in Images \union {None}
<1>1. /\ m.cmd \in Commands /\ m.image \in Images \union {None} /\ m.item \in Nat
  BY DEF Messages
<1>2. Absent \in [present : BOOLEAN, written : Seq(Parcels)]
  BY DEF Absent
<1>3. OpenAfter(m) \in Images \union {None}
  BY <1>1, PalmParts DEF OpenAfter
<1>4. CASE m.cmd = "DeleteDB"
  <2>1. DeviceAfter(m) = [device EXCEPT ![m.image] = Absent]
    BY <1>4 DEF DeviceAfter, Writes
  <2>2. [device EXCEPT ![m.image] = Absent] \in Devices
    BY <1>2, PalmParts, DatabaseSet
  <2> QED BY <1>3, <2>1, <2>2
<1>5. CASE m.cmd = "CreateDB"
  <2>1. DeviceAfter(m) = [device EXCEPT ![m.image] = [Absent EXCEPT !.present = TRUE]]
    BY <1>5 DEF DeviceAfter, Writes
  <2>2. [Absent EXCEPT !.present = TRUE] \in [present : BOOLEAN, written : Seq(Parcels)]
    BY <1>2
  <2> DEFINE made == [Absent EXCEPT !.present = TRUE]
  <2> HIDE DEF made
  <2>3. [device EXCEPT ![m.image] = made] \in Devices
    BY <2>2, PalmParts, DatabaseSet DEF made
  <2> QED BY <1>3, <2>1, <2>3 DEF made
<1>6. CASE m.cmd \in Writes
  <2>1. palm.open \in Images
    <3>1. Writable(m)
      BY <1>6 DEF ErrorOf, Writes
    <3> QED BY <3>1, PalmParts DEF Writable
  <2> DEFINE d == device[palm.open]
             w == Append(d.written, Written(m))
             e == [d EXCEPT !.written = w]
  <2>2. DeviceAfter(m) = [device EXCEPT ![palm.open].written = Append(@, Written(m))]
    BY <1>6 DEF DeviceAfter, Writes
  <2>3. [device EXCEPT ![palm.open].written = Append(@, Written(m))]
            = [device EXCEPT ![palm.open] = e]
    BY <2>1, PalmParts DEF Devices
  <2>4. d \in [present : BOOLEAN, written : Seq(Parcels)]
    BY <2>1, PalmParts DEF Devices
  <2>5. Written(m) \in Parcels
    BY <1>1 DEF Written, Parcels
  <2> HIDE DEF d
  <2>6. w \in Seq(Parcels)
    BY <2>4, <2>5
  <2> HIDE DEF w
  <2>7. e \in [present : BOOLEAN, written : Seq(Parcels)]
    BY <2>4, <2>6
  <2> HIDE DEF e
  <2>8. [device EXCEPT ![palm.open] = e] \in Devices
    BY <2>7, PalmParts, DatabaseSet
  <2> QED BY <1>3, <2>2, <2>3, <2>8 DEF e
<1>7. CASE m.cmd \notin Writes \union {"DeleteDB", "CreateDB"}
  <2>1. DeviceAfter(m) = device
    BY <1>7 DEF DeviceAfter
  <2> QED BY <1>3, <2>1, PalmParts
<1> QED BY <1>4, <1>5, <1>6, <1>7

\* A fault is counted and remembered.
LEMMA FaultType ==
    ASSUME TypeOK, NEW kind \in Troubles, Fault(kind)
    PROVE  trouble' \subseteq Troubles /\ spent' \in [syncs : Nat, clicks : Nat, faults : Nat]
<1>1. trouble' = trouble \union {kind} /\ trouble \subseteq Troubles
  BY DEF TypeOK, Fault
<1>2. /\ spent' = [spent EXCEPT !.faults = spent.faults + 1]
      /\ spent \in [syncs : Nat, clicks : Nat, faults : Nat]
  BY DEF TypeOK, Fault
<1>3. spent.faults + 1 \in Nat
  BY <1>2
<1> QED BY <1>1, <1>2, <1>3

----------------------------------------------------------------------------
(* The invariant *)

\* What is queued has been reported installed or waits, in the order of the clicks, and the
\* host is in a place from which it can go on.
IInv == TypeOK /\ Working(host) /\ accepted = done \o Waiting(host)

\* The same, in the parts that a step is shown to keep.
PalmSideOK == palm \in PalmStates /\ device \in Devices /\ toHost \in Seq(PalmFrames)
SpentOK == trouble \subseteq Troubles /\ spent \in [syncs : Nat, clicks : Nat, faults : Nat]
QueueOK == /\ host \in Hosts /\ Working(host)
           /\ accepted \in Seq(Images) /\ done \in Seq(Images)
           /\ accepted = done \o Waiting(host)

\* The invariant, taken apart,
LEMMA InvariantInParts == IInv <=> PalmSideOK /\ SpentOK /\ QueueOK
  BY DEF IInv, TypeOK, PalmSideOK, SpentOK, QueueOK, PalmStates, Devices, Parcels, PalmFrames

\* and put together again after a step.
LEMMA PartsKept ==
    ASSUME PalmSideOK', SpentOK', QueueOK'
    PROVE  IInv'
  BY DEF IInv, TypeOK, PalmSideOK, SpentOK, QueueOK, PalmStates, Devices, Parcels, PalmFrames

\* A harness and a Palm that have just started satisfy the invariant.
LEMMA StartIsRight ==
    ASSUME Init
    PROVE  IInv
<1>1. HostAtStart \in Hosts
  <2>1. NotReceiving \in [active : BOOLEAN, tx : Nat, msg : Payloads, parts : Nat]
    BY NoPayloadType DEF NotReceiving
  <2>2. NotSending \in [active : BOOLEAN, tx : Nat, msg : Messages, offset : Nat]
    BY NotSendingType DEF Pending
  <2>3. <<>> \in Seq(Images) /\ <<>> \in Seq(FramesOf(Messages)) /\ "Idle" \in InstallStates
    BY DEF InstallStates
  <2> QED BY <2>1, <2>2, <2>3 DEF HostAtStart, Hosts
<1>2. Working(HostAtStart)
  BY DEF Working, InPlace, Midway, HostAtStart
<1>3. Waiting(HostAtStart) = <<>>
  <2>1. Waiting(HostAtStart) = <<>> \o <<>>
    BY DEF Waiting, HostAtStart
  <2> QED BY <2>1
<1>4. QueueOK
  <2>1. <<>> \in Seq(Images) /\ <<>> = <<>> \o <<>>
    OBVIOUS
  <2> QED BY <1>1, <1>2, <1>3, <2>1 DEF QueueOK, Init
<1>5. PalmSideOK
  <2>1. Absent \in [present : BOOLEAN, written : Seq(Parcels)]
    BY DEF Absent
  <2> QED BY <2>1, PalmAtRest DEF PalmSideOK, Init, Devices
<1>6. SpentOK
  BY DEF SpentOK, Init
<1> QED BY <1>4, <1>5, <1>6, InvariantInParts

\* The queue is kept when the host keeps its part of it.
LEMMA QueueStays ==
    ASSUME IInv, host' \in Hosts, Working(host'), Waiting(host') = Waiting(host),
           UNCHANGED <<accepted, done>>
    PROVE  QueueOK'
<1>1. QueueOK
  BY InvariantInParts
<1> QED BY <1>1 DEF QueueOK

\* A frame that is read or lost on its way leaves the queue of files alone.
LEMMA QueueTaken ==
    ASSUME IInv, host.uart # <<>>, FrameTaken, UNCHANGED <<accepted, done>>
    PROVE  QueueOK'
  BY FrameLeaves, QueueStays DEF IInv

\* Installs that are forgotten leave an empty queue and empty histories.
LEMMA QueueEmptied ==
    ASSUME host' \in Hosts, Working(host'), Waiting(host') = <<>>, accepted' = <<>>, done' = <<>>
    PROVE  QueueOK'
<1>1. <<>> \in Seq(Images) /\ <<>> = <<>> \o <<>>
  OBVIOUS
<1> QED BY <1>1 DEF QueueOK

\* Whatever frame the host receives, a file that leaves its queue is reported.
LEMMA ReceivingKeeps ==
    ASSUME IInv, HostReceives
    PROVE  IInv'
<1>1. PalmSideOK /\ SpentOK /\ QueueOK
  BY InvariantInParts
<1>2. Head(toHost) \in PalmFrames /\ Tail(toHost) \in Seq(PalmFrames)
  BY <1>1 DEF PalmSideOK, HostReceives
<1>3. Stays(host, host') \/ Installs(host, host')
  BY <1>1, <1>2, FrameHandled DEF HostReceives, QueueOK
<1>4. CASE Stays(host, host')
  <2>1. done' = done
    BY <1>4 DEF HostReceives, Stays
  <2>2. QueueOK'
    BY <1>4, <2>1, QueueStays DEF HostReceives, Stays
  <2>3. PalmSideOK' /\ SpentOK'
    BY <1>1, <1>2 DEF PalmSideOK, SpentOK, HostReceives
  <2> QED BY <2>2, <2>3, PartsKept
<1>5. CASE Installs(host, host')
  <2>1. done' = Append(done, host.pendingInstall)
    BY <1>5 DEF HostReceives, Installs
  <2>2. done' = done \o <<host.pendingInstall>> /\ done' \in Seq(Images)
    BY <1>1, <1>5, <2>1 DEF QueueOK, Installs
  <2>3. Waiting(host') \in Seq(Images)
    <3>1. host'.pendingInstall = None \/ host'.pendingInstall \in Images
      BY <1>5 DEF Installs, Hosts
    <3>2. host'.pendingInstalls \in Seq(Images)
      BY <1>5 DEF Installs, Hosts
    <3>3. CASE host'.pendingInstall = None
      <4>1. Waiting(host') = <<>> \o host'.pendingInstalls
        BY <3>3 DEF Waiting
      <4> QED BY <3>2, <4>1, ConcatEmptySeq
    <3>4. CASE host'.pendingInstall # None
      <4>1. Waiting(host') = <<host'.pendingInstall>> \o host'.pendingInstalls
        BY <3>4 DEF Waiting
      <4> QED BY <3>1, <3>2, <3>4, <4>1
    <3> QED BY <3>3, <3>4
  <2>4. ASSUME NEW s \in Seq(Images), NEW t \in Seq(Images), NEW u \in Seq(Images)
        PROVE  (s \o t) \o u = s \o (t \o u)
    BY ConcatAssociative
  <2>5. <<host.pendingInstall>> \in Seq(Images) /\ done \in Seq(Images)
    BY <1>1, <1>5 DEF Installs, QueueOK
  <2>6. done \o (<<host.pendingInstall>> \o Waiting(host')) = done' \o Waiting(host')
    BY <2>2, <2>3, <2>4, <2>5
  <2>7. accepted' = done' \o Waiting(host')
    BY <1>1, <1>5, <2>6 DEF QueueOK, Installs, HostReceives
  <2>8. QueueOK'
    BY <1>1, <1>5, <2>2, <2>7 DEF QueueOK, Installs, HostReceives
  <2>9. PalmSideOK' /\ SpentOK'
    BY <1>1, <1>2 DEF PalmSideOK, SpentOK, HostReceives
  <2> QED BY <2>8, <2>9, PartsKept
<1> QED BY <1>3, <1>4, <1>5

\* Asking for the user information keeps the invariant.
LEMMA AskingKeeps ==
    ASSUME IInv, ServiceHotSyncHost
    PROVE  IInv'
<1>1. PalmSideOK /\ SpentOK /\ QueueOK
  BY InvariantInParts
<1>2. Stays(host, host')
  BY <1>1, ReadUserInfoSent, SendingStays DEF ServiceHotSyncHost, QueueOK
<1>3. QueueOK'
  BY <1>2, QueueStays DEF ServiceHotSyncHost, Stays
<1>4. PalmSideOK' /\ SpentOK'
  BY <1>1 DEF PalmSideOK, SpentOK, ServiceHotSyncHost
<1> QED BY <1>3, <1>4, PartsKept

\* What the Palm does with a frame of the host.
LEMMA TakingKeeps ==
    ASSUME IInv, PalmReceives
    PROVE  IInv'
<1>1. PalmSideOK /\ SpentOK /\ QueueOK
  BY InvariantInParts
<1>2. SpentOK'
  BY <1>1 DEF SpentOK, PalmReceives, PalmHearsNothing, PalmTakesAck, PalmTakesInit,
              PalmTakesFragment, PalmDropsFragment, PalmExecutes
<1>3. /\ host.uart # <<>> /\ FrameTaken /\ UNCHANGED <<accepted, done>>
  BY DEF PalmReceives, PalmHearsNothing, PalmTakesAck, PalmTakesInit,
         PalmTakesFragment, PalmDropsFragment, PalmExecutes, DataArrived
<1>4. QueueOK'
  BY <1>3, QueueTaken
<1>5. Arrived.tx \in Nat /\ Arrived.offset \in Nat /\ Arrived.msg \in Messages
  BY <1>3, FrameLeaves DEF IInv
<1>6. /\ palm.mode \in {"away", "waking", "linked"} /\ palm.named \in BOOLEAN
      /\ palm.out \in [unacked : BOOLEAN, tx : Nat, msg : Payloads, part : Nat]
      /\ palm.in \in [tx : Nat, parts : Nat] /\ palm.open \in Images \union {None}
      /\ palm \in PalmStates
  BY PalmParts DEF IInv
<1>7. PalmAck(Arrived.tx) \in PalmFrames
  BY <1>5, PalmAckType
<1>8. Append(toHost, PalmAck(Arrived.tx)) \in Seq(PalmFrames)
  BY <1>1, <1>7 DEF PalmSideOK
<1>9. PalmSideOK'
  <2>1. CASE PalmHearsNothing \/ PalmDropsFragment
    BY <1>1, <2>1 DEF PalmHearsNothing, PalmDropsFragment, PalmSideOK
  <2>2. CASE PalmTakesAck
    <3> DEFINE part == palm.out.part + 1
               f == PalmFrame(palm.out.tx, palm.out.msg, part)
               s == Sending(palm.out.tx, palm.out.msg, part)
    <3>0. palm.out.tx \in Nat /\ palm.out.msg \in Payloads /\ part \in Nat
      BY <1>6
    <3>1. /\ f \in PalmFrames
          /\ s \in [unacked : BOOLEAN, tx : Nat, msg : Payloads, part : Nat]
      BY <3>0, PalmFrameType
    <3>2. Append(toHost, f) \in Seq(PalmFrames)
      BY <1>1, <3>1 DEF PalmSideOK
    <3>3. /\ palm' \in {[palm EXCEPT !.out = s], [palm EXCEPT !.out = PalmSilent], palm}
          /\ toHost' \in {Append(toHost, f), toHost}
          /\ device' = device
      BY <2>2 DEF PalmTakesAck
    <3> HIDE DEF f, s
    <3>4. palm' \in PalmStates
      BY <1>6, <3>1, <3>3, PalmAtRest DEF PalmStates
    <3> QED BY <1>1, <3>2, <3>3, <3>4 DEF PalmSideOK
  <2>3. CASE PalmTakesInit
    <3>1. /\ palm' \in {palm, [palm EXCEPT !.mode = "linked", !.in = PalmDeaf,
                                           !.out = PalmSilent]}
          /\ toHost' = Append(toHost, PalmAck(Arrived.tx)) /\ device' = device
      BY <2>3 DEF PalmTakesInit
    <3>2. palm' \in PalmStates
      BY <1>6, <3>1, PalmAtRest DEF PalmStates
    <3> QED BY <1>1, <1>8, <3>1, <3>2 DEF PalmSideOK
  <2>4. CASE PalmTakesFragment
    <3> DEFINE in == [tx |-> Arrived.tx, parts |-> Arrived.offset + 1]
    <3>1. /\ palm' = [palm EXCEPT !.in = in]
          /\ toHost' = Append(toHost, PalmAck(Arrived.tx)) /\ device' = device
      BY <2>4 DEF PalmTakesFragment
    <3>2. in \in [tx : Nat, parts : Nat]
      BY <1>5
    <3> HIDE DEF in
    <3>3. palm' \in PalmStates
      BY <1>6, <3>1, <3>2 DEF PalmStates
    <3> QED BY <1>1, <1>8, <3>1, <3>3 DEF PalmSideOK
  <2>5. CASE PalmExecutes
    <3> DEFINE m == Arrived.msg
    <3>1. CASE m.answer \/ m.cmd = "CmpInit"
      <4>1. /\ palm' = [palm EXCEPT !.in = PalmDeaf] /\ device' = device
            /\ toHost' = Append(toHost, PalmAck(Arrived.tx))
        BY <2>5, <3>1 DEF PalmExecutes
      <4>2. palm' \in PalmStates
        BY <1>6, <4>1, PalmAtRest DEF PalmStates
      <4> QED BY <1>1, <1>8, <4>1, <4>2 DEF PalmSideOK
    <3>2. CASE ~(m.answer \/ m.cmd = "CmpInit") /\ ErrorOf(m) = "refused"
      <4>1. Answered(m, "refused", palm.open) /\ device' = device
        BY <2>5, <3>2 DEF PalmExecutes
      <4>2. toHost' \in Seq(PalmFrames) /\ palm' \in PalmStates
        BY <1>5, <1>6, <4>1, AnsweredType DEF IInv, Errors
      <4> QED BY <1>1, <4>1, <4>2 DEF PalmSideOK
    <3>3. CASE ~(m.answer \/ m.cmd = "CmpInit") /\ ErrorOf(m) # "refused"
      <4>1. Answered(m, ErrorOf(m), OpenAfter(m)) /\ device' = DeviceAfter(m)
        BY <2>5, <3>3 DEF PalmExecutes
      <4>2. DeviceAfter(m) \in Devices /\ OpenAfter(m) \in Images \union {None}
        BY <1>5, <3>3, DeviceType DEF IInv
      <4>3. toHost' \in Seq(PalmFrames) /\ palm' \in PalmStates
        BY <1>5, <4>1, <4>2, AnsweredType, ErrorType DEF IInv
      <4> QED BY <4>1, <4>2, <4>3 DEF PalmSideOK
    <3> QED BY <3>1, <3>2, <3>3
  <2> QED BY <2>1, <2>2, <2>3, <2>4, <2>5 DEF PalmReceives
<1> QED BY <1>2, <1>4, <1>9, PartsKept

\* A Palm that wakes the host changes nothing of the host.
LEMMA WakingKeeps ==
    ASSUME IInv, PalmWakes
    PROVE  IInv'
<1>1. PalmSideOK /\ SpentOK /\ QueueOK
  BY InvariantInParts
<1> DEFINE wake == [NoPayload EXCEPT !.cmd = "CmpWake"]
<1>2. wake \in Payloads
  BY NoPayloadType DEF Payloads, Commands
<1> HIDE DEF wake
<1>3. PICK tx \in WakeTxs : toHost' = <<PalmFrame(tx, wake, 0)>>
  BY DEF PalmWakes, wake
<1>4. tx \in Nat
  BY SessionAssumption, LimitsAssumption
<1>5. PalmFrame(tx, wake, 0) \in PalmFrames
  BY <1>2, <1>4, PalmFrameType
<1>6. PalmSideOK'
  <2>1. toHost' \in Seq(PalmFrames)
    BY <1>3, <1>5
  <2>2. palm' \in PalmStates
    BY <1>1 DEF PalmSideOK, PalmStates, PalmWakes
  <2> QED BY <1>1, <2>1, <2>2 DEF PalmSideOK, PalmWakes
<1>7. SpentOK'
  BY <1>1 DEF SpentOK, PalmWakes
<1>8. QueueOK'
  BY <1>1 DEF QueueOK, PalmWakes
<1> QED BY <1>6, <1>7, <1>8, PartsKept

\* Faults of the line and of the Palm.
LEMMA FaultsKeep ==
    ASSUME IInv, \/ LineLosesToHost \/ LineLosesToPalm \/ PalmRepeats \/ PalmRefuses
                 \/ PalmAsks \/ PalmGivesUp
    PROVE  IInv'
<1>1. PalmSideOK /\ SpentOK /\ QueueOK
  BY InvariantInParts
<1>2. SpentOK'
  BY FaultType DEF IInv, SpentOK, Troubles, LineLosesToHost, LineLosesToPalm, PalmRepeats,
                   PalmRefuses, PalmAsks, PalmGivesUp
<1>3. QueueOK'
  <2>1. CASE LineLosesToHost \/ PalmRepeats \/ PalmAsks \/ PalmGivesUp
    BY <1>1, <2>1 DEF QueueOK, LineLosesToHost, PalmRepeats, PalmAsks, PalmGivesUp
  <2>2. CASE LineLosesToPalm \/ PalmRefuses
    BY <2>2, QueueTaken DEF LineLosesToPalm, PalmRefuses, DataArrived
  <2> QED BY <2>1, <2>2
<1>4. /\ palm.mode \in {"away", "waking", "linked"} /\ palm.named \in BOOLEAN
      /\ palm.out \in [unacked : BOOLEAN, tx : Nat, msg : Payloads, part : Nat]
      /\ palm.in \in [tx : Nat, parts : Nat] /\ palm.open \in Images \union {None}
      /\ palm \in PalmStates
  BY PalmParts DEF IInv
<1>5. PalmSideOK'
  <2>1. CASE LineLosesToHost
    BY <1>1, <2>1 DEF LineLosesToHost, PalmSideOK
  <2>2. CASE LineLosesToPalm
    BY <1>1, <2>2 DEF LineLosesToPalm, PalmSideOK
  <2>3. CASE PalmRepeats
    <3>1. PalmFrame(palm.out.tx, palm.out.msg, palm.out.part) \in PalmFrames
      BY <1>4, PalmFrameType
    <3> QED BY <1>1, <2>3, <3>1 DEF PalmRepeats, PalmSideOK
  <2>4. CASE PalmRefuses
    <3>1. Arrived.tx \in Nat /\ Arrived.msg \in Messages
      BY <2>4, FrameLeaves DEF PalmRefuses, DataArrived, IInv
    <3>2. Answered(Arrived.msg, "refused", palm.open) /\ device' = device
      BY <2>4 DEF PalmRefuses
    <3>3. toHost' \in Seq(PalmFrames) /\ palm' \in PalmStates
      BY <1>4, <3>1, <3>2, AnsweredType DEF IInv, Errors
    <3> QED BY <1>1, <3>2, <3>3 DEF PalmSideOK
  <2>5. CASE PalmAsks
    <3> DEFINE p == [NoPayload EXCEPT !.cmd = "ReadSysInfo"]
               tx == palm.in.tx + 1
               f == PalmFrame(tx, p, 0)
               s == Sending(tx, p, 0)
    <3>1. p \in Payloads /\ tx \in Nat
      BY <1>4, NoPayloadType DEF Payloads, Commands
    <3>2. toHost' = Append(toHost, f) /\ palm' = [palm EXCEPT !.out = s] /\ device' = device
      BY <2>5 DEF PalmAsks
    <3> HIDE DEF p, tx
    <3>3. /\ f \in PalmFrames
          /\ s \in [unacked : BOOLEAN, tx : Nat, msg : Payloads, part : Nat]
      BY <3>1, PalmFrameType
    <3> HIDE DEF f, s
    <3>4. palm' \in PalmStates
      BY <1>4, <3>2, <3>3 DEF PalmStates
    <3> QED BY <1>1, <3>2, <3>3, <3>4 DEF PalmSideOK
  <2>6. CASE PalmGivesUp
    <3> DEFINE f == Frame("abort", 0, NoPayload, 0, TRUE)
    <3>1. f \in PalmFrames
      BY NoPayloadType, FrameType DEF PalmFrames, Kinds
    <3>2. toHost' \in {Append(toHost, f), toHost}
      BY <2>6 DEF PalmGivesUp
    <3> HIDE DEF f
    <3>3. toHost' \in Seq(PalmFrames)
      BY <1>1, <3>1, <3>2 DEF PalmSideOK
    <3>4. palm' \in PalmStates
      BY <1>4, <2>6, PalmAtRest DEF PalmGivesUp, PalmStates
    <3> QED BY <1>1, <2>6, <3>3, <3>4 DEF PalmSideOK, PalmGivesUp
  <2> QED BY <2>1, <2>2, <2>3, <2>4, <2>5, <2>6
<1> QED BY <1>2, <1>3, <1>5, PartsKept

\* A click adds the file to the end of both accounts.
LEMMA ClickKeeps ==
    ASSUME IInv, InstallPrcButton_Click
    PROVE  IInv'
<1>1. PalmSideOK /\ SpentOK /\ QueueOK
  BY InvariantInParts
<1>2. PICK i \in Images : host' = InstallPrcClicked(host, i) /\ accepted' = Append(accepted, i)
  BY DEF InstallPrcButton_Click
<1>3. host' \in Hosts /\ Working(host') /\ Waiting(host') = Waiting(host) \o <<i>>
  BY <1>1, <1>2, FileQueued DEF QueueOK
<1>4. accepted' \in Seq(Images) /\ accepted' = (done \o Waiting(host)) \o <<i>>
  BY <1>1, <1>2 DEF QueueOK
<1>5. Waiting(host) \in Seq(Images)
  <2>1. host.pendingInstalls \in Seq(Images)
        /\ (host.pendingInstall = None \/ host.pendingInstall \in Images)
    BY <1>1 DEF QueueOK, Hosts
  <2>2. CASE host.pendingInstall = None
    <3>1. Waiting(host) = <<>> \o host.pendingInstalls
      BY <2>2 DEF Waiting
    <3> QED BY <2>1, <3>1, ConcatEmptySeq
  <2>3. CASE host.pendingInstall # None
    <3>1. Waiting(host) = <<host.pendingInstall>> \o host.pendingInstalls
      BY <2>3 DEF Waiting
    <3> QED BY <2>1, <2>3, <3>1
  <2> QED BY <2>2, <2>3
<1>6. ASSUME NEW s \in Seq(Images), NEW t \in Seq(Images), NEW u \in Seq(Images)
      PROVE  (s \o t) \o u = s \o (t \o u)
  BY ConcatAssociative
<1>7. <<i>> \in Seq(Images) /\ done \in Seq(Images)
  BY <1>1 DEF QueueOK
<1>8. accepted' = done \o Waiting(host')
  BY <1>3, <1>4, <1>5, <1>6, <1>7
<1>9. QueueOK'
  BY <1>3, <1>4, <1>7, <1>8 DEF QueueOK, InstallPrcButton_Click
<1>10. PalmSideOK' /\ SpentOK'
  BY <1>1 DEF PalmSideOK, SpentOK, InstallPrcButton_Click
<1> QED BY <1>9, <1>10, PartsKept

\* A reset empties both accounts.
LEMMA ResetKeeps ==
    ASSUME IInv, ResetButton_Click
    PROVE  IInv'
<1>1. PalmSideOK /\ SpentOK /\ QueueOK
  BY InvariantInParts
<1> DEFINE g == InstallsForgotten(host)
<1>2. g \in Hosts /\ Working(g) /\ Waiting(g) = <<>>
  BY <1>1, AllForgotten DEF QueueOK
<1>3. host' = [g EXCEPT !.pendingPadp = NotSending, !.rxPadp = NotReceiving, !.uart = <<>>]
  BY DEF ResetButton_Click, WarmReset
<1> HIDE DEF g
<1>4. NotReceiving \in [active : BOOLEAN, tx : Nat, msg : Payloads, parts : Nat]
  BY NoPayloadType DEF NotReceiving
<1>5. NotSending \in [active : BOOLEAN, tx : Nat, msg : Messages, offset : Nat]
  BY NotSendingType DEF Pending
<1>6. host' \in Hosts /\ SameWork(g, host') /\ host'.installState = g.installState
  <2>1. <<>> \in Seq(FramesOf(Messages))
    OBVIOUS
  <2> QED BY <1>2, <1>3, <1>4, <1>5, <2>1 DEF Hosts, SameWork
<1>7. Working(host') /\ Waiting(host') = <<>>
  BY <1>2, <1>6 DEF Working, InPlace, ItemDue, Waiting, SameWork
<1>8. QueueOK'
  BY <1>6, <1>7, QueueEmptied DEF ResetButton_Click
<1>9. PalmSideOK'
  <2>1. palm.named \in BOOLEAN
    BY PalmParts DEF IInv
  <2>2. palm' \in PalmStates
    BY <2>1, PalmAtRest DEF ResetButton_Click, PalmStates
  <2> QED BY <1>1, <2>2 DEF PalmSideOK, ResetButton_Click
<1>10. SpentOK'
  BY FaultType DEF IInv, SpentOK, Troubles, ResetButton_Click
<1> QED BY <1>8, <1>9, <1>10, PartsKept

\* So does restoring a RAM state.
LEMMA RestoreKeeps ==
    ASSUME IInv, RestoreRamState_Click
    PROVE  IInv'
<1>1. PalmSideOK /\ SpentOK /\ QueueOK
  BY InvariantInParts
<1> DEFINE g == InstallsForgotten(host)
<1>2. g \in Hosts /\ Working(g) /\ Waiting(g) = <<>>
  BY <1>1, AllForgotten DEF QueueOK
<1>3. host' = [g EXCEPT !.uart = <<>>]
  BY DEF RestoreRamState_Click
<1> HIDE DEF g
<1>4. host' \in Hosts /\ SameWork(g, host') /\ host'.installState = g.installState
  <2>1. <<>> \in Seq(FramesOf(Messages))
    OBVIOUS
  <2> QED BY <1>2, <1>3, <2>1 DEF Hosts, SameWork
<1>5. Working(host') /\ Waiting(host') = <<>>
  BY <1>2, <1>4 DEF Working, InPlace, ItemDue, Waiting, SameWork
<1>6. QueueOK'
  BY <1>4, <1>5, QueueEmptied DEF RestoreRamState_Click
<1>7. PalmSideOK'
  <2>1. Absent \in [present : BOOLEAN, written : Seq(Parcels)]
    BY DEF Absent
  <2>2. device' \in Devices
    BY <2>1 DEF RestoreRamState_Click, Devices
  <2> QED BY <2>2, PalmAtRest DEF PalmSideOK, RestoreRamState_Click
<1>8. SpentOK'
  BY FaultType DEF IInv, SpentOK, Troubles, RestoreRamState_Click
<1> QED BY <1>6, <1>7, <1>8, PartsKept

\* Nothing changes the invariant when nothing changes.
LEMMA StutterKeeps ==
    ASSUME IInv, UNCHANGED vars
    PROVE  IInv'
<1>1. PalmSideOK /\ SpentOK /\ QueueOK
  BY InvariantInParts
<1>2. PalmSideOK' /\ SpentOK' /\ QueueOK'
  BY <1>1 DEF PalmSideOK, SpentOK, QueueOK, vars
<1> QED BY <1>2, PartsKept

\* Every step keeps the invariant.
LEMMA StepKeeps ==
    ASSUME IInv, [Next]_vars
    PROVE  IInv'
<1>1. CASE Next
  BY <1>1, ReceivingKeeps, AskingKeeps, TakingKeeps, WakingKeeps, FaultsKeep, ClickKeeps,
     ResetKeeps, RestoreKeeps DEF Next, PalmReceives
<1>2. CASE UNCHANGED vars
  BY <1>2, StutterKeeps
<1> QED BY <1>1, <1>2

\* The invariant holds always.
LEMMA InvariantHolds == Spec => []IInv
<1>1. Init => IInv
  BY StartIsRight
<1>2. IInv /\ [Next]_vars => IInv'
  BY StepKeeps
<1> QED BY <1>1, <1>2, PTL DEF Spec

\* Every variable keeps its type: the host's record, both queues of frames, the Palm's side of
\* the session and the histories, through all that gets lost, repeated or broken off.
THEOREM TypeCorrect == Spec => []TypeOK
<1>1. IInv => TypeOK
  BY DEF IInv
<1> QED BY <1>1, InvariantHolds, PTL

\* A queued file leaves the host only by a report that it is installed, in the order of the
\* clicks: no failure, repeated answer or broken session drops one or overtakes another.
\* (PrepareNextPendingInstall, FailInstall, HandleInstallResponse)
THEOREM QueueAlwaysKept == Spec => []QueueKept
<1>1. IInv => QueueKept
  <2> SUFFICES ASSUME IInv PROVE QueueKept
    OBVIOUS
  <2> DEFINE head == IF host.pendingInstall = None THEN <<>> ELSE <<host.pendingInstall>>
  <2>1. QueueOK
    BY InvariantInParts
  <2>2. done \in Seq(Images) /\ host.pendingInstalls \in Seq(Images)
    BY <2>1 DEF QueueOK, Hosts
  <2>3. head \in Seq(Images)
    <3>1. host.pendingInstall = None \/ host.pendingInstall \in Images
      BY <2>1 DEF QueueOK, Hosts
    <3>2. CASE host.pendingInstall = None
      BY <3>2
    <3>3. CASE host.pendingInstall # None
      BY <3>1, <3>3
    <3> QED BY <3>2, <3>3
  <2>4. accepted = done \o (head \o host.pendingInstalls)
    BY <2>1 DEF QueueOK, Waiting
  <2>5. QueueKept <=> accepted = (done \o head) \o host.pendingInstalls
    BY DEF QueueKept
  <2> HIDE DEF head
  <2>6. ASSUME NEW s \in Seq(Images), NEW t \in Seq(Images), NEW u \in Seq(Images)
        PROVE  (s \o t) \o u = s \o (t \o u)
    BY ConcatAssociative
  <2>7. (done \o head) \o host.pendingInstalls = done \o (head \o host.pendingInstalls)
    BY <2>2, <2>3, <2>6
  <2> QED BY <2>4, <2>5, <2>7
<1> QED BY <1>1, InvariantHolds, PTL

\* A host that waits for an answer to an install request has the database it installs, and
\* never counts more items than it has, whichever answers come twice or out of turn: the
\* next item that SendNextInstallItem reads is always there.
THEOREM MidwayAlwaysHasImage == Spec => []MidwayHasImage
<1>1. IInv => MidwayHasImage
  BY DEF IInv, Working, InPlace, MidwayHasImage
<1> QED BY <1>1, InvariantHolds, PTL

----------------------------------------------------------------------------
(* Fragments in step *)

\* A frame that follows another on the line: it starts a message, or continues the other's.
Follows(f, g) == g.offset = 0 \/ (g.tx = f.tx /\ g.offset = f.offset + 1 /\ ~f.last)

\* A frame that continues what was received so far. (Fits, of any such state)
FitsIn(in, f) == f.offset = 0 \/ (f.tx = in.tx /\ f.offset = in.parts)

\* No data among the frames from the m-th to the n-th.
Quiet(q, m, n) == \A k \in m .. n : q[k].kind # "data"

\* Each data frame on the line follows the one before it,
Chained(q) == \A i, j \in 1 .. Len(q) :
    i < j /\ q[i].kind = "data" /\ q[j].kind = "data" /\ Quiet(q, i + 1, j - 1)
    => Follows(q[i], q[j])

\* f follows the last of them,
Continues(q, f) == \A i \in 1 .. Len(q) :
    q[i].kind = "data" /\ Quiet(q, i + 1, Len(q)) => Follows(q[i], f)

\* and the first of them continues what was received.
Opens(q, in) == \A j \in 1 .. Len(q) :
    q[j].kind = "data" /\ Quiet(q, 1, j - 1) => FitsIn(in, q[j])

\* The answer to a wake is one frame.
InitWhole(q) == \A k \in 1 .. Len(q) :
    q[k].kind = "data" /\ q[k].msg.cmd = "CmpInit" => q[k].last
Short(m) == m.cmd = "CmpInit" => m.size <= 1

\* What waits for an acknowledgement goes on from what is on the line, and from what was
\* received when nothing is; on says whether the receiver has heard everything so far.
SendInStep(q, p, on, in) ==
    p.active => /\ Continues(q, p) /\ Short(p.msg)
                /\ on /\ Quiet(q, 1, Len(q)) => FitsIn(in, p)
InStep(h, on, in) == /\ Chained(h.uart) /\ InitWhole(h.uart)
                     /\ on => Opens(h.uart, in)
                     /\ SendInStep(h.uart, h.pendingPadp, on, in)

\* A linked Palm that no frame was lost to has heard everything of its session.
Hearing == palm.mode = "linked" /\ "lost" \notin trouble
FragmentsOK == InStep(host, Hearing, palm.in)

\* What the calls of the host do to the line: whatever a receiver has heard, the frames
\* stay in step.
Carries(h, g) == \A on \in BOOLEAN, in \in [tx : Nat, parts : Nat] :
                     InStep(h, on, in) => InStep(g, on, in)

\* A call that writes no frame and leaves what is being sent alone.
SameLine(h, g) == g.uart = h.uart /\ g.pendingPadp = h.pendingPadp

\* Such a call keeps the line in step.
LEMMA LineKept ==
    ASSUME NEW h, NEW g, SameLine(h, g)
    PROVE  Carries(h, g)
  BY DEF SameLine, Carries, InStep

\* Calls one after the other.
LEMMA CarriedOn ==
    ASSUME NEW h, NEW k, NEW g, Carries(h, k), Carries(k, g)
    PROVE  Carries(h, g)
  BY DEF Carries

\* One element more: the old ones keep their places.
LEMMA Appended ==
    ASSUME NEW S, NEW q \in Seq(S), NEW f \in S
    PROVE  /\ Append(q, f) \in Seq(S) /\ Len(Append(q, f)) = Len(q) + 1 /\ Len(q) \in Nat
           /\ Append(q, f)[Len(q) + 1] = f
           /\ \A k \in 1 .. Len(q) : Append(q, f)[k] = q[k]
  OBVIOUS

\* One element less: the others move up.
LEMMA Dropped ==
    ASSUME NEW S, NEW q \in Seq(S), q # <<>>
    PROVE  /\ Tail(q) \in Seq(S) /\ Len(Tail(q)) \in Nat /\ Len(q) = Len(Tail(q)) + 1
           /\ Head(q) = q[1]
           /\ \A k \in 1 .. Len(Tail(q)) : Tail(q)[k] = q[k + 1]
  OBVIOUS

\* A frame that follows what is on the line keeps the chain.
LEMMA ChainAppended ==
    ASSUME NEW S, NEW q \in Seq(S), NEW f \in S, Chained(q), f.kind = "data" => Continues(q, f)
    PROVE  Chained(Append(q, f))
<1> DEFINE r == Append(q, f)
<1>1. /\ Len(r) = Len(q) + 1 /\ Len(q) \in Nat /\ r[Len(q) + 1] = f
      /\ \A k \in 1 .. Len(q) : r[k] = q[k]
  BY Appended
<1> HIDE DEF r
<1>2. SUFFICES ASSUME NEW i \in 1 .. Len(r), NEW j \in 1 .. Len(r), i < j,
                      r[i].kind = "data", r[j].kind = "data", Quiet(r, i + 1, j - 1)
               PROVE  Follows(r[i], r[j])
  BY DEF Chained, r
<1>3. i \in 1 .. Len(q) /\ r[i] = q[i]
  BY <1>1, <1>2
<1>4. Quiet(q, i + 1, j - 1)
  <2>1. ASSUME NEW k \in i + 1 .. j - 1 PROVE k \in 1 .. Len(q) /\ k \in i + 1 .. j - 1
    BY <1>1, <1>2, <2>1
  <2> QED BY <1>1, <1>2, <2>1 DEF Quiet
<1>5. CASE j \in 1 .. Len(q)
  BY <1>1, <1>2, <1>3, <1>4, <1>5 DEF Chained
<1>6. CASE j = Len(q) + 1
  <2>1. r[j] = f /\ j - 1 = Len(q)
    BY <1>1, <1>6
  <2> QED BY <1>2, <1>3, <1>4, <2>1 DEF Continues
<1> QED BY <1>1, <1>2, <1>5, <1>6

\* After an acknowledgement the send goes on from the same data,
LEMMA AckBetween ==
    ASSUME NEW S, NEW q \in Seq(S), NEW f \in S, f.kind # "data", NEW p, Continues(q, p)
    PROVE  Continues(Append(q, f), p)
<1> DEFINE r == Append(q, f)
<1>1. /\ Len(r) = Len(q) + 1 /\ Len(q) \in Nat /\ r[Len(q) + 1] = f
      /\ \A k \in 1 .. Len(q) : r[k] = q[k]
  BY Appended
<1> HIDE DEF r
<1>2. SUFFICES ASSUME NEW i \in 1 .. Len(r), r[i].kind = "data", Quiet(r, i + 1, Len(r))
               PROVE  Follows(r[i], p)
  BY DEF Continues, r
<1>3. i \in 1 .. Len(q) /\ r[i] = q[i]
  BY <1>1, <1>2
<1>4. Quiet(q, i + 1, Len(q))
  <2>1. ASSUME NEW k \in i + 1 .. Len(q) PROVE k \in 1 .. Len(q) /\ k \in i + 1 .. Len(r)
    BY <1>1, <1>2, <2>1
  <2> QED BY <1>1, <1>2, <2>1 DEF Quiet
<1> QED BY <1>2, <1>3, <1>4 DEF Continues

\* after a fragment from the fragment.
LEMMA DataBehind ==
    ASSUME NEW S, NEW q \in Seq(S), NEW f \in S, f.kind = "data", NEW p, Follows(f, p)
    PROVE  Continues(Append(q, f), p)
<1> DEFINE r == Append(q, f)
<1>1. Len(r) = Len(q) + 1 /\ Len(q) \in Nat /\ r[Len(q) + 1] = f
  BY Appended
<1> HIDE DEF r
<1>2. SUFFICES ASSUME NEW i \in 1 .. Len(r), r[i].kind = "data", Quiet(r, i + 1, Len(r))
               PROVE  Follows(r[i], p)
  BY DEF Continues, r
<1>3. i = Len(r)
  <2>1. CASE i < Len(r)
    <3>1. Len(r) \in i + 1 .. Len(r)
      BY <1>1, <1>2, <2>1
    <3> QED BY <1>1, <1>2, <3>1 DEF Quiet
  <2> QED BY <1>1, <1>2, <2>1
<1> QED BY <1>1, <1>3

\* Quiet lines and first frames, with one frame more.
LEMMA QuietAppended ==
    ASSUME NEW S, NEW q \in Seq(S), NEW f \in S
    PROVE  Quiet(Append(q, f), 1, Len(Append(q, f)))
           <=> Quiet(q, 1, Len(q)) /\ f.kind # "data"
<1> DEFINE r == Append(q, f)
<1>1. /\ Len(r) = Len(q) + 1 /\ Len(q) \in Nat /\ r[Len(q) + 1] = f
      /\ \A k \in 1 .. Len(q) : r[k] = q[k]
  BY Appended
<1> HIDE DEF r
<1>2. \A k \in 1 .. Len(r) : k \in 1 .. Len(q) \/ k = Len(q) + 1
  BY <1>1
<1>3. (\A k \in 1 .. Len(q) : k \in 1 .. Len(r)) /\ Len(q) + 1 \in 1 .. Len(r)
  BY <1>1
<1>4. Quiet(r, 1, Len(r)) <=> Quiet(q, 1, Len(q)) /\ f.kind # "data"
  BY <1>1, <1>2, <1>3 DEF Quiet
<1> QED BY <1>4 DEF r

\* A frame that fits when it is the first keeps what the receiver waits for.
LEMMA OpensAppended ==
    ASSUME NEW S, NEW q \in Seq(S), NEW f \in S, NEW in, Opens(q, in),
           f.kind = "data" /\ Quiet(q, 1, Len(q)) => FitsIn(in, f)
    PROVE  Opens(Append(q, f), in)
<1> DEFINE r == Append(q, f)
<1>1. /\ Len(r) = Len(q) + 1 /\ Len(q) \in Nat /\ r[Len(q) + 1] = f
      /\ \A k \in 1 .. Len(q) : r[k] = q[k]
  BY Appended
<1> HIDE DEF r
<1>2. SUFFICES ASSUME NEW j \in 1 .. Len(r), r[j].kind = "data", Quiet(r, 1, j - 1)
               PROVE  FitsIn(in, r[j])
  BY DEF Opens, r
<1>3. Quiet(q, 1, j - 1)
  <2>1. ASSUME NEW k \in 1 .. j - 1 PROVE k \in 1 .. Len(q)
    BY <1>1, <1>2, <2>1
  <2> QED BY <1>1, <1>2, <2>1 DEF Quiet
<1>4. CASE j \in 1 .. Len(q)
  BY <1>1, <1>2, <1>3, <1>4 DEF Opens
<1>5. CASE j = Len(q) + 1
  <2>1. r[j] = f /\ j - 1 = Len(q)
    BY <1>1, <1>5
  <2> QED BY <1>2, <1>3, <2>1
<1> QED BY <1>1, <1>2, <1>4, <1>5

\* Whole answers to wakes, with one frame more.
LEMMA InitAppended ==
    ASSUME NEW S, NEW q \in Seq(S), NEW f \in S, InitWhole(q),
           f.kind = "data" /\ f.msg.cmd = "CmpInit" => f.last
    PROVE  InitWhole(Append(q, f))
<1> DEFINE r == Append(q, f)
<1>1. /\ Len(r) = Len(q) + 1 /\ Len(q) \in Nat /\ r[Len(q) + 1] = f
      /\ \A k \in 1 .. Len(q) : r[k] = q[k]
  BY Appended
<1> HIDE DEF r
<1>2. \A k \in 1 .. Len(r) : k \in 1 .. Len(q) \/ k = Len(q) + 1
  BY <1>1
<1>3. InitWhole(r)
  BY <1>1, <1>2 DEF InitWhole
<1> QED BY <1>3 DEF r

----------------------------------------------------------------------------
(* The host's calls *)

\* A fragment is sent, and what is left of the message follows it.
LEMMA FragmentCarries ==
    ASSUME NEW h \in Hosts
    PROVE  Carries(h, SendNextPadpFragment(h))
<1>1. CASE ~h.pendingPadp.active
  BY <1>1, LineKept DEF SendNextPadpFragment, SameLine
<1>2. CASE h.pendingPadp.active
  <2> DEFINE p == h.pendingPadp
             end == p.offset + 1 >= Chunks(p.msg.size)
             f == Frame("data", p.tx, p.msg, p.offset, end)
             n == IF end THEN NotSending ELSE [p EXCEPT !.offset = @ + 1]
             g == SendNextPadpFragment(h)
  <2>0. p \in Pending /\ h.uart \in Seq(FramesOf(Messages))
    BY DEF Hosts, Pending
  <2>1. p.offset \in Nat /\ p.msg \in Messages /\ p.tx \in Nat /\ p.msg.size \in Nat
    BY <2>0 DEF Pending, Messages
  <2>2. end \in BOOLEAN
    BY DEF end
  <2>3. p.msg.size <= 1 => end
    BY <2>1 DEF Chunks
  <2>4. /\ f \in FramesOf(Messages) /\ f.kind = "data" /\ f.tx = p.tx /\ f.msg = p.msg
        /\ f.offset = p.offset /\ f.last = end
    <3> HIDE DEF end
    <3>1. f \in FramesOf(Messages)
      BY <2>1, <2>2, FrameType DEF Kinds
    <3> QED BY <3>1 DEF Frame
  <2>5. n.active => Follows(f, n) /\ n.msg = p.msg
    <3>1. CASE end
      BY <3>1 DEF NotSending
    <3>2. CASE ~end
      <4>1. n = [p EXCEPT !.offset = p.offset + 1]
        BY <3>2
      <4>2. n.tx = p.tx /\ n.offset = p.offset + 1 /\ n.msg = p.msg
        BY <2>0, <4>1 DEF Pending
      <4> HIDE DEF n, f, p
      <4> QED BY <2>4, <3>2, <4>2 DEF Follows
    <3> QED BY <3>1, <3>2
  <2>6. g = [h EXCEPT !.uart = Append(@, f), !.pendingPadp = n]
    <3>1. g = IF ~h.pendingPadp.active THEN h
              ELSE [h EXCEPT !.uart = Append(@, f), !.pendingPadp = n]
      BY DEF SendNextPadpFragment
    <3> HIDE DEF f, n, p, g
    <3> QED BY <3>1, <1>2
  <2>7. g.uart = Append(h.uart, f) /\ g.pendingPadp = n
    <3> HIDE DEF f, n, g, end
    <3> QED BY <2>6 DEF Hosts
  <2> SUFFICES ASSUME NEW on \in BOOLEAN, NEW in \in [tx : Nat, parts : Nat],
                      InStep(h, on, in)
               PROVE  InStep(g, on, in)
    BY DEF Carries
  <2>8. /\ Chained(h.uart) /\ InitWhole(h.uart) /\ (on => Opens(h.uart, in))
        /\ Continues(h.uart, p) /\ Short(p.msg)
        /\ on /\ Quiet(h.uart, 1, Len(h.uart)) => FitsIn(in, p)
    BY <1>2 DEF InStep, SendInStep
  <2> HIDE DEF f, n, g, end, p
  <2>9. Continues(h.uart, f)
    BY <2>4, <2>8 DEF Continues, Follows
  <2>10. Chained(Append(h.uart, f))
    BY <2>0, <2>4, <2>8, <2>9, ChainAppended
  <2>11. InitWhole(Append(h.uart, f))
    BY <2>0, <2>3, <2>4, <2>8, InitAppended DEF Short
  <2>12. on => Opens(Append(h.uart, f), in)
    <3>1. ASSUME on, Quiet(h.uart, 1, Len(h.uart)) PROVE FitsIn(in, f)
      BY <2>4, <2>8, <3>1 DEF FitsIn
    <3> QED BY <2>0, <2>4, <2>8, <3>1, OpensAppended
  <2>13. SendInStep(Append(h.uart, f), n, on, in)
    <3>1. ~Quiet(Append(h.uart, f), 1, Len(Append(h.uart, f)))
      BY <2>0, <2>4, QuietAppended
    <3>2. n.active => Continues(Append(h.uart, f), n)
      BY <2>0, <2>4, <2>5, DataBehind
    <3> QED BY <2>5, <2>8, <3>1, <3>2 DEF SendInStep
  <2> QED BY <2>7, <2>10, <2>11, <2>12, <2>13 DEF InStep
<1> QED BY <1>1, <1>2

\* A frame that is whole is written, and the send goes on behind it or is over.
LEMMA FrameCarries ==
    ASSUME NEW h \in Hosts, NEW g, NEW f \in FramesOf(Messages), f.offset = 0,
           f.msg.cmd = "CmpInit" => f.last, g.uart = Append(h.uart, f),
           g.pendingPadp = h.pendingPadp, f.kind = "data" => ~h.pendingPadp.active
    PROVE  Carries(h, g)
<1> DEFINE q == h.uart
           p == h.pendingPadp
<1>0. q \in Seq(FramesOf(Messages))
  BY DEF Hosts
<1> SUFFICES ASSUME NEW on \in BOOLEAN, NEW in \in [tx : Nat, parts : Nat], InStep(h, on, in)
             PROVE  InStep(g, on, in)
  BY DEF Carries
<1>1. Chained(q) /\ InitWhole(q) /\ (on => Opens(q, in)) /\ SendInStep(q, p, on, in)
  BY DEF InStep
<1> HIDE DEF q, p
<1>2. Continues(q, f)
  BY DEF Continues, Follows
<1>3. Chained(Append(q, f))
  BY <1>0, <1>1, <1>2, ChainAppended
<1>4. InitWhole(Append(q, f))
  BY <1>0, <1>1, InitAppended
<1>5. on => Opens(Append(q, f), in)
  BY <1>0, <1>1, OpensAppended DEF FitsIn
<1>6. SendInStep(Append(q, f), p, on, in)
  <2>1. ASSUME p.active PROVE Continues(Append(q, f), p)
    BY <1>0, <1>1, <2>1, AckBetween DEF SendInStep, p
  <2>2. Quiet(Append(q, f), 1, Len(Append(q, f))) => Quiet(q, 1, Len(q))
    BY <1>0, QuietAppended
  <2> QED BY <1>1, <2>1, <2>2 DEF SendInStep
<1> QED BY <1>3, <1>4, <1>5, <1>6 DEF InStep, q, p

\* A failure leaves the line alone.
LEMMA FailureCarries ==
    ASSUME NEW h \in Hosts
    PROVE  Carries(h, FailInstall(h)) /\ Carries(h, h)
<1>1. SameLine(h, FailInstall(h)) /\ SameLine(h, h)
  BY DEF FailInstall, SameLine, Hosts
<1> QED BY <1>1, LineKept

\* SendPadpData starts a message with its first fragment, or fails the install.
LEMMA DataCarries ==
    ASSUME NEW h \in Hosts, NEW tx \in Nat, NEW msg \in Messages, Short(msg)
    PROVE  Carries(h, SendPadpData(h, tx, msg))
<1> DEFINE p == [active |-> TRUE, tx |-> tx, msg |-> msg, offset |-> 0]
           g == [h EXCEPT !.pendingPadp = p]
<1>1. Carries(h, FailInstall(h))
  BY FailureCarries
<1>2. g \in Hosts /\ g.pendingPadp = p /\ g.uart = h.uart
  BY DEF Hosts
<1>3. Carries(h, g)
  <2>1. p.offset = 0 /\ p.msg = msg
    OBVIOUS
  <2> HIDE DEF g, p
  <2>2. \A on, in : SendInStep(h.uart, p, on, in)
    BY <2>1 DEF SendInStep, Continues, Follows, FitsIn
  <2> QED BY <1>2, <2>2 DEF Carries, InStep
<1>4. SendPadpData(h, tx, msg) \in {FailInstall(h), SendNextPadpFragment(g)}
  BY DEF SendPadpData
<1> HIDE DEF g
<1>5. Carries(h, SendNextPadpFragment(g))
  BY <1>2, <1>3, FragmentCarries, CarriedOn
<1> QED BY <1>1, <1>4, <1>5

\* A message under the host's own number.
LEMMA OwnCarries ==
    ASSUME NEW h \in Hosts, NEW msg \in Messages, Short(msg)
    PROVE  Carries(h, SendOwn(h, msg))
<1> DEFINE sent == SendPadpData(h, h.hostPadpTxId, msg)
<1>1. h.hostPadpTxId \in Nat
  BY DEF Hosts
<1>2. Carries(h, sent) /\ sent \in Hosts
  BY <1>1, DataCarries, DataSent DEF Sends
<1>3. SendOwn(h, msg) = [sent EXCEPT !.hostPadpTxId = NextPadpTxId(@)]
  BY DEF SendOwn
<1> HIDE DEF sent
<1>4. SameLine(sent, SendOwn(h, msg))
  BY <1>2, <1>3 DEF SameLine, Hosts
<1> QED BY <1>2, <1>4, LineKept, CarriedOn

\* A request of the host is no answer to a wake, so its length is free.
LEMMA RequestCarries ==
    ASSUME NEW h \in Hosts, NEW cmd \in Commands, NEW item \in Nat, NEW size \in Nat,
           cmd # "CmpInit"
    PROVE  Carries(h, SendDlpRequestWithArg(h, cmd, item, size))
<1> DEFINE msg == Message(cmd, h.pendingInstall, item, h.installDbId, size, FALSE)
<1>1. msg \in Messages
  BY MessageType DEF Hosts
<1>2. Short(msg)
  BY DEF Short, Message
<1>3. Carries(h, FailInstall(h))
  BY FailureCarries
<1>4. SendDlpRequestWithArg(h, cmd, item, size) \in {FailInstall(h), SendOwn(h, msg)}
  BY DEF SendDlpRequestWithArg
<1> HIDE DEF msg
<1> QED BY <1>1, <1>2, <1>3, <1>4, OwnCarries

\* A caller that sets the state after the request leaves the line alone.
LEMMA StateCarries ==
    ASSUME NEW h, NEW g \in Hosts, Carries(h, g), NEW k, NEW state,
           k = [g EXCEPT !.installState = state]
    PROVE  Carries(h, k)
<1>1. SameLine(g, k)
  BY DEF SameLine, Hosts
<1> QED BY <1>1, LineKept, CarriedOn

\* The requests that the user's information takes.
LEMMA UserInfoCarries ==
    ASSUME NEW h \in Hosts
    PROVE  Carries(h, SendDlpReadUserInfo(h)) /\ Carries(h, SendDlpWriteUserInfo(h))
<1> DEFINE g == [h EXCEPT !.dlpReadUserInfoQueued = FALSE, !.dlpReadUserInfoSent = TRUE]
           k == [h EXCEPT !.dlpWriteUserInfoSent = TRUE]
           read == Message("ReadUserInfo", None, 0, 0, 1, FALSE)
           write == Message("WriteUserInfo", None, 0, 0, 1, FALSE)
<1>1. g \in Hosts /\ SameLine(h, g) /\ k \in Hosts /\ SameLine(h, k)
  BY DEF Hosts, SameLine
<1>2. read \in Messages /\ write \in Messages
  BY MessageType DEF Commands
<1>3. Short(read) /\ Short(write)
  BY DEF Short, Message
<1>4. SendDlpReadUserInfo(h) = SendOwn(g, read) /\ SendDlpWriteUserInfo(h) = SendOwn(k, write)
  BY DEF SendDlpReadUserInfo, SendDlpWriteUserInfo
<1> HIDE DEF g, k, read, write
<1>5. Carries(h, g) /\ Carries(h, k)
  BY <1>1, LineKept
<1>6. Carries(g, SendOwn(g, read)) /\ Carries(k, SendOwn(k, write))
  BY <1>1, <1>2, <1>3, OwnCarries
<1> QED BY <1>4, <1>5, <1>6, CarriedOn

\* The requests that start and end an install.
LEMMA DatabaseCarries ==
    ASSUME NEW h \in Hosts
    PROVE  /\ Carries(h, SendDlpDeleteDb(h)) /\ Carries(h, SendDlpCreateDb(h))
           /\ Carries(h, SendDlpCloseDb(h)) /\ Carries(h, SendDlpEndOfSync(h))
<1> DEFINE sent(cmd) == SendDlpRequestWithArg(h, cmd, 0, 1)
<1>1. ASSUME NEW cmd \in {"DeleteDB", "CreateDB", "CloseDB", "EndOfSync"}
      PROVE  Carries(h, sent(cmd)) /\ sent(cmd) \in Hosts
  <2>1. cmd \in Commands /\ cmd # "CmpInit"
    BY DEF Commands
  <2> QED BY <2>1, RequestCarries, RequestSent DEF Sends
<1>2. /\ SendDlpDeleteDb(h) = [sent("DeleteDB") EXCEPT !.installState = "DeleteSent"]
      /\ SendDlpCreateDb(h) = [sent("CreateDB") EXCEPT !.installState = "CreateSent"]
      /\ SendDlpCloseDb(h) = [sent("CloseDB") EXCEPT !.installState = "CloseSent"]
      /\ SendDlpEndOfSync(h) = [sent("EndOfSync") EXCEPT !.installState = "EndSent"]
  BY DEF SendDlpDeleteDb, SendDlpCreateDb, SendDlpCloseDb, SendDlpEndOfSync
<1> HIDE DEF sent
<1> QED BY <1>1, <1>2, StateCarries

\* A block of an install.
LEMMA BlockCarries ==
    ASSUME NEW h \in Hosts, NEW cmd \in Commands, NEW size \in Nat, cmd # "CmpInit"
    PROVE  Carries(h, SendDlpWriteBlock(h, cmd, size))
<1>1. SendDlpWriteBlock(h, cmd, size)
          \in {FailInstall(h), SendDlpRequestWithArg(h, cmd, 0, size)}
  BY DEF SendDlpWriteBlock
<1>2. Carries(h, FailInstall(h))
  BY FailureCarries
<1> QED BY <1>1, <1>2, RequestCarries

\* An item of an install.
LEMMA ItemCarries ==
    ASSUME NEW h \in Hosts, h.pendingInstall \in Images, ItemDue(h)
    PROVE  Carries(h, SendNextItem(h))
<1> DEFINE item == h.installResourceIndex + 1
           size == Info[h.pendingInstall].items[item]
           sent == SendDlpRequestWithArg(h, WriteCommand(h.pendingInstall), item, size)
<1>1. item \in Nat
  BY DEF Hosts
<1>2. item \in 1 .. Len(Info[h.pendingInstall].items)
  BY InfoType DEF Hosts, ItemDue
<1>3. size \in Nat
  BY <1>2, InfoType
<1>4. WriteCommand(h.pendingInstall) \in Commands /\ WriteCommand(h.pendingInstall) # "CmpInit"
  BY DEF WriteCommand, Commands
<1>5. SendNextItem(h)
          \in {FailInstall(h), [sent EXCEPT !.installState = "WritingResource"]}
  BY DEF SendNextItem
<1> HIDE DEF item, size
<1>6. Carries(h, sent) /\ sent \in Hosts
  BY <1>1, <1>3, <1>4, RequestCarries, RequestSent DEF Sends
<1>7. Carries(h, FailInstall(h))
  BY FailureCarries
<1> HIDE DEF sent
<1>8. Carries(h, [sent EXCEPT !.installState = "WritingResource"])
  BY <1>6, StateCarries
<1> QED BY <1>5, <1>7, <1>8

\* Whatever is due next.
LEMMA NextItemCarries ==
    ASSUME NEW h \in Hosts, h.pendingInstall \in Images
    PROVE  Carries(h, SendNextInstallItem(h))
<1>1. CASE AppBlockDue(h)
  <2> DEFINE sent == SendDlpWriteBlock(h, "WriteAppBlock", Info[h.pendingInstall].app)
  <2>1. Carries(h, sent) /\ sent \in Hosts
    BY BlockCarries, BlockSent, InfoType DEF Commands, Sends
  <2>2. SendNextInstallItem(h) = [sent EXCEPT !.installState = "AppBlockSent"]
    BY <1>1 DEF SendNextInstallItem
  <2> HIDE DEF sent
  <2> QED BY <2>1, <2>2, StateCarries
<1>2. CASE ~AppBlockDue(h) /\ SortBlockDue(h)
  <2> DEFINE sent == SendDlpWriteBlock(h, "WriteSortBlock", Info[h.pendingInstall].sort)
  <2>1. Carries(h, sent) /\ sent \in Hosts
    BY BlockCarries, BlockSent, InfoType DEF Commands, Sends
  <2>2. SendNextInstallItem(h) = [sent EXCEPT !.installState = "SortBlockSent"]
    BY <1>2 DEF SendNextInstallItem
  <2> HIDE DEF sent
  <2> QED BY <2>1, <2>2, StateCarries
<1>3. CASE ~AppBlockDue(h) /\ ~SortBlockDue(h) /\ ItemDue(h)
  BY <1>3, ItemCarries DEF SendNextInstallItem
<1>4. CASE ~AppBlockDue(h) /\ ~SortBlockDue(h) /\ ~ItemDue(h)
  BY <1>4, DatabaseCarries DEF SendNextInstallItem
<1> QED BY <1>1, <1>2, <1>3, <1>4

\* Taking up the next file writes nothing.
LEMMA PreparingCarries ==
    ASSUME NEW h \in Hosts
    PROVE  SameLine(h, PrepareNextPendingInstall(h))
  BY DEF PrepareNextPendingInstall, SameLine, Hosts

\* An install that starts, or a sync that ends.
LEMMA StartingCarries ==
    ASSUME NEW h \in Hosts
    PROVE  Carries(h, StartInstall(h))
  BY DatabaseCarries DEF StartInstall

\* The work of a session begins.
LEMMA BeginningCarries ==
    ASSUME NEW h \in Hosts, InPlace(h)
    PROVE  Carries(h, BeginHotSyncWork(h))
<1> DEFINE k == PrepareNextPendingInstall(h)
<1>1. k \in Hosts /\ SameLine(h, k)
  BY PreparingCarries, NextPrepared
<1>2. BeginHotSyncWork(h) \in {h, StartInstall(k)}
  BY DEF BeginHotSyncWork
<1> HIDE DEF k
<1>3. Carries(h, h) /\ Carries(h, StartInstall(k))
  BY <1>1, StartingCarries, LineKept, CarriedOn DEF SameLine
<1> QED BY <1>2, <1>3

\* The answer that an install waits for.
LEMMA AdvancingCarries ==
    ASSUME NEW h \in Hosts, Working(h), NEW p \in Payloads,
           h.installState \in Midway \union {"EndSent"}
    PROVE  Carries(h, Advance(h, p))
<1> DEFINE g == Advance(h, p)
<1>0. h.installState \in Midway => h.pendingInstall \in Images
  BY DEF Hosts, Working
<1>1. CASE h.installState = "DeleteSent"
  BY <1>1, DatabaseCarries DEF Advance
<1>2. CASE h.installState = "CreateSent"
  <2> DEFINE k == [h EXCEPT !.installDbId = p.db, !.installResourceIndex = 0]
  <2>1. g = SendNextInstallItem(k)
    BY <1>2 DEF Advance
  <2>2. k \in Hosts /\ k.pendingInstall = h.pendingInstall /\ SameLine(h, k)
    BY DEF Hosts, Payloads, SameLine
  <2> HIDE DEF k, g
  <2>3. Carries(h, g)
    BY <1>0, <1>2, <2>1, <2>2, NextItemCarries, LineKept, CarriedOn DEF Midway
  <2> QED BY <2>3 DEF g
<1>3. CASE h.installState = "AppBlockSent"
  <2> DEFINE k == [h EXCEPT !.installAppBlockDone = TRUE]
  <2>1. g = SendNextInstallItem(k)
    BY <1>3 DEF Advance
  <2>2. k \in Hosts /\ k.pendingInstall = h.pendingInstall /\ SameLine(h, k)
    BY DEF Hosts, SameLine
  <2> HIDE DEF k, g
  <2>3. Carries(h, g)
    BY <1>0, <1>3, <2>1, <2>2, NextItemCarries, LineKept, CarriedOn DEF Midway
  <2> QED BY <2>3 DEF g
<1>4. CASE h.installState = "SortBlockSent"
  <2> DEFINE k == [h EXCEPT !.installSortBlockDone = TRUE]
  <2>1. g = SendNextInstallItem(k)
    BY <1>4 DEF Advance
  <2>2. k \in Hosts /\ k.pendingInstall = h.pendingInstall /\ SameLine(h, k)
    BY DEF Hosts, SameLine
  <2> HIDE DEF k, g
  <2>3. Carries(h, g)
    BY <1>0, <1>4, <2>1, <2>2, NextItemCarries, LineKept, CarriedOn DEF Midway
  <2> QED BY <2>3 DEF g
<1>5. CASE h.installState = "WritingResource"
  <2> DEFINE k == [h EXCEPT !.installResourceIndex = @ + 1]
  <2>1. g = SendNextInstallItem(k)
    BY <1>5 DEF Advance
  <2>2. h.installResourceIndex \in Nat /\ h.installResourceIndex + 1 \in Nat
    BY DEF Hosts
  <2>3. k \in Hosts /\ k.pendingInstall = h.pendingInstall /\ SameLine(h, k)
    BY <2>2 DEF Hosts, SameLine
  <2> HIDE DEF k, g
  <2>4. Carries(h, g)
    BY <1>0, <1>5, <2>1, <2>3, NextItemCarries, LineKept, CarriedOn DEF Midway
  <2> QED BY <2>4 DEF g
<1>6. CASE h.installState = "CloseSent"
  <2> DEFINE k == [h EXCEPT !.pendingInstall = None, !.installState = "Idle"]
             n == PrepareNextPendingInstall(k)
  <2>1. k \in Hosts /\ InPlace(k) /\ SameLine(h, k)
    BY DEF Hosts, InPlace, InstallStates, SameLine
  <2>2. g = StartInstall(n)
    BY <1>6 DEF Advance
  <2> HIDE DEF k, g
  <2>3. n \in Hosts /\ SameLine(k, n)
    BY <2>1, NextPrepared, PreparingCarries
  <2> HIDE DEF n
  <2>4. Carries(h, k) /\ Carries(k, n) /\ Carries(n, g)
    BY <2>1, <2>2, <2>3, LineKept, StartingCarries
  <2>5. Carries(h, g)
    BY <2>4, CarriedOn
  <2> QED BY <2>5 DEF g
<1>7. CASE h.installState = "EndSent"
  <2>1. g = [h EXCEPT !.installState = "Done"]
    BY <1>7 DEF Advance
  <2>2. SameLine(h, g)
    BY <2>1 DEF SameLine, Hosts
  <2> QED BY <2>2, LineKept
<1> QED BY <1>1, <1>2, <1>3, <1>4, <1>5, <1>6, <1>7 DEF Midway

\* A complete message of the Palm.
LEMMA PayloadCarries ==
    ASSUME NEW h \in Hosts, Working(h), NEW tx \in Nat, NEW p \in Payloads
    PROVE  Carries(h, HandleDlpPayload(h, tx, p))
<1> DEFINE g == HandleDlpPayload(h, tx, p)
           msg == Message(p.cmd, None, 0, 0, 1, TRUE)
<1>1. msg \in Messages
  BY MessageType DEF Payloads
<1>2. Short(msg)
  BY DEF Short, Message
<1>3. \/ g \in {SendPadpData(h, tx, msg), h, BeginHotSyncWork(h), SendDlpWriteUserInfo(h)}
      \/ g = HandleInstallResponse(h, p)
  BY DEF HandleDlpPayload
<1>4. HandleInstallResponse(h, p) \in {h, FailInstall(h)}
      \/ (/\ HandleInstallResponse(h, p) = Advance(h, p)
          /\ h.installState \in Midway \union {"EndSent"})
  BY DEF HandleInstallResponse
<1>5. Carries(h, h) /\ Carries(h, FailInstall(h))
  BY FailureCarries
<1> HIDE DEF g, msg
<1>6. Carries(h, SendPadpData(h, tx, msg))
  BY <1>1, <1>2, DataCarries
<1>7. Carries(h, g)
  BY <1>3, <1>4, <1>5, <1>6, BeginningCarries, UserInfoCarries, AdvancingCarries DEF Working
<1> QED BY <1>7 DEF g

\* A fragment of the Palm.
LEMMA PalmDataCarries ==
    ASSUME NEW h \in Hosts, Working(h), NEW f \in PalmFrames
    PROVE  Carries(h, HandlePadpDataFragment(h, f))
<1> DEFINE whole == IF f.offset = 0 THEN f.msg ELSE h.rxPadp.msg
           more == [active |-> TRUE, tx |-> f.tx, msg |-> whole, parts |-> f.offset + 1]
           kept == [h EXCEPT !.rxPadp = more]
           reset == [h EXCEPT !.rxPadp = NotReceiving]
           g == HandlePadpDataFragment(h, f)
<1>1. f.tx \in Nat /\ f.msg \in Payloads /\ f.offset \in Nat
  BY DEF PalmFrames, FramesOf
<1>2. whole \in Payloads
  BY <1>1 DEF Hosts
<1>3. g \in {kept, reset, HandleDlpPayload(reset, f.tx, whole)}
  BY DEF HandlePadpDataFragment
<1> HIDE DEF g, whole
<1>4. NotReceiving \in [active : BOOLEAN, tx : Nat, msg : Payloads, parts : Nat]
  BY NoPayloadType DEF NotReceiving
<1> HIDE DEF more
<1>5. SameLine(h, kept)
  BY DEF Hosts, SameLine
<1>6. /\ reset \in Hosts /\ SameLine(h, reset)
      /\ SameWork(h, reset) /\ reset.installState = h.installState
  BY <1>4 DEF Hosts, SameLine, SameWork
<1> HIDE DEF kept, reset
<1>7. Working(reset)
  BY <1>6, StaysAfter
<1>8. Carries(h, kept) /\ Carries(h, reset)
  BY <1>5, <1>6, LineKept
<1>9. Carries(h, HandleDlpPayload(reset, f.tx, whole))
  BY <1>1, <1>2, <1>6, <1>7, <1>8, PayloadCarries, CarriedOn
<1>10. Carries(h, g)
  BY <1>3, <1>8, <1>9
<1> QED BY <1>10 DEF g

\* A send that is given up leaves the line in step.
LEMMA SilenceCarries ==
    ASSUME NEW h, NEW g, g.uart = h.uart, g.pendingPadp = NotSending
    PROVE  Carries(h, g)
  BY DEF Carries, InStep, SendInStep, NotSending

\* Whatever frame comes.
LEMMA PalmFrameCarries ==
    ASSUME NEW h \in Hosts, Working(h), NEW f \in PalmFrames
    PROVE  Carries(h, HandlePalmSlpFrame(h, f))
<1> DEFINE g == HandlePalmSlpFrame(h, f)
<1>1. f.kind \in {"data", "ack", "abort"} /\ f.tx \in Nat
  BY DEF PalmFrames, FramesOf, Kinds
<1>2. CASE f.kind = "abort"
  <2>1. g = [h EXCEPT !.pendingPadp = NotSending, !.rxPadp = NotReceiving]
    BY <1>2 DEF HandlePalmSlpFrame
  <2>2. g.uart = h.uart /\ g.pendingPadp = NotSending
    BY <2>1 DEF Hosts
  <2> QED BY <2>2, SilenceCarries
<1>3. CASE f.kind = "ack"
  <2> DEFINE q == [h EXCEPT !.dlpReadUserInfoQueued = TRUE]
  <2>1. g \in {h, q, SendNextPadpFragment(h)}
    BY <1>3 DEF HandlePalmSlpFrame, HandleAck
  <2>2. SameLine(h, h) /\ SameLine(h, q)
    BY DEF SameLine, Hosts
  <2> HIDE DEF g, q
  <2>3. Carries(h, g)
    BY <2>1, <2>2, LineKept, FragmentCarries
  <2> QED BY <2>3 DEF g
<1>4. CASE f.kind = "data"
  <2> DEFINE k == SendPadpAck(h, f.tx)
             a == Frame("ack", f.tx, NoMessage, 0, TRUE)
  <2>1. k \in Hosts /\ SameWork(h, k) /\ k.installState = h.installState
    BY <1>1, AckSent
  <2>2. g \in {SendCmpInit(Woken(k), f.tx), HandlePadpDataFragment(k, f)}
    BY <1>4 DEF HandlePalmSlpFrame
  <2>3. /\ a \in FramesOf(Messages) /\ a.offset = 0 /\ a.last /\ a.kind = "ack"
    <3>1. a \in FramesOf(Messages)
      BY <1>1, NoMessageType, FrameType DEF Kinds
    <3> QED BY <3>1 DEF Frame
  <2>4. k = [h EXCEPT !.uart = Append(@, a)]
    BY DEF SendPadpAck
  <2> HIDE DEF k, g, a
  <2>5. k.uart = Append(h.uart, a) /\ k.pendingPadp = h.pendingPadp
    BY <2>4 DEF Hosts
  <2>6. Carries(h, k)
    BY <2>3, <2>5, FrameCarries
  <2>7. Working(k)
    BY <2>1, StaysAfter
  <2>8. Carries(h, HandlePadpDataFragment(k, f))
    BY <2>1, <2>6, <2>7, PalmDataCarries, CarriedOn
  <2>9. Carries(h, SendCmpInit(Woken(k), f.tx))
    <3> DEFINE w == Woken(k)
               n == SendCmpInit(w, f.tx)
               t == IF f.tx >= TxMax THEN 2 ELSE f.tx + 2
               init == Message("CmpInit", None, 0, 0, 1, FALSE)
               i == Frame("data", t, init, 0, TRUE)
    <3>1. w.uart = k.uart /\ w.pendingPadp = NotSending
      BY <2>1 DEF Woken, Hosts
    <3>2. w \in Hosts
      BY <2>1, <2>7, WakeStays DEF Stays
    <3>3. t \in Nat
      BY <1>1, LimitsAssumption
    <3>4. init \in Messages
      BY MessageType DEF Commands
    <3>5. n = [w EXCEPT !.cmpInitTxId = t, !.hostPadpTxId = NextPadpTxId(t),
                        !.uart = Append(@, i)]
      BY DEF SendCmpInit
    <3> HIDE DEF t, init, w, n
    <3>6. i \in FramesOf(Messages) /\ i.offset = 0 /\ i.last
      <4>1. i \in FramesOf(Messages)
        BY <3>3, <3>4, FrameType DEF Kinds
      <4> QED BY <4>1 DEF Frame
    <3> HIDE DEF i
    <3>7. n.uart = Append(w.uart, i) /\ n.pendingPadp = w.pendingPadp
      BY <3>2, <3>5 DEF Hosts
    <3>8. Carries(k, w)
      BY <3>1, SilenceCarries
    <3>9. Carries(w, n)
      BY <3>1, <3>2, <3>6, <3>7, FrameCarries DEF NotSending
    <3>10. Carries(h, n)
      BY <2>6, <3>8, <3>9, CarriedOn
    <3> QED BY <3>10 DEF w, n
  <2>10. Carries(h, g)
    BY <2>2, <2>8, <2>9
  <2> QED BY <2>10 DEF g
<1> QED BY <1>1, <1>2, <1>3, <1>4

----------------------------------------------------------------------------
(* The Palm takes a frame *)

\* The chain without its first frame.
LEMMA ChainDropped ==
    ASSUME NEW S, NEW q \in Seq(S), q # <<>>, Chained(q)
    PROVE  Chained(Tail(q))
<1> DEFINE r == Tail(q)
<1>1. /\ Len(r) \in Nat /\ Len(q) = Len(r) + 1 /\ \A k \in 1 .. Len(r) : r[k] = q[k + 1]
  BY Dropped
<1> HIDE DEF r
<1>2. SUFFICES ASSUME NEW i \in 1 .. Len(r), NEW j \in 1 .. Len(r), i < j,
                      r[i].kind = "data", r[j].kind = "data", Quiet(r, i + 1, j - 1)
               PROVE  Follows(r[i], r[j])
  BY DEF Chained, r
<1>3. r[i] = q[i + 1] /\ r[j] = q[j + 1] /\ i + 1 \in 1 .. Len(q) /\ j + 1 \in 1 .. Len(q)
  BY <1>1, <1>2
<1>4. Quiet(q, i + 1 + 1, j + 1 - 1)
  <2>1. ASSUME NEW k \in i + 1 + 1 .. j + 1 - 1
        PROVE  k - 1 \in i + 1 .. j - 1 /\ k - 1 \in 1 .. Len(r) /\ k - 1 + 1 = k
    BY <1>1, <1>2, <2>1
  <2>2. ASSUME NEW k \in i + 1 + 1 .. j + 1 - 1 PROVE q[k].kind # "data"
    <3>1. r[k - 1].kind # "data"
      BY <1>2, <2>1, <2>2 DEF Quiet
    <3>2. r[k - 1] = q[k - 1 + 1]
      BY <1>1, <2>1, <2>2
    <3> QED BY <2>1, <2>2, <3>1, <3>2
  <2> QED BY <2>2 DEF Quiet
<1>5. i + 1 < j + 1 /\ q[i + 1].kind = "data" /\ q[j + 1].kind = "data"
  BY <1>2, <1>3
<1>6. ASSUME NEW a \in 1 .. Len(q), NEW b \in 1 .. Len(q), a < b, q[a].kind = "data",
             q[b].kind = "data", Quiet(q, a + 1, b - 1)
      PROVE  Follows(q[a], q[b])
  BY <1>6 DEF Chained
<1>7. Follows(q[i + 1], q[j + 1])
  BY <1>3, <1>4, <1>5, <1>6
<1> QED BY <1>3, <1>7

\* What follows the last frame still follows it.
LEMMA SendDropped ==
    ASSUME NEW S, NEW q \in Seq(S), q # <<>>, NEW p, Continues(q, p)
    PROVE  Continues(Tail(q), p)
<1> DEFINE r == Tail(q)
<1>1. /\ Len(r) \in Nat /\ Len(q) = Len(r) + 1 /\ \A k \in 1 .. Len(r) : r[k] = q[k + 1]
  BY Dropped
<1> HIDE DEF r
<1>2. SUFFICES ASSUME NEW i \in 1 .. Len(r), r[i].kind = "data", Quiet(r, i + 1, Len(r))
               PROVE  Follows(r[i], p)
  BY DEF Continues, r
<1>3. r[i] = q[i + 1] /\ i + 1 \in 1 .. Len(q)
  BY <1>1, <1>2
<1>4. Quiet(q, i + 1 + 1, Len(q))
  <2>1. ASSUME NEW k \in i + 1 + 1 .. Len(q)
        PROVE  k - 1 \in i + 1 .. Len(r) /\ k - 1 \in 1 .. Len(r) /\ k - 1 + 1 = k
    BY <1>1, <1>2, <2>1
  <2>2. ASSUME NEW k \in i + 1 + 1 .. Len(q) PROVE q[k].kind # "data"
    <3>1. r[k - 1].kind # "data"
      BY <1>2, <2>1, <2>2 DEF Quiet
    <3>2. r[k - 1] = q[k - 1 + 1]
      BY <1>1, <2>1, <2>2
    <3> QED BY <2>1, <2>2, <3>1, <3>2
  <2> QED BY <2>2 DEF Quiet
<1> QED BY <1>2, <1>3, <1>4 DEF Continues

\* Behind a data frame, the first one left follows it,
LEMMA FirstFollows ==
    ASSUME NEW S, NEW q \in Seq(S), q # <<>>, Head(q).kind = "data", Chained(q),
           NEW j \in 1 .. Len(Tail(q)), Tail(q)[j].kind = "data", Quiet(Tail(q), 1, j - 1)
    PROVE  Follows(Head(q), Tail(q)[j])
<1> DEFINE r == Tail(q)
<1>1. /\ Len(r) \in Nat /\ Len(q) = Len(r) + 1 /\ Head(q) = q[1]
      /\ \A k \in 1 .. Len(r) : r[k] = q[k + 1]
  BY Dropped
<1>0. j \in 1 .. Len(r) /\ r[j].kind = "data" /\ Quiet(r, 1, j - 1)
  OBVIOUS
<1> HIDE DEF r
<1>2. r[j] = q[j + 1] /\ j + 1 \in 1 .. Len(q) /\ 1 \in 1 .. Len(q) /\ 1 < j + 1
  BY <1>0, <1>1
<1>3. Quiet(q, 1 + 1, j + 1 - 1)
  <2>1. ASSUME NEW k \in 1 + 1 .. j + 1 - 1
        PROVE  k - 1 \in 1 .. j - 1 /\ k - 1 \in 1 .. Len(r) /\ k - 1 + 1 = k
    BY <1>0, <1>1, <2>1
  <2>2. ASSUME NEW k \in 1 + 1 .. j + 1 - 1 PROVE q[k].kind # "data"
    BY <1>0, <1>1, <2>1, <2>2 DEF Quiet
  <2> QED BY <2>2 DEF Quiet
<1>4. Follows(q[1], q[j + 1])
  BY <1>0, <1>1, <1>2, <1>3 DEF Chained
<1> QED BY <1>1, <1>2, <1>4 DEF r

\* and so does what is sent when none is left.
LEMMA SendFollows ==
    ASSUME NEW S, NEW q \in Seq(S), q # <<>>, Head(q).kind = "data", NEW p, Continues(q, p),
           Quiet(Tail(q), 1, Len(Tail(q)))
    PROVE  Follows(Head(q), p)
<1> DEFINE r == Tail(q)
<1>1. /\ Len(r) \in Nat /\ Len(q) = Len(r) + 1 /\ Head(q) = q[1]
      /\ \A k \in 1 .. Len(r) : r[k] = q[k + 1]
  BY Dropped
<1>0. Quiet(r, 1, Len(r))
  OBVIOUS
<1> HIDE DEF r
<1>2. Quiet(q, 1 + 1, Len(q))
  <2>1. ASSUME NEW k \in 1 + 1 .. Len(q)
        PROVE  k - 1 \in 1 .. Len(r) /\ k - 1 + 1 = k
    BY <1>1, <2>1
  <2>2. ASSUME NEW k \in 1 + 1 .. Len(q) PROVE q[k].kind # "data"
    BY <1>0, <1>1, <2>1, <2>2 DEF Quiet
  <2> QED BY <2>2 DEF Quiet
<1>3. 1 \in 1 .. Len(q)
  BY <1>1
<1> QED BY <1>1, <1>2, <1>3 DEF Continues

\* Without an acknowledgement at the head, what was first is first.
LEMMA AckDropped ==
    ASSUME NEW S, NEW q \in Seq(S), q # <<>>, Head(q).kind # "data", NEW in
    PROVE  /\ Opens(q, in) => Opens(Tail(q), in)
           /\ Quiet(Tail(q), 1, Len(Tail(q))) => Quiet(q, 1, Len(q))
<1> DEFINE r == Tail(q)
<1>1. /\ Len(r) \in Nat /\ Len(q) = Len(r) + 1 /\ Head(q) = q[1]
      /\ \A k \in 1 .. Len(r) : r[k] = q[k + 1]
  BY Dropped
<1> HIDE DEF r
<1>2. ASSUME NEW n \in 0 .. Len(r), Quiet(r, 1, n) PROVE Quiet(q, 1, n + 1)
  <2>1. ASSUME NEW k \in 1 .. n + 1, k # 1
        PROVE  k - 1 \in 1 .. n /\ k - 1 \in 1 .. Len(r) /\ k - 1 + 1 = k
    BY <1>1, <2>1
  <2>2. ASSUME NEW k \in 1 .. n + 1 PROVE q[k].kind # "data"
    BY <1>1, <1>2, <2>1, <2>2 DEF Quiet
  <2> QED BY <2>2 DEF Quiet
<1>3. ASSUME Opens(q, in) PROVE Opens(r, in)
  <2>1. SUFFICES ASSUME NEW j \in 1 .. Len(r), r[j].kind = "data", Quiet(r, 1, j - 1)
                 PROVE  FitsIn(in, r[j])
    BY DEF Opens
  <2>2. j - 1 \in 0 .. Len(r) /\ j - 1 + 1 = j + 1 - 1 /\ j + 1 \in 1 .. Len(q)
        /\ r[j] = q[j + 1]
    BY <1>1
  <2>3. Quiet(q, 1, j + 1 - 1)
    BY <1>2, <2>1, <2>2
  <2> QED BY <1>3, <2>1, <2>2, <2>3 DEF Opens
<1>4. Quiet(r, 1, Len(r)) => Quiet(q, 1, Len(q))
  BY <1>1, <1>2
<1> QED BY <1>3, <1>4 DEF r

\* A receiver that takes a whole frame, or remembers the fragment it takes, hears what follows;
\* one that takes an acknowledgement hears what it heard before.
LEMMA HeadTaken ==
    ASSUME NEW h \in Hosts, h.uart # <<>>, NEW g, g = [h EXCEPT !.uart = Tail(@)],
           NEW on \in BOOLEAN, NEW in, InStep(h, on, in), NEW still \in BOOLEAN, NEW rest,
           still => \/ /\ Head(h.uart).kind = "data"
                       /\ \/ Head(h.uart).last
                          \/ /\ rest.tx = Head(h.uart).tx
                             /\ rest.parts = Head(h.uart).offset + 1
                    \/ Head(h.uart).kind # "data" /\ on /\ rest = in
    PROVE  InStep(g, still, rest)
<1> DEFINE q == h.uart
           r == Tail(q)
           p == h.pendingPadp
           f == Head(q)
<1>1. /\ q \in Seq(FramesOf(Messages)) /\ q # <<>>
      /\ Len(r) \in Nat /\ Len(q) = Len(r) + 1
      /\ \A k \in 1 .. Len(r) : r[k] = q[k + 1]
  BY Dropped DEF Hosts
<1>2. g.uart = r /\ g.pendingPadp = p
  BY DEF Hosts
<1>3. Chained(q) /\ InitWhole(q) /\ (on => Opens(q, in)) /\ SendInStep(q, p, on, in)
  BY DEF InStep
<1>4. still => \/ /\ f.kind = "data"
                  /\ f.last \/ (rest.tx = f.tx /\ rest.parts = f.offset + 1)
               \/ f.kind # "data" /\ on /\ rest = in
  OBVIOUS
<1> HIDE DEF p, q
<1>5. Chained(r)
  BY <1>1, <1>3, ChainDropped
<1>6. InitWhole(r)
  <2>1. \A k \in 1 .. Len(r) : k + 1 \in 1 .. Len(q)
    BY <1>1
  <2> HIDE DEF r
  <2> QED BY <1>1, <1>3, <2>1 DEF InitWhole
<1>7. ASSUME still, f.kind = "data", NEW n, Follows(f, n) PROVE FitsIn(rest, n)
  BY <1>4, <1>7 DEF Follows, FitsIn
<1>8. still => Opens(r, rest)
  <2>1. CASE still /\ f.kind = "data"
    BY <1>1, <1>3, <1>7, <2>1, FirstFollows DEF Opens
  <2>2. CASE still /\ f.kind # "data"
    BY <1>1, <1>3, <1>4, <2>2, AckDropped
  <2> QED BY <2>1, <2>2
<1>9. ASSUME p.active
      PROVE  /\ Continues(r, p) /\ Short(p.msg)
             /\ still /\ Quiet(r, 1, Len(r)) => FitsIn(rest, p)
  <2>1. Continues(q, p) /\ Short(p.msg) /\ (on /\ Quiet(q, 1, Len(q)) => FitsIn(in, p))
    BY <1>3, <1>9 DEF SendInStep
  <2>2. Continues(r, p)
    BY <1>1, <2>1, SendDropped
  <2>3. ASSUME still, Quiet(r, 1, Len(r)) PROVE FitsIn(rest, p)
    <3>1. CASE f.kind = "data"
      <4>1. Follows(f, p)
        BY <1>1, <2>1, <2>3, <3>1, SendFollows
      <4> QED BY <1>7, <2>3, <3>1, <4>1
    <3>2. CASE f.kind # "data"
      <4>1. Quiet(q, 1, Len(q))
        BY <1>1, <2>3, <3>2, AckDropped
      <4> QED BY <1>4, <2>1, <2>3, <3>2, <4>1
    <3> QED BY <3>1, <3>2
  <2> QED BY <2>1, <2>2, <2>3
<1>10. SendInStep(r, p, still, rest)
  BY <1>9 DEF SendInStep
<1> QED BY <1>2, <1>5, <1>6, <1>8, <1>10 DEF InStep

\* A receiver that hears nothing asks nothing of the line.
LEMMA HearingLess ==
    ASSUME NEW h, NEW on \in BOOLEAN, NEW in, InStep(h, on, in), NEW still \in BOOLEAN,
           NEW rest, still => on /\ rest = in
    PROVE  InStep(h, still, rest)
  BY DEF InStep, SendInStep

\* An empty line on which nothing is sent is in step for everyone,
LEMMA EmptyLine ==
    ASSUME NEW h, h.uart = <<>>, h.pendingPadp = NotSending, NEW on, NEW in
    PROVE  InStep(h, on, in)
  BY DEF InStep, SendInStep, NotSending, Chained, InitWhole, Opens

\* and so is one whose receiver is away.
LEMMA LineCleared ==
    ASSUME NEW h, NEW g, NEW on, NEW in, InStep(h, on, in), g.uart = <<>>,
           g.pendingPadp = h.pendingPadp, NEW rest
    PROVE  InStep(g, FALSE, rest)
  BY DEF InStep, SendInStep, Chained, Continues, InitWhole

\* A frame that arrives fits, to a Palm that has heard everything.
LEMMA ArrivedFits ==
    ASSUME IInv, FragmentsOK, DataArrived, "lost" \notin trouble
    PROVE  Fits(Arrived)
<1>1. host.uart \in Seq(FramesOf(Messages)) /\ host.uart # <<>> /\ Hearing
  BY DEF IInv, TypeOK, Hosts, DataArrived, Hearing
<1>2. Opens(host.uart, palm.in)
  BY <1>1 DEF FragmentsOK, InStep
<1>3. 1 \in 1 .. Len(host.uart) /\ Arrived = host.uart[1]
  BY <1>1, Dropped DEF Arrived
<1>4. Quiet(host.uart, 1, 1 - 1)
  BY DEF Quiet
<1>5. FitsIn(palm.in, Arrived)
  BY <1>2, <1>3, <1>4 DEF Opens, DataArrived
<1> QED BY <1>5 DEF Fits, FitsIn

\* The line and the Palm as they start.
LEMMA StartInStep ==
    ASSUME Init
    PROVE  FragmentsOK
  BY EmptyLine DEF Init, HostAtStart, FragmentsOK

\* Steps of the host.
LEMMA HostInStep ==
    ASSUME IInv, FragmentsOK, HostReceives \/ ServiceHotSyncHost
    PROVE  FragmentsOK'
<1>1. host \in Hosts /\ Working(host) /\ palm.in \in [tx : Nat, parts : Nat]
  BY PalmParts DEF IInv, TypeOK
<1>2. Carries(host, host')
  <2>1. CASE HostReceives
    <3>1. toHost \in Seq(PalmFrames) /\ toHost # <<>>
      BY <2>1, PalmParts DEF IInv, HostReceives
    <3>2. Head(toHost) \in PalmFrames
      BY <3>1
    <3> QED BY <1>1, <2>1, <3>2, PalmFrameCarries DEF HostReceives
  <2>2. CASE ServiceHotSyncHost
    BY <1>1, <2>2, UserInfoCarries DEF ServiceHotSyncHost
  <2> QED BY <2>1, <2>2
<1>3. Hearing \in BOOLEAN /\ Hearing' = Hearing /\ palm' = palm
  BY DEF HostReceives, ServiceHotSyncHost, Hearing
<1> QED BY <1>1, <1>2, <1>3 DEF FragmentsOK, Carries

\* What the Palm takes leaves it hearing what follows.
LEMMA PalmInStep ==
    ASSUME IInv, FragmentsOK, PalmReceives \/ LineLosesToPalm \/ PalmRefuses
    PROVE  FragmentsOK'
<1>1. host \in Hosts /\ host.uart # <<>> /\ host' = [host EXCEPT !.uart = Tail(@)]
  BY DEF IInv, TypeOK, PalmReceives, PalmHearsNothing, PalmTakesAck, PalmTakesInit,
         PalmTakesFragment, PalmDropsFragment, PalmExecutes, DataArrived, FrameTaken,
         LineLosesToPalm, PalmRefuses
<1>2. Hearing \in BOOLEAN /\ Hearing' \in BOOLEAN
  BY DEF Hearing
<1>3. InStep(host, Hearing, palm.in)
  BY DEF FragmentsOK
<1>4. palm \in PalmStates /\ palm.in \in [tx : Nat, parts : Nat]
  BY PalmParts DEF IInv
<1>5. Hearing' => \/ /\ Arrived.kind = "data"
                     /\ \/ Arrived.last
                        \/ palm'.in.tx = Arrived.tx /\ palm'.in.parts = Arrived.offset + 1
                  \/ Arrived.kind # "data" /\ Hearing /\ palm'.in = palm.in
  <2>1. CASE PalmHearsNothing
    BY <2>1 DEF PalmHearsNothing, Hearing
  <2>2. CASE PalmTakesAck
    BY <1>4, <2>2 DEF PalmTakesAck, Hearing, PalmStates
  <2>3. CASE PalmTakesInit
    <3>1. host.uart \in Seq(FramesOf(Messages)) /\ InitWhole(host.uart)
      BY <1>1, <1>3 DEF Hosts, InStep
    <3>2. 1 \in 1 .. Len(host.uart) /\ Arrived = host.uart[1]
      BY <1>1, <3>1, Dropped DEF Arrived
    <3>3. Arrived.msg.cmd = "CmpInit" => Arrived.last
      BY <2>3, <3>1, <3>2 DEF InitWhole, PalmTakesInit
    <3> QED BY <2>3, <3>3 DEF PalmTakesInit, Hearing
  <2>4. CASE PalmTakesFragment
    <3>1. palm'.in = [tx |-> Arrived.tx, parts |-> Arrived.offset + 1]
      BY <1>4, <2>4 DEF PalmTakesFragment, PalmStates
    <3> QED BY <2>4, <3>1 DEF PalmTakesFragment, DataArrived
  <2>5. CASE PalmDropsFragment
    BY <2>5, ArrivedFits DEF PalmDropsFragment, Hearing
  <2>6. CASE PalmExecutes
    BY <2>6 DEF PalmExecutes, DataArrived
  <2>7. CASE LineLosesToPalm
    BY <2>7 DEF LineLosesToPalm, Fault, Hearing
  <2>8. CASE PalmRefuses
    BY <2>8 DEF PalmRefuses, DataArrived
  <2> QED BY <2>1, <2>2, <2>3, <2>4, <2>5, <2>6, <2>7, <2>8 DEF PalmReceives
<1>6. InStep(host', Hearing', palm'.in)
  <2> DEFINE on == Hearing
             still == Hearing'
             rest == palm'.in
  <2>1. on \in BOOLEAN /\ still \in BOOLEAN /\ InStep(host, on, palm.in)
    BY <1>2, <1>3
  <2>2. still => \/ /\ Head(host.uart).kind = "data"
                    /\ \/ Head(host.uart).last
                       \/ /\ rest.tx = Head(host.uart).tx
                          /\ rest.parts = Head(host.uart).offset + 1
                 \/ Head(host.uart).kind # "data" /\ on /\ rest = palm.in
    BY <1>5 DEF Arrived
  <2> HIDE DEF on, still, rest
  <2>3. InStep(host', still, rest)
    BY <1>1, <2>1, <2>2, HeadTaken
  <2> QED BY <2>3 DEF still, rest
<1> QED BY <1>6 DEF FragmentsOK

\* Steps that leave the host's queue alone: the Palm hears no more than before.
LEMMA OthersInStep ==
    ASSUME IInv, FragmentsOK,
           \/ PalmWakes \/ LineLosesToHost \/ PalmRepeats \/ PalmAsks \/ PalmGivesUp
           \/ UNCHANGED vars
    PROVE  FragmentsOK'
<1>1. palm \in PalmStates
  BY PalmParts DEF IInv
<1>2. host' = host /\ (Hearing' => Hearing /\ palm'.in = palm.in)
  <2>1. CASE PalmWakes
    BY <1>1, <2>1 DEF PalmWakes, Hearing, PalmStates
  <2>2. CASE PalmGivesUp
    BY <2>2 DEF PalmGivesUp, Hearing, PalmAway
  <2>3. CASE LineLosesToHost
    BY <2>3 DEF LineLosesToHost, Fault, Hearing
  <2>4. CASE PalmRepeats
    BY <2>4 DEF PalmRepeats, Fault, Hearing
  <2>5. CASE PalmAsks
    BY <1>1, <2>5 DEF PalmAsks, Fault, Hearing, PalmStates
  <2>6. CASE UNCHANGED vars
    BY <2>6 DEF vars, Hearing
  <2> QED BY <2>1, <2>2, <2>3, <2>4, <2>5, <2>6
<1>3. Hearing \in BOOLEAN /\ Hearing' \in BOOLEAN
  BY DEF Hearing
<1>4. InStep(host, Hearing, palm.in)
  BY DEF FragmentsOK
<1>5. InStep(host, Hearing', palm'.in)
  BY <1>2, <1>3, <1>4, HearingLess
<1> QED BY <1>2, <1>5 DEF FragmentsOK

\* The user's clicks: a queued file writes nothing, and the others empty the line.
LEMMA UserInStep ==
    ASSUME IInv, FragmentsOK,
           InstallPrcButton_Click \/ ResetButton_Click \/ RestoreRamState_Click
    PROVE  FragmentsOK'
<1>1. host \in Hosts /\ Hearing \in BOOLEAN /\ palm.in \in [tx : Nat, parts : Nat]
  BY PalmParts DEF IInv, TypeOK, Hearing
<1>2. InStep(host, Hearing, palm.in)
  BY DEF FragmentsOK
<1>3. CASE InstallPrcButton_Click
  <2>1. PICK i \in Images : host' = InstallPrcClicked(host, i)
    BY <1>3 DEF InstallPrcButton_Click
  <2>2. SameLine(host, host')
    BY <1>1, <2>1 DEF InstallPrcClicked, PrepareNextPendingInstall, SameLine, Hosts
  <2>3. Hearing' = Hearing /\ palm' = palm
    BY <1>3 DEF InstallPrcButton_Click, Hearing
  <2>4. Carries(host, host')
    BY <2>2, LineKept
  <2> QED BY <1>1, <1>2, <2>3, <2>4 DEF Carries, FragmentsOK
<1>4. CASE ResetButton_Click
  <2>1. host'.uart = <<>> /\ host'.pendingPadp = NotSending
    BY <1>1, <1>4 DEF ResetButton_Click, WarmReset, InstallsForgotten, Hosts
  <2> QED BY <2>1, EmptyLine DEF FragmentsOK
<1>5. CASE RestoreRamState_Click
  <2>1. host'.uart = <<>> /\ host'.pendingPadp = host.pendingPadp
    BY <1>1, <1>5 DEF RestoreRamState_Click, InstallsForgotten, Hosts
  <2>2. ~Hearing'
    BY <1>5 DEF RestoreRamState_Click, PalmAway, Hearing
  <2>3. InStep(host', FALSE, palm'.in)
    BY <1>2, <2>1, LineCleared
  <2>4. Hearing' = FALSE
    BY <2>2 DEF Hearing
  <2> QED BY <2>3, <2>4 DEF FragmentsOK
<1> QED BY <1>3, <1>4, <1>5

\* A fragment continues what the Palm has of that message, unless a frame was lost: whatever
\* acknowledgements come late, twice or for another message, and whatever is broken off, the
\* host sends neither ahead of what was heard nor behind it.
\* (SendNextPadpFragment, HandlePalmSlpFrame)
THEOREM FragmentsAlwaysInStep == Spec => []FragmentsInStep
<1>1. Init => IInv /\ FragmentsOK
  BY StartIsRight, StartInStep
<1>2. IInv /\ FragmentsOK /\ [Next]_vars => IInv' /\ FragmentsOK'
  BY StepKeeps, HostInStep, PalmInStep, OthersInStep, UserInStep DEF Next, PalmReceives
<1>3. IInv /\ FragmentsOK => FragmentsInStep
  BY ArrivedFits DEF FragmentsInStep
<1> QED BY <1>1, <1>2, <1>3, PTL DEF Spec

----------------------------------------------------------------------------
(* What is on its way *)

\* Answers and requests to commands of S.
Answers(S) == {p \in Payloads : p.answer /\ p.cmd \in S}
Requests(S) == {m \in Messages : ~m.answer /\ m.cmd \in S}

Delete == {"DeleteDB"}
Create == {"CreateDB"}
SortBlock == {"WriteSortBlock"}
Tracked == Delete \union Create \union Writes

\* Data of X among the frames; data of Y never behind data of X.
Carried(q, X) == \E k \in 1 .. Len(q) : q[k].kind = "data" /\ q[k].msg \in X
Apart(q, X, Y) == \A i, j \in 1 .. Len(q) :
    i < j /\ q[i].kind = "data" /\ q[i].msg \in X /\ q[j].kind = "data" => q[j].msg \notin Y

\* What the Palm has still to get: the frames in its queue, and what waits to be sent.
WholeFrame(tx, msg, offset) == Frame("data", tx, msg, offset, TRUE)
Unsent(p) == WholeFrame(p.tx, p.msg, p.offset)
Due(h) == IF h.pendingPadp.active THEN Append(h.uart, Unsent(h.pendingPadp)) ELSE h.uart

\* An answer the host has in part, and one the Palm may send again; with those on the line
\* they are all that come to the host.
Told == {p \in Payloads : p.answer}
Partly(h, X) == h.rxPadp.active /\ h.rxPadp.msg \in X
Kept(out, X) == out.unacked /\ out.msg \in X
Coming(h, in, out, X) == Partly(h, X) \/ Carried(in, X) \/ Kept(out, X)

\* No answer of Y comes behind one of X.
ComingApart(h, in, out, X, Y) ==
    /\ Apart(in, X, Y)
    /\ Partly(h, X) => ~Carried(in, Y)
    /\ Partly(h, X) \/ Carried(in, X) => ~Kept(out, Y)

\* A round of requests and answers, from the answer that arrives next to the newest request:
\* an entry for a command of S is on it;
OnWay(h, in, out, S) == Coming(h, in, out, Answers(S)) \/ Carried(Due(h), Requests(S))

\* none for a command of T comes later than one for a command of S.
NoneBehind(h, in, out, S, T) ==
    /\ ComingApart(h, in, out, Answers(S), Answers(T))
    /\ Apart(Due(h), Requests(S), Requests(T))
    /\ Coming(h, in, out, Answers(S)) => ~Carried(Due(h), Requests(T))

\* The order of the parts of an image, and which parts an image has.
Rank(part) == IF part.cmd = "WriteAppBlock" THEN 0
              ELSE IF part.cmd = "WriteSortBlock" THEN 1 ELSE part.item + 1
Proper(part) ==
    /\ part.image \in Images
    /\ \/ part.cmd = "WriteAppBlock" /\ part.item = 0 /\ Info[part.image].app > 0
       \/ part.cmd = "WriteSortBlock" /\ part.item = 0 /\ Info[part.image].sort > 0
       \/ /\ part.cmd = WriteCommand(part.image)
          /\ part.item \in 1 .. Len(Info[part.image].items)

\* A frame that makes the Palm write, if a database is open, and one that creates one.
Lands(f) == f.kind = "data" /\ f.last /\ f.msg \in Requests(Writes) /\ f.msg.db = 1
Creates(f) == f.kind = "data" /\ f.msg \in Requests(Create)

\* Frames that write parts there are, create this database, and write parts of it before
\* the n-th.
AllProper(q) == \A k \in 1 .. Len(q) :
    q[k].kind = "data" /\ q[k].msg \in Requests(Writes) => Proper(q[k].msg)
CreatesOf(q, image) == \A k \in 1 .. Len(q) : Creates(q[k]) => q[k].msg.image = image
LandsBelow(q, image, n) == \A k \in 1 .. Len(q) :
    Lands(q[k]) => q[k].msg.image = image /\ Rank(q[k].msg) < n

\* What may be open is this database, and holds parts before the n-th.
WrittenBelow(open, d, image, n) ==
    open # None => /\ open = image
                   /\ \A k \in 1 .. Len(d[open].written) : Rank(d[open].written[k]) < n

\* Writes that may land come in order, in the database created before them,
LandsAfter(q, f) == \A i \in 1 .. Len(q) :
    /\ Lands(q[i]) => q[i].msg.image = f.msg.image /\ Rank(q[i].msg) < Rank(f.msg)
    /\ Creates(q[i]) => q[i].msg.image = f.msg.image
LandInOrder(q) == \A i, j \in 1 .. Len(q) :
    i < j /\ Lands(q[j])
    => /\ Lands(q[i]) => q[i].msg.image = q[j].msg.image /\ Rank(q[i].msg) < Rank(q[j].msg)
       /\ Creates(q[i]) => q[i].msg.image = q[j].msg.image

\* behind what is written in the one that is open.
LandBehind(q, open, d) == \A j \in 1 .. Len(q) :
    Lands(q[j]) => WrittenBelow(open, d, q[j].msg.image, Rank(q[j].msg))

----------------------------------------------------------------------------
(* The invariant of the databases *)

\* Only a write may take more than one fragment.
LongIsWrite(h) == h.pendingPadp.active => h.pendingPadp.msg \in Requests(Writes)

\* No Create behind a Delete unless the host waits for its answer; then nothing is behind it
\* and it is of the database being installed.
TurnsInOrder(h, in, out) ==
    /\ h.installState # "CreateSent" => NoneBehind(h, in, out, Delete, Create)
    /\ h.installState = "CreateSent" =>
           /\ NoneBehind(h, in, out, Create, Delete)
           /\ NoneBehind(h, in, out, Create, Writes)
           /\ CreatesOf(Due(h), h.pendingInstall)
           /\ h.pendingPadp.active => ~OnWay(h, in, out, Create)

\* A database that was just created is empty.
Opened == {p \in Answers(Create) : p.err = "ok"}
FreshIsEmpty(h, in, out, open, d) ==
    h.installState = "CreateSent" /\ Coming(h, in, out, Opened)
    => WrittenBelow(open, d, h.pendingInstall, 0)

\* While the host writes, nothing on its way or written comes after what it sent last, and no
\* answer may take it back to the first block.
NextRank(h) == IF h.installState = "AppBlockSent" THEN 1
               ELSE IF h.installState = "SortBlockSent" THEN 2 ELSE h.installResourceIndex + 3
Writing(h) == /\ h.installState \in {"AppBlockSent", "SortBlockSent", "WritingResource"}
              /\ h.installDbId = 1
WritingOK(h, in, out, open, d) ==
    /\ CreatesOf(Due(h), h.pendingInstall)
    /\ LandsBelow(Due(h), h.pendingInstall, NextRank(h))
    /\ WrittenBelow(open, d, h.pendingInstall, NextRank(h))
    /\ \/ h.installState = "AppBlockSent"
       \/ h.installState = "SortBlockSent" /\ AppBlockDue(h)
       => ~OnWay(h, in, out, SortBlock)

\* Every database holds parts of its own image, in order.
WrittenInOrder(w, image) ==
    /\ \A k \in 1 .. Len(w) : w[k].image = image /\ Proper(w[k])
    /\ \A k, l \in 1 .. Len(w) : k < l => Rank(w[k]) < Rank(w[l])
DeviceInOrder(d) == \A i \in Images : WrittenInOrder(d[i].written, i)

DatabasesOK(h, in, out, open, d) ==
    /\ LongIsWrite(h) /\ AllProper(Due(h)) /\ TurnsInOrder(h, in, out)
    /\ LandInOrder(Due(h)) /\ LandBehind(Due(h), open, d)
    /\ FreshIsEmpty(h, in, out, open, d)
    /\ Writing(h) => WritingOK(h, in, out, open, d)
    /\ DeviceInOrder(d)
InOrderOK == DatabasesOK(host, toHost, palm.out, palm.open, device)
----------------------------------------------------------------------------
(* Lines that carry less *)

\* Every frame of r that matters is one of q, in the order of q; only parts of one message
\* may be parts of the same frame of q.
Matters(f) == f.kind = "data" /\ f.msg \in Requests(Tracked)
Found(q, r, f) ==
    /\ \A i \in 1 .. Len(r) : Matters(r[i]) =>
           /\ f[i] \in 1 .. Len(q) /\ q[f[i]].kind = "data" /\ q[f[i]].msg = r[i].msg
           /\ r[i].last => q[f[i]].last
    /\ \A i, j \in 1 .. Len(r) : i < j /\ Matters(r[i]) /\ Matters(r[j]) =>
           /\ f[i] < f[j] \/ (f[i] = f[j] /\ r[i].msg = r[j].msg)
           /\ r[i].last /\ r[j].last => f[i] < f[j]

\* What the invariant says of q holds of r.
Eases(q, r) ==
    /\ \A S \in SUBSET Tracked : Carried(r, Requests(S)) => Carried(q, Requests(S))
    /\ \A S, T \in SUBSET Tracked :
           S \intersect T = {} /\ Apart(q, Requests(S), Requests(T))
           => Apart(r, Requests(S), Requests(T))
    /\ AllProper(q) => AllProper(r)
    /\ LandInOrder(q) => LandInOrder(r)
    /\ \A image : CreatesOf(q, image) => CreatesOf(r, image)
    /\ \A image, n : LandsBelow(q, image, n) => LandsBelow(r, image, n)
    /\ \A open, d : LandBehind(q, open, d) => LandBehind(r, open, d)

\* A frame that matters to any of it is tracked.
LEMMA WhatMatters ==
    ASSUME NEW f, f.kind = "data"
    PROVE  /\ \A S \in SUBSET Tracked : f.msg \in Requests(S) => Matters(f)
           /\ f.msg \in Requests(Writes) => Matters(f)
           /\ Lands(f) => Matters(f) /\ f.last
           /\ Creates(f) => Matters(f) /\ ~Lands(f)
<1>1. Writes \subseteq Tracked /\ Create \subseteq Tracked /\ Create \intersect Writes = {}
  BY DEF Tracked, Create, Writes
<1> QED BY <1>1 DEF Matters, Requests, Lands, Creates

\* Creating and writing are done by data.
LEMMA OnlyData ==
    ASSUME NEW f
    PROVE  (Lands(f) \/ Creates(f) \/ Matters(f)) => f.kind = "data"
  BY DEF Lands, Creates, Matters

\* A line found in another one eases it.
LEMMA FoundEases ==
    ASSUME NEW q, NEW r, Len(q) \in Nat, Len(r) \in Nat, NEW f, Found(q, r, f)
    PROVE  Eases(q, r)
<1>1. ASSUME NEW i \in 1 .. Len(r), Matters(r[i])
      PROVE  /\ f[i] \in 1 .. Len(q) /\ q[f[i]].kind = "data" /\ q[f[i]].msg = r[i].msg
             /\ r[i].last => q[f[i]].last
  BY <1>1 DEF Found
<1>2. ASSUME NEW i \in 1 .. Len(r), NEW j \in 1 .. Len(r), i < j, Matters(r[i]), Matters(r[j])
      PROVE  /\ f[i] < f[j] \/ (f[i] = f[j] /\ r[i].msg = r[j].msg)
             /\ r[i].last /\ r[j].last => f[i] < f[j]
  BY <1>2 DEF Found
<1>3. ASSUME NEW i \in 1 .. Len(r), Lands(r[i])
      PROVE  /\ Matters(r[i]) /\ f[i] \in 1 .. Len(q)
             /\ Lands(q[f[i]]) /\ q[f[i]].msg = r[i].msg
  BY <1>1, <1>3, WhatMatters, OnlyData DEF Lands
<1>4. ASSUME NEW i \in 1 .. Len(r), Creates(r[i])
      PROVE  /\ Matters(r[i]) /\ f[i] \in 1 .. Len(q)
             /\ Creates(q[f[i]]) /\ q[f[i]].msg = r[i].msg
  BY <1>1, <1>4, WhatMatters, OnlyData DEF Creates
<1>5. ASSUME NEW S \in SUBSET Tracked, Carried(r, Requests(S))
      PROVE  Carried(q, Requests(S))
  <2>1. PICK k \in 1 .. Len(r) : r[k].kind = "data" /\ r[k].msg \in Requests(S)
    BY <1>5 DEF Carried
  <2>2. Matters(r[k])
    BY <2>1, WhatMatters
  <2>3. f[k] \in 1 .. Len(q) /\ q[f[k]].kind = "data" /\ q[f[k]].msg \in Requests(S)
    BY <1>1, <2>1, <2>2
  <2> QED BY <2>3 DEF Carried
<1>6. ASSUME NEW S \in SUBSET Tracked, NEW T \in SUBSET Tracked, S \intersect T = {},
             Apart(q, Requests(S), Requests(T))
      PROVE  Apart(r, Requests(S), Requests(T))
  <2>1. SUFFICES ASSUME NEW i \in 1 .. Len(r), NEW j \in 1 .. Len(r), i < j,
                        r[i].kind = "data", r[i].msg \in Requests(S), r[j].kind = "data",
                        r[j].msg \in Requests(T)
                 PROVE  FALSE
    BY DEF Apart
  <2>2. Matters(r[i]) /\ Matters(r[j])
    BY <2>1, WhatMatters
  <2>3. r[i].msg # r[j].msg
    BY <1>6, <2>1 DEF Requests
  <2>4. f[i] < f[j]
    BY <1>2, <2>1, <2>2, <2>3
  <2> QED BY <1>1, <1>6, <2>1, <2>2, <2>4 DEF Apart
<1>7. AllProper(q) => AllProper(r)
  <2>1. SUFFICES ASSUME AllProper(q), NEW k \in 1 .. Len(r), r[k].kind = "data",
                        r[k].msg \in Requests(Writes)
                 PROVE  Proper(r[k].msg)
    BY DEF AllProper
  <2>2. Matters(r[k])
    BY <2>1, WhatMatters
  <2> QED BY <1>1, <2>1, <2>2 DEF AllProper
<1>8. LandInOrder(q) => LandInOrder(r)
  <2>1. SUFFICES ASSUME LandInOrder(q), NEW i \in 1 .. Len(r), NEW j \in 1 .. Len(r), i < j,
                        Lands(r[j])
                 PROVE  /\ Lands(r[i]) => r[i].msg.image = r[j].msg.image
                                          /\ Rank(r[i].msg) < Rank(r[j].msg)
                        /\ Creates(r[i]) => r[i].msg.image = r[j].msg.image
    BY DEF LandInOrder
  <2>2. Matters(r[j]) /\ f[j] \in 1 .. Len(q) /\ Lands(q[f[j]]) /\ q[f[j]].msg = r[j].msg
    BY <1>3, <2>1
  <2>3. ASSUME Lands(r[i])
        PROVE  r[i].msg.image = r[j].msg.image /\ Rank(r[i].msg) < Rank(r[j].msg)
    <3>1. Matters(r[i]) /\ f[i] \in 1 .. Len(q) /\ Lands(q[f[i]]) /\ q[f[i]].msg = r[i].msg
      BY <1>3, <2>3
    <3>2. f[i] < f[j]
      BY <1>2, <2>1, <2>2, <2>3, <3>1 DEF Lands
    <3> QED BY <2>1, <2>2, <3>1, <3>2 DEF LandInOrder
  <2>4. ASSUME Creates(r[i]) PROVE r[i].msg.image = r[j].msg.image
    <3>1. Matters(r[i]) /\ f[i] \in 1 .. Len(q) /\ Creates(q[f[i]]) /\ q[f[i]].msg = r[i].msg
      BY <1>4, <2>4
    <3>2. r[i].msg # r[j].msg
      BY <2>2, <3>1, WhatMatters, OnlyData DEF Lands, Creates, Requests, Writes, Create
    <3>3. f[i] < f[j]
      BY <1>2, <2>1, <2>2, <3>1, <3>2
    <3> QED BY <2>1, <2>2, <3>1, <3>3 DEF LandInOrder
  <2> QED BY <2>3, <2>4
<1>9. ASSUME NEW image, CreatesOf(q, image) PROVE CreatesOf(r, image)
  BY <1>4, <1>9 DEF CreatesOf
<1>10. ASSUME NEW image, NEW n, LandsBelow(q, image, n) PROVE LandsBelow(r, image, n)
  BY <1>3, <1>10 DEF LandsBelow
<1>11. ASSUME NEW open, NEW d, LandBehind(q, open, d) PROVE LandBehind(r, open, d)
  BY <1>3, <1>11 DEF LandBehind
<1> QED BY <1>5, <1>6, <1>7, <1>8, <1>9, <1>10, <1>11 DEF Eases

\* Easing goes on.
LEMMA EasesOn ==
    ASSUME NEW q, NEW r, NEW s, Eases(q, r), Eases(r, s)
    PROVE  Eases(q, s)
  BY DEF Eases

\* Every line eases itself.
LEMMA EasesSelf ==
    ASSUME NEW q
    PROVE  Eases(q, q)
  BY DEF Eases

\* The first frame is taken.
LEMMA TakenEases ==
    ASSUME NEW S, NEW q \in Seq(S), q # <<>>
    PROVE  Eases(q, Tail(q))
<1> DEFINE r == Tail(q)
           f == [k \in 1 .. Len(r) |-> k + 1]
<1>1. Len(r) \in Nat /\ Len(q) = Len(r) + 1 /\ \A k \in 1 .. Len(r) : r[k] = q[k + 1]
  BY Dropped
<1> HIDE DEF r
<1>2. \A k \in 1 .. Len(r) : k + 1 \in 1 .. Len(q) /\ f[k] = k + 1
  BY <1>1
<1>3. \A i, j \in 1 .. Len(r) : i < j => f[i] < f[j]
  BY <1>1, <1>2
<1> HIDE DEF f
<1>4. Found(q, r, f)
  BY <1>1, <1>2, <1>3 DEF Found, Matters
<1>5. Len(q) \in Nat
  BY <1>1
<1>6. Eases(q, r)
  BY <1>1, <1>4, <1>5, FoundEases
<1> QED BY <1>6 DEF r

\* A frame that does not matter is added,
LEMMA AddedEases ==
    ASSUME NEW S, NEW q \in Seq(S), NEW a \in S, ~Matters(a)
    PROVE  Eases(q, Append(q, a))
<1> DEFINE r == Append(q, a)
           f == [k \in 1 .. Len(r) |-> k]
<1>1. /\ Len(r) = Len(q) + 1 /\ Len(q) \in Nat /\ r[Len(q) + 1] = a
      /\ \A k \in 1 .. Len(q) : r[k] = q[k]
  BY Appended
<1> HIDE DEF r
<1>2. \A k \in 1 .. Len(r) : f[k] = k /\ (Matters(r[k]) => k \in 1 .. Len(q))
  BY <1>1
<1> HIDE DEF f
<1>3. Found(q, r, f)
  BY <1>1, <1>2 DEF Found, Matters
<1>4. Len(r) \in Nat
  BY <1>1
<1>5. Eases(q, r)
  BY <1>1, <1>3, <1>4, FoundEases
<1> QED BY <1>5 DEF r

\* or the last one is not there.
LEMMA FewerEases ==
    ASSUME NEW S, NEW q \in Seq(S), NEW a \in S
    PROVE  Eases(Append(q, a), q)
<1> DEFINE r == Append(q, a)
           f == [k \in 1 .. Len(q) |-> k]
<1>1. /\ Len(r) = Len(q) + 1 /\ Len(q) \in Nat
      /\ \A k \in 1 .. Len(q) : r[k] = q[k]
  BY Appended
<1> HIDE DEF r
<1>2. \A k \in 1 .. Len(q) : f[k] = k /\ k \in 1 .. Len(r)
  BY <1>1
<1> HIDE DEF f
<1>3. Found(r, q, f)
  BY <1>1, <1>2 DEF Found, Matters
<1>4. Len(r) \in Nat
  BY <1>1
<1>5. Eases(r, q)
  BY <1>1, <1>3, <1>4, FoundEases
<1> QED BY <1>5 DEF r

\* A frame before the last one does not matter, or is a part of it that is not its end.
LEMMA BetweenEases ==
    ASSUME NEW S, NEW q \in Seq(S), NEW a \in S, NEW b \in S, NEW c \in S,
           Matters(a) => ~a.last /\ b.kind = "data" /\ a.msg = b.msg,
           c.kind = b.kind, c.msg = b.msg, c.last => b.last
    PROVE  Eases(Append(q, b), Append(Append(q, a), c))
<1> DEFINE p == Append(q, b)
           s == Append(q, a)
           r == Append(s, c)
           n == Len(q) + 1
           f == [k \in 1 .. Len(r) |-> IF k <= n THEN k ELSE n]
<1>1. /\ Len(p) = n /\ Len(q) \in Nat /\ p[n] = b
      /\ \A k \in 1 .. Len(q) : p[k] = q[k]
  BY Appended
<1>2. /\ Len(s) = n /\ s[n] = a /\ s \in Seq(S)
      /\ \A k \in 1 .. Len(q) : s[k] = q[k]
  BY Appended
<1>3. /\ Len(r) = n + 1 /\ r[n + 1] = c /\ r[n] = a
      /\ \A k \in 1 .. Len(q) : r[k] = q[k]
  <2>0. s \in Seq(S) /\ Len(s) = n
    BY <1>2
  <2>1. /\ Len(r) = Len(s) + 1 /\ r[Len(s) + 1] = c
        /\ \A k \in 1 .. Len(s) : r[k] = s[k]
    BY <2>0, Appended
  <2> HIDE DEF r, s
  <2> QED BY <1>1, <1>2, <2>1
<1> HIDE DEF p, r, s
<1>4. n \in Nat /\ n >= 1 /\ Len(r) \in Nat /\ Len(p) \in Nat
  BY <1>1, <1>3
<1>5. \A k \in 1 .. Len(r) : k \in 1 .. Len(q) \/ k = n \/ k = n + 1
  BY <1>1, <1>3
<1>6. /\ \A k \in 1 .. Len(q) : f[k] = k /\ k < n
      /\ f[n] = n /\ f[n + 1] = n
  BY <1>1, <1>3
<1> HIDE DEF f, n
<1>7. \A k \in 1 .. Len(q) : k \in 1 .. Len(p)
  BY <1>1, <1>4, <1>6
<1>8. ASSUME NEW k \in 1 .. Len(r), Matters(r[k])
      PROVE  /\ f[k] \in 1 .. Len(p) /\ p[f[k]].kind = "data" /\ p[f[k]].msg = r[k].msg
             /\ r[k].last => p[f[k]].last
  <2>1. CASE k \in 1 .. Len(q)
    BY <1>1, <1>3, <1>6, <1>7, <1>8, <2>1 DEF Matters
  <2>2. CASE k = n
    BY <1>1, <1>3, <1>4, <1>6, <1>8, <2>2
  <2>3. CASE k = n + 1
    BY <1>1, <1>3, <1>4, <1>6, <1>8, <2>3 DEF Matters
  <2> QED BY <1>5, <2>1, <2>2, <2>3
<1>9. ASSUME NEW i \in 1 .. Len(r), NEW j \in 1 .. Len(r), i < j, Matters(r[i]), Matters(r[j])
      PROVE  /\ f[i] < f[j] \/ (f[i] = f[j] /\ r[i].msg = r[j].msg)
             /\ r[i].last /\ r[j].last => f[i] < f[j]
  <2>1. CASE i \in 1 .. Len(q)
    BY <1>1, <1>4, <1>5, <1>6, <1>9, <2>1
  <2>2. CASE i = n
    <3>1. j = n + 1
      BY <1>1, <1>4, <1>5, <1>6, <1>9, <2>2
    <3> QED BY <1>3, <1>6, <1>9, <2>2, <3>1
  <2>3. CASE i = n + 1
    BY <1>3, <1>4, <1>9, <2>3
  <2> QED BY <1>5, <2>1, <2>2, <2>3
<1>10. Found(p, r, f)
  BY <1>8, <1>9 DEF Found
<1>11. Eases(p, r)
  BY <1>4, <1>10, FoundEases
<1> QED BY <1>11 DEF p, r, s

\* An empty line eases every other.
LEMMA NothingEases ==
    ASSUME NEW q
    PROVE  Eases(q, <<>>)
<1>1. Len(<<>>) = 0
  OBVIOUS
<1> QED BY <1>1 DEF Eases, Carried, Apart, AllProper, LandInOrder, CreatesOf, LandsBelow,
                    LandBehind

\* All but the last frame are gone.
LEMMA LastEases ==
    ASSUME NEW S, NEW q \in Seq(S), NEW a \in S
    PROVE  Eases(Append(q, a), Append(<<>>, a))
<1> DEFINE p == Append(q, a)
           r == Append(<<>>, a)
           f == [k \in 1 .. 1 |-> Len(q) + 1]
<1>1. /\ Len(p) = Len(q) + 1 /\ Len(q) \in Nat /\ p[Len(q) + 1] = a
  BY Appended
<1>2. Len(r) = 1 /\ r[1] = a
  OBVIOUS
<1>3. f[1] = Len(q) + 1 /\ Len(q) + 1 \in 1 .. Len(p)
  BY <1>1
<1>4. \A k \in 1 .. Len(r) : k = 1
  BY <1>2
<1> HIDE DEF p, r, f
<1>5. Found(p, r, f)
  BY <1>1, <1>2, <1>3, <1>4 DEF Found, Matters
<1>6. Len(r) \in Nat /\ Len(p) \in Nat
  BY <1>1, <1>2
<1>7. Eases(p, r)
  BY <1>5, <1>6, FoundEases
<1> QED BY <1>7 DEF p, r

\* What a line carries behind its first frame.
LEMMA CarriedTail ==
    ASSUME NEW S, NEW q \in Seq(S), q # <<>>, NEW X, NEW Y
    PROVE  /\ Carried(Tail(q), X) => Carried(q, X)
           /\ Apart(q, X, Y) => Apart(Tail(q), X, Y)
           /\ Head(q).kind = "data" /\ Head(q).msg \in X =>
                  /\ Carried(q, X)
                  /\ Apart(q, X, Y) => ~Carried(Tail(q), Y)
<1> DEFINE r == Tail(q)
<1>1. /\ Len(r) \in Nat /\ Len(q) = Len(r) + 1 /\ Head(q) = q[1]
      /\ \A k \in 1 .. Len(r) : r[k] = q[k + 1]
  BY Dropped
<1> HIDE DEF r
<1>2. \A k \in 1 .. Len(r) : k + 1 \in 1 .. Len(q) /\ 1 < k + 1
  BY <1>1
<1>3. 1 \in 1 .. Len(q)
  BY <1>1
<1>4. \A i, j \in 1 .. Len(r) : i < j => i + 1 < j + 1
  BY <1>1
<1>5. Carried(r, X) => Carried(q, X)
  BY <1>1, <1>2 DEF Carried
<1>6. ASSUME Apart(q, X, Y) PROVE Apart(r, X, Y)
  <2>1. SUFFICES ASSUME NEW i \in 1 .. Len(r), NEW j \in 1 .. Len(r), i < j,
                        r[i].kind = "data", r[i].msg \in X, r[j].kind = "data"
                 PROVE  r[j].msg \notin Y
    BY DEF Apart
  <2>2. r[i] = q[i + 1] /\ r[j] = q[j + 1] /\ i + 1 < j + 1
    BY <1>1, <1>4, <2>1
  <2> QED BY <1>2, <1>6, <2>1, <2>2 DEF Apart
<1>7. ASSUME Head(q).kind = "data", Head(q).msg \in X
      PROVE  Carried(q, X) /\ (Apart(q, X, Y) => ~Carried(r, Y))
  <2>1. Carried(q, X)
    BY <1>1, <1>3, <1>7 DEF Carried
  <2>2. ASSUME Apart(q, X, Y), NEW k \in 1 .. Len(r), r[k].kind = "data", r[k].msg \in Y
        PROVE  FALSE
    <3>1. r[k] = q[k + 1] /\ k + 1 \in 1 .. Len(q) /\ 1 < k + 1
      BY <1>1, <1>2
    <3> QED BY <1>1, <1>3, <1>7, <2>2, <3>1 DEF Apart
  <2> QED BY <2>1, <2>2 DEF Carried
<1> QED BY <1>5, <1>6, <1>7 DEF r

\* What it carries with one more.
LEMMA CarriedAppended ==
    ASSUME NEW S, NEW q \in Seq(S), NEW f \in S, NEW X, NEW Y
    PROVE  /\ Carried(Append(q, f), X) <=> Carried(q, X) \/ (f.kind = "data" /\ f.msg \in X)
           /\ Apart(Append(q, f), X, Y) <=>
                  /\ Apart(q, X, Y)
                  /\ Carried(q, X) /\ f.kind = "data" => f.msg \notin Y
<1> DEFINE r == Append(q, f)
           n == Len(q) + 1
<1>1. /\ Len(r) = n /\ Len(q) \in Nat /\ r[n] = f
      /\ \A k \in 1 .. Len(q) : r[k] = q[k]
  BY Appended
<1> HIDE DEF r
<1>2. \A k \in 1 .. Len(r) : k \in 1 .. Len(q) \/ k = n
  BY <1>1
<1>3. n \in 1 .. Len(r) /\ \A k \in 1 .. Len(q) : k \in 1 .. Len(r) /\ k < n
  BY <1>1
<1>4. \A i, j \in 1 .. Len(r) : i < j => i \in 1 .. Len(q)
  BY <1>1
<1> HIDE DEF n
<1>5. Carried(r, X) <=> Carried(q, X) \/ (f.kind = "data" /\ f.msg \in X)
  BY <1>1, <1>2, <1>3 DEF Carried
<1>6. ASSUME Apart(r, X, Y)
      PROVE  Apart(q, X, Y) /\ (Carried(q, X) /\ f.kind = "data" => f.msg \notin Y)
  BY <1>1, <1>3, <1>6 DEF Carried, Apart
<1>7. ASSUME Apart(q, X, Y), Carried(q, X) /\ f.kind = "data" => f.msg \notin Y
      PROVE  Apart(r, X, Y)
  BY <1>1, <1>2, <1>4, <1>7 DEF Carried, Apart
<1> QED BY <1>5, <1>6, <1>7 DEF r

----------------------------------------------------------------------------
(* What comes to the host *)

\* The host gets no more than was coming, in the order it was coming.
Recedes(h, in, out, g, rest, kept) == \A X, Y \in SUBSET Told :
    /\ Coming(g, rest, kept, X) => Coming(h, in, out, X)
    /\ X \intersect Y = {} /\ ComingApart(h, in, out, X, Y) => ComingApart(g, rest, kept, X, Y)

\* Answers are told.
LEMMA AnswersTold ==
    /\ \A S : Answers(S) \in SUBSET Told
    /\ \A S, T : S \intersect T = {} => Answers(S) \intersect Answers(T) = {}
    /\ Opened \in SUBSET Told /\ Opened \subseteq Answers(Create)
  BY DEF Answers, Told, Opened

\* The host has forgotten what it had in part, or not.
SamePart(h, g) == g.rxPadp.active => h.rxPadp.active /\ g.rxPadp.msg = h.rxPadp.msg

\* Nothing new has come.
LEMMA SameRecedes ==
    ASSUME NEW h, NEW g, SamePart(h, g), NEW in, NEW out
    PROVE  Recedes(h, in, out, g, in, out)
  BY DEF SamePart, Recedes, Coming, ComingApart, Partly

\* One step after the other.
LEMMA RecedesOn ==
    ASSUME NEW h, NEW in, NEW out, NEW k, NEW in1, NEW out1, NEW g, NEW in2, NEW out2,
           Recedes(h, in, out, k, in1, out1), Recedes(k, in1, out1, g, in2, out2)
    PROVE  Recedes(h, in, out, g, in2, out2)
  BY DEF Recedes

\* The first frame is taken or lost,
LEMMA HeadRecedes ==
    ASSUME NEW h, NEW g, SamePart(h, g), NEW in \in Seq(PalmFrames), in # <<>>, NEW out
    PROVE  Recedes(h, in, out, g, Tail(in), out)
<1>1. ASSUME NEW X \in SUBSET Told, NEW Y \in SUBSET Told
      PROVE  /\ Carried(Tail(in), X) => Carried(in, X)
             /\ Carried(Tail(in), Y) => Carried(in, Y)
             /\ Apart(in, X, Y) => Apart(Tail(in), X, Y)
  BY CarriedTail
<1> QED BY <1>1 DEF SamePart, Recedes, Coming, ComingApart, Partly

\* or begins what the host has in part.
LEMMA BeginRecedes ==
    ASSUME NEW h, NEW g, NEW in \in Seq(PalmFrames), in # <<>>, NEW out,
           Head(in).kind = "data", g.rxPadp.msg = Head(in).msg
    PROVE  Recedes(h, in, out, g, Tail(in), out)
<1>1. ASSUME NEW X \in SUBSET Told, NEW Y \in SUBSET Told
      PROVE  /\ Carried(Tail(in), X) => Carried(in, X)
             /\ Carried(Tail(in), Y) => Carried(in, Y)
             /\ Apart(in, X, Y) => Apart(Tail(in), X, Y)
             /\ Head(in).msg \in X => Carried(in, X)
             /\ Head(in).msg \in X /\ Apart(in, X, Y) => ~Carried(Tail(in), Y)
  BY CarriedTail
<1> QED BY <1>1 DEF Recedes, Coming, ComingApart, Partly

\* A frame that answers nothing is added.
LEMMA AddedRecedes ==
    ASSUME NEW h, NEW in \in Seq(PalmFrames), NEW out, NEW a \in PalmFrames,
           a.kind = "data" => ~a.msg.answer
    PROVE  Recedes(h, in, out, h, Append(in, a), out)
<1>1. ASSUME NEW X \in SUBSET Told, NEW Y \in SUBSET Told
      PROVE  /\ Carried(Append(in, a), X) <=> Carried(in, X)
             /\ Carried(Append(in, a), Y) <=> Carried(in, Y)
             /\ Apart(Append(in, a), X, Y) <=> Apart(in, X, Y)
  <2>1. ~(a.kind = "data" /\ a.msg \in X) /\ ~(a.kind = "data" /\ a.msg \in Y)
    BY DEF Told
  <2> QED BY <2>1, CarriedAppended
<1> QED BY <1>1 DEF Recedes, Coming, ComingApart

\* What the Palm may send again is sent, and stays.
LEMMA AgainRecedes ==
    ASSUME NEW h, NEW in \in Seq(PalmFrames), NEW out, NEW kept, out.unacked,
           kept.msg = out.msg, NEW f \in PalmFrames, f.kind = "data", f.msg = out.msg
    PROVE  Recedes(h, in, out, h, Append(in, f), kept)
<1>1. ASSUME NEW X \in SUBSET Told, NEW Y \in SUBSET Told
      PROVE  /\ Carried(Append(in, f), X) <=> Carried(in, X) \/ out.msg \in X
             /\ Carried(Append(in, f), Y) <=> Carried(in, Y) \/ out.msg \in Y
             /\ Apart(Append(in, f), X, Y) <=>
                    Apart(in, X, Y) /\ (Carried(in, X) => out.msg \notin Y)
  BY CarriedAppended
<1> QED BY <1>1 DEF Recedes, Coming, ComingApart, Kept

\* It has nothing more to send, or no answer.
LEMMA HushRecedes ==
    ASSUME NEW h, NEW in, NEW out, NEW kept, kept.unacked => ~kept.msg.answer
    PROVE  Recedes(h, in, out, h, in, kept)
  BY DEF Recedes, Coming, ComingApart, Kept, Told

\* Nothing comes any more.
LEMMA NothingRecedes ==
    ASSUME NEW h, NEW g, SamePart(h, g), NEW in, NEW out, NEW kept,
           kept.unacked => ~kept.msg.answer
    PROVE  Recedes(h, in, out, g, <<>>, kept)
<1>1. Len(<<>>) = 0
  OBVIOUS
<1>2. \A X, Y : ~Carried(<<>>, X) /\ Apart(<<>>, X, Y)
  BY <1>1 DEF Carried, Apart
<1> QED BY <1>2 DEF Recedes, Coming, ComingApart, Kept, Told, Partly, SamePart

----------------------------------------------------------------------------
(* Steps that take nothing further *)

\* Places in the order are numbers.
LEMMA RankType ==
    ASSUME NEW part, part.item \in Nat
    PROVE  Rank(part) \in Nat
  BY DEF Rank

\* What may be open holds no more parts than before.
NoMore(open, d, open2, d2) == \A image, n :
    WrittenBelow(open, d, image, n) => WrittenBelow(open2, d2, image, n)

\* The install waits for the same answer as before, or for none that matters.
SameTurn(h, in, out, g) ==
    /\ g.installState = "CreateSent" =>
           h.installState = "CreateSent" /\ g.pendingInstall = h.pendingInstall
    /\ g.installState # "CreateSent" /\ h.installState = "CreateSent" =>
           NoneBehind(h, in, out, Delete, Create)
    /\ Writing(g) =>
           /\ Writing(h) /\ g.installState = h.installState
           /\ g.pendingInstall = h.pendingInstall
           /\ g.installResourceIndex = h.installResourceIndex
           /\ AppBlockDue(g) => AppBlockDue(h)

\* No more is on its way than before, and in the order it was.
Milder(h, in, out, g, in2, out2) == \A S, T \in SUBSET Tracked :
    /\ OnWay(g, in2, out2, S) => OnWay(h, in, out, S)
    /\ S \intersect T = {} /\ NoneBehind(h, in, out, S, T) => NoneBehind(g, in2, out2, S, T)

\* So it is when less comes to either side.
LEMMA LessOnWay ==
    ASSUME NEW h, NEW in, NEW out, NEW g, NEW in2, NEW out2,
           Recedes(h, in, out, g, in2, out2), Eases(Due(h), Due(g))
    PROVE  Milder(h, in, out, g, in2, out2)
<1> SUFFICES ASSUME NEW S \in SUBSET Tracked, NEW T \in SUBSET Tracked
             PROVE  /\ OnWay(g, in2, out2, S) => OnWay(h, in, out, S)
                    /\ S \intersect T = {} /\ NoneBehind(h, in, out, S, T)
                       => NoneBehind(g, in2, out2, S, T)
  BY DEF Milder
<1>1. /\ Coming(g, in2, out2, Answers(S)) => Coming(h, in, out, Answers(S))
      /\ S \intersect T = {} /\ ComingApart(h, in, out, Answers(S), Answers(T))
         => ComingApart(g, in2, out2, Answers(S), Answers(T))
  BY AnswersTold DEF Recedes
<1>2. /\ Carried(Due(g), Requests(S)) => Carried(Due(h), Requests(S))
      /\ Carried(Due(g), Requests(T)) => Carried(Due(h), Requests(T))
      /\ S \intersect T = {} /\ Apart(Due(h), Requests(S), Requests(T))
         => Apart(Due(g), Requests(S), Requests(T))
  BY DEF Eases
<1> QED BY <1>1, <1>2 DEF OnWay, NoneBehind

\* The commands that matter are tracked, and different.
LEMMA TrackedApart ==
    /\ Delete \in SUBSET Tracked /\ Create \in SUBSET Tracked
    /\ SortBlock \in SUBSET Tracked /\ Writes \in SUBSET Tracked
    /\ Delete \intersect Create = {} /\ Create \intersect Delete = {}
    /\ Create \intersect Writes = {}
  BY DEF Tracked, Delete, Create, SortBlock, Writes

\* The round stays in order; what is written has to be looked at.
LEMMA StillRight ==
    ASSUME NEW h, NEW in, NEW out, NEW open, NEW d, DatabasesOK(h, in, out, open, d),
           NEW g, NEW in2, NEW out2, NEW open2, NEW d2,
           Milder(h, in, out, g, in2, out2), Eases(Due(h), Due(g)),
           SameTurn(h, in, out, g), LongIsWrite(g),
           g.pendingPadp.active => h.pendingPadp.active,
           LandBehind(Due(g), open2, d2), FreshIsEmpty(g, in2, out2, open2, d2),
           Writing(g) => WrittenBelow(open2, d2, g.pendingInstall, NextRank(g)),
           DeviceInOrder(d2)
    PROVE  DatabasesOK(g, in2, out2, open2, d2)
<1>0. /\ AllProper(Due(h)) /\ TurnsInOrder(h, in, out) /\ LandInOrder(Due(h))
      /\ Writing(h) => WritingOK(h, in, out, open, d)
  BY DEF DatabasesOK
<1>1. AllProper(Due(g)) /\ LandInOrder(Due(g))
  BY <1>0 DEF Eases
<1>3. \A S, T \in SUBSET Tracked :
          /\ OnWay(g, in2, out2, S) => OnWay(h, in, out, S)
          /\ S \intersect T = {} /\ NoneBehind(h, in, out, S, T)
             => NoneBehind(g, in2, out2, S, T)
  BY DEF Milder
<1>4. TurnsInOrder(g, in2, out2)
  <2>1. ASSUME g.installState # "CreateSent" PROVE NoneBehind(g, in2, out2, Delete, Create)
    <3>1. NoneBehind(h, in, out, Delete, Create)
      BY <1>0, <2>1 DEF TurnsInOrder, SameTurn
    <3> QED BY <1>3, <3>1, TrackedApart
  <2>2. ASSUME g.installState = "CreateSent"
        PROVE  /\ NoneBehind(g, in2, out2, Create, Delete)
               /\ NoneBehind(g, in2, out2, Create, Writes)
               /\ CreatesOf(Due(g), g.pendingInstall)
               /\ g.pendingPadp.active => ~OnWay(g, in2, out2, Create)
    <3>1. /\ NoneBehind(h, in, out, Create, Delete) /\ NoneBehind(h, in, out, Create, Writes)
          /\ CreatesOf(Due(h), h.pendingInstall) /\ g.pendingInstall = h.pendingInstall
          /\ h.pendingPadp.active => ~OnWay(h, in, out, Create)
      BY <1>0, <2>2 DEF TurnsInOrder, SameTurn
    <3>2. CreatesOf(Due(g), g.pendingInstall)
      BY <3>1 DEF Eases
    <3> QED BY <1>3, <3>1, <3>2, TrackedApart
  <2> QED BY <2>1, <2>2 DEF TurnsInOrder
<1>6. ASSUME Writing(g) PROVE WritingOK(g, in2, out2, open2, d2)
  <2>1. WritingOK(h, in, out, open, d) /\ NextRank(g) = NextRank(h)
        /\ g.pendingInstall = h.pendingInstall /\ g.installState = h.installState
        /\ (AppBlockDue(g) => AppBlockDue(h))
    BY <1>0, <1>6 DEF SameTurn, NextRank
  <2>2. /\ CreatesOf(Due(g), g.pendingInstall)
        /\ LandsBelow(Due(g), g.pendingInstall, NextRank(g))
    BY <2>1 DEF WritingOK, Eases
  <2>4. OnWay(g, in2, out2, SortBlock) => OnWay(h, in, out, SortBlock)
    BY <1>3, TrackedApart
  <2> QED BY <1>6, <2>1, <2>2, <2>4 DEF WritingOK
<1> QED BY <1>1, <1>4, <1>6 DEF DatabasesOK

\* Databases that hold no more than before stay in order, too.
LEMMA LessIsRight ==
    ASSUME NEW h, NEW in, NEW out, NEW open, NEW d, DatabasesOK(h, in, out, open, d),
           NEW g, NEW in2, NEW out2, NEW open2, NEW d2,
           Recedes(h, in, out, g, in2, out2), Eases(Due(h), Due(g)),
           SameTurn(h, in, out, g), LongIsWrite(g),
           g.pendingPadp.active => h.pendingPadp.active,
           NoMore(open, d, open2, d2), DeviceInOrder(d2)
    PROVE  DatabasesOK(g, in2, out2, open2, d2)
<1>1. Milder(h, in, out, g, in2, out2)
  BY LessOnWay
<1>2. LandBehind(Due(g), open2, d2)
  <2>1. LandBehind(Due(g), open, d)
    BY DEF DatabasesOK, Eases
  <2> QED BY <2>1 DEF LandBehind, NoMore
<1>3. FreshIsEmpty(g, in2, out2, open2, d2)
  <2>1. Coming(g, in2, out2, Opened) => Coming(h, in, out, Opened)
    BY AnswersTold DEF Recedes
  <2> QED BY <2>1 DEF DatabasesOK, FreshIsEmpty, SameTurn, NoMore
<1>4. ASSUME Writing(g)
      PROVE  WrittenBelow(open2, d2, g.pendingInstall, NextRank(g))
  <2>1. WritingOK(h, in, out, open, d) /\ NextRank(g) = NextRank(h)
        /\ g.pendingInstall = h.pendingInstall
    BY <1>4 DEF SameTurn, NextRank, DatabasesOK
  <2> QED BY <2>1 DEF WritingOK, NoMore
<1> QED BY <1>1, <1>2, <1>3, <1>4, StillRight

----------------------------------------------------------------------------
(* The Palm takes what comes next *)

\* What is due to the Palm is frames.
LEMMA DueType ==
    ASSUME NEW h \in Hosts
    PROVE  /\ Due(h) \in Seq(FramesOf(Messages))
           /\ h.pendingPadp.active => Unsent(h.pendingPadp) \in FramesOf(Messages)
<1>1. h.pendingPadp \in Pending /\ h.uart \in Seq(FramesOf(Messages))
  BY DEF Hosts, Pending
<1> DEFINE f == Unsent(h.pendingPadp)
<1>2. f \in FramesOf(Messages)
  BY <1>1, FrameType DEF Unsent, WholeFrame, Pending, Kinds
<1>3. Due(h) = IF h.pendingPadp.active THEN Append(h.uart, f) ELSE h.uart
  BY DEF Due
<1> HIDE DEF f
<1>4. Due(h) \in Seq(FramesOf(Messages))
  BY <1>1, <1>2, <1>3
<1> QED BY <1>2, <1>4 DEF f

\* The first frame of what is due is taken.
LEMMA DueTaken ==
    ASSUME NEW h \in Hosts, h.uart # <<>>, NEW g, g.uart = Tail(h.uart),
           g.pendingPadp = h.pendingPadp
    PROVE  Due(h) # <<>> /\ Head(Due(h)) = Head(h.uart) /\ Due(g) = Tail(Due(h))
<1>1. h.uart \in Seq(FramesOf(Messages))
  BY DEF Hosts
<1>2. CASE ~h.pendingPadp.active
  BY <1>2 DEF Due
<1>3. CASE h.pendingPadp.active
  <2> DEFINE f == Unsent(h.pendingPadp)
  <2>1. f \in FramesOf(Messages)
    BY <1>3, DueType
  <2>2. Due(h) = Append(h.uart, f) /\ Due(g) = Append(Tail(h.uart), f)
    BY <1>3 DEF Due
  <2> HIDE DEF f
  <2>3. /\ Append(h.uart, f) # <<>> /\ Head(Append(h.uart, f)) = Head(h.uart)
        /\ Tail(Append(h.uart, f)) = Append(Tail(h.uart), f)
    BY <1>1, <2>1
  <2> QED BY <2>2, <2>3
<1> QED BY <1>2, <1>3

\* The install is as it was.
SameInstall(h, g) == /\ g.installState = h.installState /\ g.pendingInstall = h.pendingInstall
                     /\ g.installDbId = h.installDbId
                     /\ g.installResourceIndex = h.installResourceIndex
                     /\ g.installAppBlockDone = h.installAppBlockDone
                     /\ g.installSortBlockDone = h.installSortBlockDone

\* An install that is as it was waits for the same answer.
LEMMA TurnKept ==
    ASSUME NEW h, NEW g, SameInstall(h, g), NEW in, NEW out
    PROVE  SameTurn(h, in, out, g)
  BY DEF SameInstall, SameTurn, Writing, AppBlockDue

\* A frame that is taken does no harm unless it is carried out.
LEMMA TakenIsRight ==
    ASSUME NEW h \in Hosts, h.uart # <<>>, NEW g, g = [h EXCEPT !.uart = Tail(@)],
           NEW in, NEW out, NEW open, NEW d, DatabasesOK(h, in, out, open, d),
           NEW in2, NEW out2, Recedes(h, in, out, h, in2, out2)
    PROVE  DatabasesOK(g, in2, out2, open, d)
<1>1. /\ g.uart = Tail(h.uart) /\ g.pendingPadp = h.pendingPadp /\ SameInstall(h, g)
      /\ SamePart(h, g)
  BY DEF Hosts, SameInstall, SamePart
<1>2. Eases(Due(h), Due(g))
  BY <1>1, DueTaken, DueType, TakenEases
<1>3. Recedes(h, in, out, g, in2, out2)
  BY <1>1, SameRecedes, RecedesOn
<1>4. SameTurn(h, in, out, g) /\ LongIsWrite(g)
  BY <1>1, TurnKept DEF DatabasesOK, LongIsWrite
<1>5. NoMore(open, d, open, d) /\ DeviceInOrder(d)
  BY DEF NoMore, DatabasesOK
<1> QED BY <1>1, <1>2, <1>3, <1>4, <1>5, LessIsRight

\* Nor do frames that answer nothing.
LEMMA ComingIsRight ==
    ASSUME NEW h, NEW in, NEW out, NEW open, NEW d, DatabasesOK(h, in, out, open, d),
           NEW in2, NEW out2, Recedes(h, in, out, h, in2, out2), NEW open2,
           open2 \in {open, None}
    PROVE  DatabasesOK(h, in2, out2, open2, d)
<1>1. Eases(Due(h), Due(h)) /\ SameTurn(h, in, out, h)
  BY EasesSelf, TurnKept DEF SameInstall
<1>2. NoMore(open, d, open2, d)
  BY DEF NoMore, WrittenBelow
<1> QED BY <1>1, <1>2, LessIsRight DEF DatabasesOK

\* The Palm's acknowledgement brings no answer.
LEMMA PalmAckRecedes ==
    ASSUME NEW h, NEW in \in Seq(PalmFrames), NEW out, NEW tx \in Nat
    PROVE  Recedes(h, in, out, h, Append(in, PalmAck(tx)), out)
<1>1. PalmAck(tx) \in PalmFrames
  BY PalmAckType
<1>2. PalmAck(tx).kind # "data"
  BY DEF PalmAck, Frame
<1> QED BY <1>1, <1>2, AddedRecedes

\* A frame that the Palm sends has its message.
LEMMA PalmFrameOf ==
    ASSUME NEW tx \in Nat, NEW p \in Payloads, NEW part \in Nat
    PROVE  /\ PalmFrame(tx, p, part) \in PalmFrames /\ PalmFrame(tx, p, part).kind = "data"
           /\ PalmFrame(tx, p, part).msg = p
           /\ Sending(tx, p, part).unacked /\ Sending(tx, p, part).msg = p
  BY PalmFrameType DEF PalmFrame, Frame, Sending

\* Whatever the Palm takes without carrying it out keeps the databases in order.
LEMMA TakingInOrder ==
    ASSUME IInv, InOrderOK, \/ PalmHearsNothing \/ PalmTakesAck \/ PalmTakesInit
                            \/ PalmTakesFragment \/ PalmDropsFragment \/ LineLosesToPalm
    PROVE  InOrderOK'
<1> DEFINE out == palm.out
<1>1. /\ host \in Hosts /\ toHost \in Seq(PalmFrames)
      /\ out \in [unacked : BOOLEAN, tx : Nat, msg : Payloads, part : Nat]
      /\ palm \in PalmStates
  BY PalmParts DEF IInv, TypeOK
<1>2. host.uart # <<>> /\ FrameTaken /\ device' = device
  BY DEF PalmHearsNothing, PalmTakesAck, PalmTakesInit, PalmTakesFragment, PalmDropsFragment,
         LineLosesToPalm, DataArrived
<1>3. host' = [host EXCEPT !.uart = Tail(@)]
  BY <1>2 DEF FrameTaken
<1>4. Arrived.tx \in Nat
  BY <1>2, FrameLeaves DEF IInv
<1>5. DatabasesOK(host, toHost, out, palm.open, device)
  BY DEF InOrderOK
<1>6. Recedes(host, toHost, out, host, toHost', palm'.out) /\ palm'.open = palm.open
  <2>1. Recedes(host, toHost, out, host, toHost, out)
    BY SameRecedes DEF SamePart
  <2>2. Recedes(host, toHost, out, host, Append(toHost, PalmAck(Arrived.tx)), out)
    BY <1>1, <1>4, PalmAckRecedes
  <2>3. CASE PalmHearsNothing \/ PalmDropsFragment \/ LineLosesToPalm
    BY <2>1, <2>3 DEF PalmHearsNothing, PalmDropsFragment, LineLosesToPalm
  <2>4. CASE PalmTakesFragment
    <3>1. toHost' = Append(toHost, PalmAck(Arrived.tx))
      BY <2>4 DEF PalmTakesFragment
    <3>2. palm'.out = out /\ palm'.open = palm.open
      BY <1>1, <2>4 DEF PalmTakesFragment, PalmStates
    <3> QED BY <2>2, <3>1, <3>2
  <2>5. CASE PalmTakesInit
    <3>1. toHost' = Append(toHost, PalmAck(Arrived.tx))
      BY <2>5 DEF PalmTakesInit
    <3>2. palm'.out \in {out, PalmSilent} /\ palm'.open = palm.open
      BY <1>1, <2>5 DEF PalmTakesInit, PalmStates
    <3>3. Recedes(host, Append(toHost, PalmAck(Arrived.tx)), out,
                  host, Append(toHost, PalmAck(Arrived.tx)), PalmSilent)
      BY HushRecedes DEF PalmSilent
    <3> QED BY <2>2, <3>1, <3>2, <3>3, RecedesOn
  <2>6. CASE PalmTakesAck
    <3> DEFINE next == out.part + 1
               f == PalmFrame(out.tx, out.msg, next)
               s == Sending(out.tx, out.msg, next)
    <3>1. /\ f \in PalmFrames /\ f.kind = "data" /\ f.msg = out.msg
          /\ s.unacked /\ s.msg = out.msg
      BY <1>1, PalmFrameOf
    <3>2. \/ out.unacked /\ palm' = [palm EXCEPT !.out = s] /\ toHost' = Append(toHost, f)
          \/ palm' = [palm EXCEPT !.out = PalmSilent] /\ toHost' = toHost
          \/ palm' = palm /\ toHost' = toHost
      BY <2>6 DEF PalmTakesAck
    <3> HIDE DEF f, s
    <3>3. \/ out.unacked /\ palm'.out = s /\ toHost' = Append(toHost, f)
          \/ palm'.out \in {out, PalmSilent} /\ toHost' = toHost
      BY <1>1, <3>2 DEF PalmStates
    <3>4. palm'.open = palm.open
      BY <1>1, <3>2 DEF PalmStates
    <3>5. out.unacked => Recedes(host, toHost, out, host, Append(toHost, f), s)
      BY <1>1, <3>1, AgainRecedes
    <3>6. Recedes(host, toHost, out, host, toHost, PalmSilent)
      BY HushRecedes DEF PalmSilent
    <3> QED BY <2>1, <3>3, <3>4, <3>5, <3>6
  <2> QED BY <2>3, <2>4, <2>5, <2>6
<1>7. DatabasesOK(host', toHost', palm'.out, palm.open, device)
  BY <1>1, <1>2, <1>3, <1>5, <1>6, TakenIsRight
<1> QED BY <1>2, <1>6, <1>7 DEF InOrderOK

\* So do the losses and whims that leave the host alone, and a wake.
LEMMA WhimsInOrder ==
    ASSUME IInv, InOrderOK,
           LineLosesToHost \/ PalmRepeats \/ PalmAsks \/ PalmGivesUp \/ PalmWakes
    PROVE  InOrderOK'
<1> DEFINE out == palm.out
<1>1. /\ host \in Hosts /\ toHost \in Seq(PalmFrames)
      /\ out \in [unacked : BOOLEAN, tx : Nat, msg : Payloads, part : Nat]
      /\ palm \in PalmStates
  BY PalmParts DEF IInv, TypeOK
<1>0. palm.in.tx + 1 \in Nat
  <2>1. palm.in \in [tx : Nat, parts : Nat]
    BY PalmParts DEF IInv
  <2> QED BY <2>1
<1>2. host' = host /\ device' = device
  BY DEF LineLosesToHost, PalmRepeats, PalmAsks, PalmGivesUp, PalmWakes
<1>3. DatabasesOK(host, toHost, out, palm.open, device)
  BY DEF InOrderOK
<1>4. Recedes(host, toHost, out, host, toHost', palm'.out) /\ palm'.open \in {palm.open, None}
  <2>1. CASE LineLosesToHost
    BY <1>1, <2>1, HeadRecedes DEF LineLosesToHost, SamePart
  <2>2. CASE PalmRepeats
    <3>1. /\ PalmFrame(out.tx, out.msg, out.part) \in PalmFrames
          /\ PalmFrame(out.tx, out.msg, out.part).kind = "data"
          /\ PalmFrame(out.tx, out.msg, out.part).msg = out.msg
      BY <1>1, PalmFrameOf
    <3> QED BY <1>1, <2>2, <3>1, AgainRecedes DEF PalmRepeats
  <2>3. CASE PalmAsks
    <3> DEFINE p == [NoPayload EXCEPT !.cmd = "ReadSysInfo"]
               f == PalmFrame(palm.in.tx + 1, p, 0)
               s == Sending(palm.in.tx + 1, p, 0)
    <3>1. p \in Payloads /\ ~p.answer
      BY NoPayloadType DEF Payloads, Commands, NoPayload
    <3>2. toHost' = Append(toHost, f) /\ palm' = [palm EXCEPT !.out = s]
      BY <2>3 DEF PalmAsks
    <3> HIDE DEF p
    <3>3. f \in PalmFrames /\ f.kind = "data" /\ f.msg = p /\ s.msg = p
      BY <1>0, <3>1, PalmFrameOf
    <3> HIDE DEF f, s
    <3>4. palm'.out = s /\ palm'.open = palm.open
      BY <1>1, <3>2 DEF PalmStates
    <3>5. Recedes(host, toHost, out, host, toHost, s)
      BY <3>1, <3>3, HushRecedes
    <3>6. Recedes(host, toHost, s, host, Append(toHost, f), s)
      BY <1>1, <3>1, <3>3, AddedRecedes
    <3> QED BY <3>2, <3>4, <3>5, <3>6, RecedesOn
  <2>4. CASE PalmGivesUp
    <3> DEFINE f == Frame("abort", 0, NoPayload, 0, TRUE)
    <3>1. f \in PalmFrames /\ f.kind # "data"
      BY NoPayloadType, FrameType DEF PalmFrames, Kinds, Frame
    <3>2. toHost' \in {toHost, Append(toHost, f)}
      BY <2>4 DEF PalmGivesUp
    <3> HIDE DEF f
    <3>3. palm'.out = PalmSilent /\ palm'.open = None
      BY <2>4 DEF PalmGivesUp, PalmAway
    <3>4. Recedes(host, toHost, out, host, toHost, PalmSilent)
      BY HushRecedes DEF PalmSilent
    <3>5. Recedes(host, toHost, PalmSilent, host, Append(toHost, f), PalmSilent)
      BY <1>1, <3>1, AddedRecedes
    <3> QED BY <3>2, <3>3, <3>4, <3>5, RecedesOn
  <2>5. CASE PalmWakes
    <3> DEFINE wake == [NoPayload EXCEPT !.cmd = "CmpWake"]
    <3>1. wake \in Payloads /\ ~wake.answer
      BY NoPayloadType DEF Payloads, Commands, NoPayload
    <3> HIDE DEF wake
    <3>2. PICK tx \in WakeTxs : toHost' = <<PalmFrame(tx, wake, 0)>>
      BY <2>5 DEF PalmWakes, wake
    <3>3. tx \in Nat
      BY SessionAssumption, LimitsAssumption
    <3> DEFINE f == PalmFrame(tx, wake, 0)
    <3>4. f \in PalmFrames /\ f.kind = "data" /\ f.msg = wake
      BY <3>1, <3>3, PalmFrameOf
    <3>5. toHost = <<>> /\ toHost' = <<f>> /\ palm'.out = out /\ palm'.open = palm.open
      BY <1>1, <2>5, <3>2 DEF PalmWakes, PalmStates
    <3> HIDE DEF f
    <3>6. toHost' = Append(toHost, f)
      BY <3>5
    <3>7. Recedes(host, toHost, out, host, Append(toHost, f), out)
      BY <1>1, <3>1, <3>4, AddedRecedes
    <3> QED BY <3>5, <3>6, <3>7
  <2> QED BY <2>1, <2>2, <2>3, <2>4, <2>5
<1>5. DatabasesOK(host, toHost', palm'.out, palm'.open, device)
  BY <1>3, <1>4, ComingIsRight
<1> QED BY <1>2, <1>5 DEF InOrderOK

----------------------------------------------------------------------------
(* The Palm carries out a request *)

\* An answer takes the place of its request in the round.
LEMMA AnswerInPlace ==
    ASSUME NEW h \in Hosts, NEW in \in Seq(PalmFrames), NEW out, NEW g, Due(h) # <<>>,
           Due(g) = Tail(Due(h)), g.rxPadp = h.rxPadp,
           NEW m \in Messages, ~m.answer, Head(Due(h)).kind = "data", Head(Due(h)).msg = m,
           NEW a \in PalmFrames, a.kind # "data", NEW p \in Payloads, p.answer, p.cmd = m.cmd,
           NEW f \in PalmFrames, f.kind = "data", f.msg = p,
           NEW kept, kept.unacked => kept.msg = p
    PROVE  /\ Milder(h, in, out, g, Append(Append(in, a), f), kept)
           /\ Coming(g, Append(Append(in, a), f), kept, Opened)
              => Coming(h, in, out, Opened) \/ p \in Opened
<1> DEFINE in2 == Append(Append(in, a), f)
<1>0. Due(h) \in Seq(FramesOf(Messages)) /\ Append(in, a) \in Seq(PalmFrames)
  BY DueType
<1>1. ASSUME NEW X, NEW Y
      PROVE  /\ Carried(in2, X) <=> Carried(in, X) \/ p \in X
             /\ Apart(in2, X, Y) <=> Apart(in, X, Y) /\ (Carried(in, X) => p \notin Y)
  <2>1. /\ Carried(Append(in, a), X) <=> Carried(in, X)
        /\ Apart(Append(in, a), X, Y) <=> Apart(in, X, Y)
    BY CarriedAppended
  <2> DEFINE q == Append(in, a)
  <2>2. /\ Carried(Append(q, f), X) <=> Carried(q, X) \/ p \in X
        /\ Apart(Append(q, f), X, Y) <=> Apart(q, X, Y) /\ (Carried(q, X) => p \notin Y)
    <3> HIDE DEF q
    <3>1. q \in Seq(PalmFrames)
      BY <1>0 DEF q
    <3> QED BY <3>1, CarriedAppended
  <2> QED BY <2>1, <2>2
<1>2. ASSUME NEW X, NEW Y
      PROVE  /\ Carried(Due(g), X) => Carried(Due(h), X)
             /\ Apart(Due(h), X, Y) => Apart(Due(g), X, Y)
             /\ m \in X => Carried(Due(h), X)
             /\ m \in X /\ Apart(Due(h), X, Y) => ~Carried(Due(g), Y)
  <2> DEFINE q == Due(h)
  <2>1. /\ q \in Seq(FramesOf(Messages)) /\ q # <<>>
        /\ Head(q).kind = "data" /\ Head(q).msg = m /\ Due(g) = Tail(q)
    BY <1>0
  <2> HIDE DEF q
  <2>2. /\ Carried(Tail(q), X) => Carried(q, X)
        /\ Apart(q, X, Y) => Apart(Tail(q), X, Y)
        /\ Head(q).kind = "data" /\ Head(q).msg \in X =>
               /\ Carried(q, X)
               /\ Apart(q, X, Y) => ~Carried(Tail(q), Y)
    BY <2>1, CarriedTail
  <2> QED BY <2>1, <2>2 DEF q
<1>3. \A S : (p \in Answers(S) <=> m.cmd \in S) /\ (m \in Requests(S) <=> m.cmd \in S)
  BY DEF Answers, Requests
<1>4. \A X : Partly(g, X) <=> Partly(h, X)
  BY DEF Partly
<1>5. \A X : Kept(kept, X) => p \in X
  BY DEF Kept
<1> HIDE DEF in2
<1>6. ASSUME NEW S \in SUBSET Tracked, OnWay(g, in2, kept, S)
      PROVE  OnWay(h, in, out, S)
  BY <1>1, <1>2, <1>3, <1>4, <1>5, <1>6 DEF OnWay, Coming
<1>7. ASSUME NEW S \in SUBSET Tracked, NEW T \in SUBSET Tracked, S \intersect T = {},
             NoneBehind(h, in, out, S, T)
      PROVE  NoneBehind(g, in2, kept, S, T)
  <2>0. ~(m.cmd \in S /\ m.cmd \in T)
    BY <1>7
  <2> DEFINE AS == Answers(S)
             AT == Answers(T)
             RS == Requests(S)
             RT == Requests(T)
  <2>1. /\ Apart(in, AS, AT) /\ Apart(Due(h), RS, RT)
        /\ Partly(h, AS) => ~Carried(in, AT)
        /\ Partly(h, AS) \/ Carried(in, AS) \/ Kept(out, AS) => ~Carried(Due(h), RT)
    BY <1>7 DEF NoneBehind, ComingApart, Coming
  <2>2. /\ p \in AS <=> m.cmd \in S
        /\ p \in AT <=> m.cmd \in T
        /\ m \in RS <=> m.cmd \in S
        /\ m \in RT <=> m.cmd \in T
    BY <1>3
  <2>3. /\ Carried(in2, AS) <=> Carried(in, AS) \/ p \in AS
        /\ Carried(in2, AT) <=> Carried(in, AT) \/ p \in AT
        /\ Apart(in2, AS, AT) <=> Apart(in, AS, AT) /\ (Carried(in, AS) => p \notin AT)
    BY <1>1
  <2>4. /\ Carried(Due(g), RT) => Carried(Due(h), RT)
        /\ Apart(Due(h), RS, RT) => Apart(Due(g), RS, RT)
        /\ m \in RT => Carried(Due(h), RT)
        /\ m \in RS /\ Apart(Due(h), RS, RT) => ~Carried(Due(g), RT)
    BY <1>2
  <2>5. /\ Partly(g, AS) <=> Partly(h, AS)
        /\ Kept(kept, AS) => p \in AS
        /\ Kept(kept, AT) => p \in AT
    BY <1>4, <1>5
  <2>6. ComingApart(g, in2, kept, AS, AT)
    BY <2>0, <2>1, <2>2, <2>3, <2>4, <2>5 DEF ComingApart
  <2>7. Apart(Due(g), RS, RT)
    BY <2>1, <2>4
  <2>8. Coming(g, in2, kept, AS) => ~Carried(Due(g), RT)
    BY <2>1, <2>2, <2>3, <2>4, <2>5 DEF Coming
  <2> QED BY <2>6, <2>7, <2>8 DEF NoneBehind
<1>8. Milder(h, in, out, g, in2, kept)
  BY <1>6, <1>7 DEF Milder
<1>9. Coming(g, in2, kept, Opened) => Coming(h, in, out, Opened) \/ p \in Opened
  BY <1>1, <1>4, <1>5 DEF Coming
<1> QED BY <1>8, <1>9 DEF in2

\* What a request that lands, or creates, leaves written.
LEMMA WrittenAfter ==
    ASSUME IInv, NEW m \in Messages, ErrorOf(m) # "refused", NEW image, NEW n,
           m.cmd = "CreateDB" => m.image = image,
           m.cmd \in Writes /\ m.db = 1 => m.image = image /\ Rank(m) < n,
           m.cmd = "CreateDB" \/ WrittenBelow(palm.open, device, image, n)
    PROVE  WrittenBelow(OpenAfter(m), DeviceAfter(m), image, n)
<1>0. /\ palm.open \in Images \union {None} /\ device \in Devices
      /\ m.image \in Images \union {None}
  BY PalmParts DEF IInv, Messages
<1>1. ASSUME NEW i \in Images
      PROVE  device[i] \in [present : BOOLEAN, written : Seq(Parcels)]
  BY <1>0 DEF Devices
<1>2. CASE m.cmd = "DeleteDB"
  <2>1. OpenAfter(m) = palm.open /\ DeviceAfter(m) = [device EXCEPT ![m.image] = Absent]
    BY <1>2 DEF OpenAfter, DeviceAfter, Writes
  <2>2. SUFFICES ASSUME palm.open # None
                 PROVE  /\ palm.open = image
                        /\ \A k \in 1 .. Len(DeviceAfter(m)[palm.open].written) :
                               Rank(DeviceAfter(m)[palm.open].written[k]) < n
    BY <2>1 DEF WrittenBelow
  <2>3. /\ palm.open = image
        /\ \A k \in 1 .. Len(device[palm.open].written) :
               Rank(device[palm.open].written[k]) < n
    BY <1>2, <2>2 DEF WrittenBelow
  <2>4. \/ DeviceAfter(m)[palm.open] = device[palm.open]
        \/ DeviceAfter(m)[palm.open] = Absent
    BY <1>0, <2>1, <2>2 DEF Devices
  <2>5. Len(Absent.written) = 0
    BY DEF Absent
  <2> QED BY <2>3, <2>4, <2>5
<1>3. CASE m.cmd = "CreateDB"
  <2> DEFINE made == [Absent EXCEPT !.present = TRUE]
  <2>1. OpenAfter(m) = m.image /\ DeviceAfter(m) = [device EXCEPT ![m.image] = made]
    BY <1>3 DEF OpenAfter, DeviceAfter, Writes
  <2>2. made.written = <<>>
    BY DEF Absent
  <2> HIDE DEF made
  <2>3. m.image # None => DeviceAfter(m)[m.image].written = <<>>
    BY <1>0, <2>1, <2>2 DEF Devices
  <2>4. Len(<<>>) = 0
    OBVIOUS
  <2> QED BY <1>3, <2>1, <2>3, <2>4 DEF WrittenBelow
<1>4. CASE m.cmd \in Writes
  <2> DEFINE w == device[palm.open].written
             v == Append(w, Written(m))
  <2>1. palm.open # None /\ m.db = 1 /\ palm.open \in Images
    BY <1>0, <1>4 DEF ErrorOf, Writes, Writable
  <2>2. OpenAfter(m) = palm.open
    BY <1>4 DEF OpenAfter, Writes
  <2>3. DeviceAfter(m) = [device EXCEPT ![palm.open].written = Append(@, Written(m))]
    BY <1>4 DEF DeviceAfter, Writes
  <2>4. DeviceAfter(m)[palm.open].written = v
    BY <1>0, <1>1, <2>1, <2>3 DEF Devices
  <2>5. palm.open = image /\ \A k \in 1 .. Len(w) : Rank(w[k]) < n
    BY <1>4, <2>1 DEF WrittenBelow, Writes
  <2>6. Rank(Written(m)) = Rank(m) /\ Rank(m) < n
    BY <1>4, <2>1 DEF Rank, Written
  <2>7. w \in Seq(Parcels) /\ Written(m) \in Parcels
    BY <1>1, <2>1 DEF Written, Parcels, Messages
  <2> HIDE DEF w
  <2>8. /\ Len(v) = Len(w) + 1 /\ Len(w) \in Nat /\ v[Len(w) + 1] = Written(m)
        /\ \A k \in 1 .. Len(w) : v[k] = w[k]
    BY <2>7, Appended
  <2> HIDE DEF v
  <2>9. \A k \in 1 .. Len(v) : Rank(v[k]) < n
    <3>1. \A k \in 1 .. Len(v) : k \in 1 .. Len(w) \/ k = Len(w) + 1
      BY <2>8
    <3> QED BY <2>5, <2>6, <2>8, <3>1
  <2> QED BY <2>1, <2>2, <2>4, <2>5, <2>9 DEF WrittenBelow
<1>5. CASE m.cmd \notin Writes \union {"DeleteDB", "CreateDB"}
  <2>1. OpenAfter(m) \in {palm.open, None} /\ DeviceAfter(m) = device
    BY <1>5 DEF OpenAfter, DeviceAfter
  <2> QED BY <1>5, <2>1 DEF WrittenBelow
<1> QED BY <1>2, <1>3, <1>4, <1>5

\* A part written behind all others keeps a database in order.
LEMMA PartWritten ==
    ASSUME NEW image, NEW w \in Seq(Parcels), WrittenInOrder(w, image), NEW part \in Parcels,
           part.image = image, Proper(part), \A k \in 1 .. Len(w) : Rank(w[k]) < Rank(part)
    PROVE  WrittenInOrder(Append(w, part), image)
<1> DEFINE v == Append(w, part)
<1>1. /\ Len(v) = Len(w) + 1 /\ Len(w) \in Nat /\ v[Len(w) + 1] = part
      /\ \A k \in 1 .. Len(w) : v[k] = w[k]
  BY Appended
<1> HIDE DEF v
<1>2. \A k \in 1 .. Len(v) : k \in 1 .. Len(w) \/ k = Len(w) + 1
  BY <1>1
<1>3. \A k, l \in 1 .. Len(v) : k < l => k \in 1 .. Len(w)
  BY <1>1
<1>4. WrittenInOrder(v, image)
  BY <1>1, <1>2, <1>3 DEF WrittenInOrder
<1> QED BY <1>4 DEF v

\* A request carried out leaves the databases in order: what is written comes behind.
LEMMA DeviceStaysInOrder ==
    ASSUME IInv, DeviceInOrder(device), NEW m \in Messages, ErrorOf(m) # "refused",
           m.cmd \in Writes /\ m.db = 1 =>
               Proper(m) /\ WrittenBelow(palm.open, device, m.image, Rank(m))
    PROVE  DeviceInOrder(DeviceAfter(m))
<1>0. /\ palm.open \in Images \union {None} /\ device \in Devices
      /\ m.image \in Images \union {None}
  BY PalmParts DEF IInv, Messages
<1>1. ASSUME NEW image PROVE WrittenInOrder(<<>>, image)
  <2>1. Len(<<>>) = 0
    OBVIOUS
  <2> QED BY <2>1 DEF WrittenInOrder
<1>2. CASE m.cmd \in {"DeleteDB", "CreateDB"}
  <2> DEFINE e == IF m.cmd = "DeleteDB" THEN Absent ELSE [Absent EXCEPT !.present = TRUE]
  <2>1. DeviceAfter(m) = [device EXCEPT ![m.image] = e]
    BY <1>2 DEF DeviceAfter, Writes
  <2>2. e.written = <<>>
    BY DEF Absent
  <2> HIDE DEF e
  <2>3. \A i \in Images : \/ DeviceAfter(m)[i] = device[i]
                          \/ DeviceAfter(m)[i].written = <<>>
    BY <1>0, <2>1, <2>2 DEF Devices
  <2> QED BY <1>1, <2>3 DEF DeviceInOrder
<1>3. CASE m.cmd \in Writes
  <2> DEFINE w == device[palm.open].written
  <2>1. palm.open # None /\ m.db = 1 /\ palm.open \in Images
    BY <1>0, <1>3 DEF ErrorOf, Writes, Writable
  <2>2. DeviceAfter(m) = [device EXCEPT ![palm.open].written = Append(@, Written(m))]
    BY <1>3 DEF DeviceAfter, Writes
  <2>3. device[palm.open] \in [present : BOOLEAN, written : Seq(Parcels)]
    BY <1>0, <2>1 DEF Devices
  <2>4. w \in Seq(Parcels) /\ Written(m) \in Parcels
    BY <2>3 DEF Written, Parcels, Messages
  <2>5. Proper(m) /\ palm.open = m.image /\ \A k \in 1 .. Len(w) : Rank(w[k]) < Rank(m)
    BY <1>3, <2>1 DEF WrittenBelow
  <2>6. /\ Rank(Written(m)) = Rank(m) /\ Written(m).image = m.image
        /\ (Proper(Written(m)) <=> Proper(m))
    BY DEF Rank, Written, Proper
  <2>7. WrittenInOrder(w, m.image)
    BY <2>1, <2>5 DEF DeviceInOrder
  <2>8. WrittenInOrder(Append(w, Written(m)), m.image)
    BY <2>4, <2>5, <2>6, <2>7, PartWritten
  <2>9. /\ DeviceAfter(m)[palm.open].written = Append(w, Written(m))
        /\ \A i \in Images \ {palm.open} : DeviceAfter(m)[i] = device[i]
    BY <1>0, <2>1, <2>2, <2>3 DEF Devices
  <2> HIDE DEF w
  <2> QED BY <2>5, <2>8, <2>9 DEF DeviceInOrder
<1>4. CASE m.cmd \notin Writes \union {"DeleteDB", "CreateDB"}
  BY <1>4 DEF DeviceAfter
<1> QED BY <1>2, <1>3, <1>4

\* The request that is carried out is the first that is due: nothing that may land behind it
\* stands against it.
LEMMA CarriedOut ==
    ASSUME IInv, InOrderOK, host.uart # <<>>, NEW g, Due(g) = Tail(Due(host)),
           NEW m \in Messages, ~m.answer, ErrorOf(m) # "refused",
           Due(host) # <<>>, Head(Due(host)) = Arrived, Arrived.kind = "data", Arrived.last,
           Arrived.msg = m
    PROVE  /\ LandBehind(Due(g), OpenAfter(m), DeviceAfter(m))
           /\ /\ host.installState = "CreateSent"
              /\ Coming(host, toHost, palm.out, Opened) \/ m.cmd = "CreateDB"
              => WrittenBelow(OpenAfter(m), DeviceAfter(m), host.pendingInstall, 0)
           /\ Writing(host) => WrittenBelow(OpenAfter(m), DeviceAfter(m), host.pendingInstall,
                                            NextRank(host))
           /\ DeviceInOrder(DeviceAfter(m))
<1> DEFINE q == Due(host)
           r == Tail(q)
           open == palm.open
<1>0. DatabasesOK(host, toHost, palm.out, open, device) /\ host \in Hosts
  BY DEF InOrderOK, IInv, TypeOK
<1>1. /\ q \in Seq(FramesOf(Messages)) /\ q # <<>> /\ Head(q) = Arrived /\ Due(g) = r
      /\ AllProper(q) /\ LandInOrder(q) /\ LandBehind(q, open, device)
  BY <1>0, DueType DEF DatabasesOK
<1>2. /\ Len(r) \in Nat /\ Len(q) = Len(r) + 1 /\ q[1] = Arrived
      /\ \A k \in 1 .. Len(r) : r[k] = q[k + 1]
  BY <1>1, Dropped
<1>3. /\ m.cmd \in Writes <=> m \in Requests(Writes)
      /\ m.cmd = "CreateDB" <=> m \in Requests(Create)
  BY DEF Requests, Create
<1>4. /\ m.cmd \in Writes /\ m.db = 1 => Lands(Arrived)
      /\ m.cmd = "CreateDB" => Creates(Arrived)
  BY <1>3 DEF Lands, Creates
<1>5. Carried(q, Requests(Writes)) \/ m.cmd \notin Writes
  <2>1. 1 \in 1 .. Len(q)
    BY <1>2
  <2> HIDE DEF q
  <2> QED BY <1>2, <1>3, <2>1 DEF Carried
<1> HIDE DEF q, r
<1>6. 1 \in 1 .. Len(q) /\ \A j \in 1 .. Len(r) : j + 1 \in 1 .. Len(q) /\ 1 < j + 1
  BY <1>2
<1>7. LandBehind(r, OpenAfter(m), DeviceAfter(m))
  <2>1. SUFFICES ASSUME NEW j \in 1 .. Len(r), Lands(r[j])
                 PROVE  WrittenBelow(OpenAfter(m), DeviceAfter(m), r[j].msg.image,
                                     Rank(r[j].msg))
    BY DEF LandBehind
  <2>2. r[j] = q[j + 1] /\ j + 1 \in 1 .. Len(q) /\ 1 < j + 1
    BY <1>2, <1>6
  <2>3. WrittenBelow(open, device, r[j].msg.image, Rank(r[j].msg))
    BY <1>1, <2>1, <2>2 DEF LandBehind
  <2>4. /\ Lands(q[1]) => /\ q[1].msg.image = r[j].msg.image
                          /\ Rank(q[1].msg) < Rank(r[j].msg)
        /\ Creates(q[1]) => q[1].msg.image = r[j].msg.image
    BY <1>1, <1>6, <2>1, <2>2 DEF LandInOrder
  <2> QED BY <1>2, <1>4, <2>3, <2>4, WrittenAfter
<1>8. ASSUME host.installState = "CreateSent",
             Coming(host, toHost, palm.out, Opened) \/ m.cmd = "CreateDB"
      PROVE  WrittenBelow(OpenAfter(m), DeviceAfter(m), host.pendingInstall, 0)
  <2>1. /\ CreatesOf(q, host.pendingInstall)
        /\ NoneBehind(host, toHost, palm.out, Create, Writes)
        /\ Coming(host, toHost, palm.out, Opened)
           => WrittenBelow(open, device, host.pendingInstall, 0)
    BY <1>0, <1>8 DEF DatabasesOK, TurnsInOrder, FreshIsEmpty, q
  <2>2. m.cmd = "CreateDB" => m.image = host.pendingInstall
    BY <1>2, <1>4, <1>6, <2>1 DEF CreatesOf
  <2>3. CASE m.cmd = "CreateDB"
    BY <2>2, <2>3, WrittenAfter DEF Writes
  <2>4. CASE m.cmd # "CreateDB"
    <3>1. Coming(host, toHost, palm.out, Answers(Create))
      BY <1>8, <2>4, AnswersTold DEF Coming, Partly, Kept, Carried
    <3>2. m.cmd \notin Writes
      BY <1>5, <2>1, <3>1 DEF NoneBehind, q
    <3> QED BY <1>8, <2>1, <2>4, <3>2, WrittenAfter
  <2> QED BY <2>3, <2>4
<1>9. ASSUME Writing(host)
      PROVE  WrittenBelow(OpenAfter(m), DeviceAfter(m), host.pendingInstall, NextRank(host))
  <2>1. /\ CreatesOf(q, host.pendingInstall)
        /\ LandsBelow(q, host.pendingInstall, NextRank(host))
        /\ WrittenBelow(open, device, host.pendingInstall, NextRank(host))
    BY <1>0, <1>9 DEF DatabasesOK, WritingOK, q
  <2>2. m.cmd = "CreateDB" => m.image = host.pendingInstall
    BY <1>2, <1>4, <1>6, <2>1 DEF CreatesOf
  <2>3. m.cmd \in Writes /\ m.db = 1 => /\ m.image = host.pendingInstall
                                        /\ Rank(m) < NextRank(host)
    BY <1>2, <1>4, <1>6, <2>1 DEF LandsBelow
  <2> QED BY <2>1, <2>2, <2>3, WrittenAfter
<1>10. DeviceInOrder(DeviceAfter(m))
  <2>1. DeviceInOrder(device)
    BY <1>0 DEF DatabasesOK
  <2>2. m.cmd \in Writes => Proper(m)
    BY <1>1, <1>2, <1>3, <1>6 DEF AllProper
  <2>3. m.cmd \in Writes /\ m.db = 1 => WrittenBelow(open, device, m.image, Rank(m))
    BY <1>1, <1>2, <1>4, <1>6 DEF LandBehind
  <2> QED BY <2>1, <2>2, <2>3, DeviceStaysInOrder
<1> QED BY <1>1, <1>7, <1>8, <1>9, <1>10

\* An answer, and what is done before it is sent, keep the databases in order.
LEMMA AnsweringInOrder ==
    ASSUME IInv, InOrderOK, host.uart # <<>>, FrameTaken, NEW m, m = Arrived.msg,
           Arrived.kind = "data", Arrived.last, ~m.answer,
           NEW err \in Errors, NEW open, Answered(m, err, open),
           \/ err = "refused" /\ open = palm.open /\ device' = device
           \/ /\ ErrorOf(m) # "refused" /\ open = OpenAfter(m)
              /\ device' = DeviceAfter(m)
    PROVE  InOrderOK'
<1> DEFINE p == Reply(m.cmd, err)
           a == PalmAck(Arrived.tx)
           f == PalmFrame(Arrived.tx, p, 0)
           in2 == Append(Append(toHost, a), f)
           kept == palm'.out
<1>0. /\ host \in Hosts /\ toHost \in Seq(PalmFrames) /\ palm \in PalmStates
      /\ DatabasesOK(host, toHost, palm.out, palm.open, device)
  BY PalmParts DEF IInv, TypeOK, InOrderOK, PalmFrames
<1>1. m \in Messages /\ Arrived.tx \in Nat /\ m.cmd \in Commands
  BY FrameLeaves DEF IInv, Messages
<1>2. host' = [host EXCEPT !.uart = Tail(@)]
  BY DEF FrameTaken
<1>3. /\ host'.uart = Tail(host.uart) /\ host'.pendingPadp = host.pendingPadp
      /\ SameInstall(host, host') /\ host'.rxPadp = host.rxPadp
  BY <1>0, <1>2 DEF Hosts, SameInstall
<1>4. /\ Due(host) # <<>> /\ Head(Due(host)) = Arrived /\ Due(host') = Tail(Due(host))
  BY <1>0, <1>3, DueTaken DEF Arrived
<1>5. p \in Payloads /\ p.answer /\ p.cmd = m.cmd /\ p.err = err
  <2>1. p \in Payloads
    BY <1>1, ReplyType DEF IInv
  <2> QED BY <2>1 DEF Reply
<1>6. a \in PalmFrames /\ a.kind # "data"
  <2>1. a \in PalmFrames
    BY <1>1, PalmAckType
  <2> QED BY <2>1 DEF PalmAck, Frame
<1>7. /\ f \in PalmFrames /\ f.kind = "data" /\ f.msg = p
      /\ Sending(Arrived.tx, p, 0).msg = p
  BY <1>1, <1>5, PalmFrameOf
<1>8. toHost' = in2
  <2>1. toHost' = toHost \o <<a, f>>
    BY DEF Answered
  <2> HIDE DEF a, f
  <2> QED BY <1>0, <1>6, <1>7, <2>1
<1>9. (kept.unacked => kept.msg = p) /\ palm'.open = open
  <2> DEFINE s == Sending(Arrived.tx, p, 0)
             out == IF m.cmd = "EndOfSync" THEN PalmSilent ELSE s
             mode == IF m.cmd = "EndOfSync" THEN "away" ELSE palm.mode
             named == palm.named \/ m.cmd = "WriteUserInfo"
  <2>1. palm' = [palm EXCEPT !.mode = mode, !.in = PalmDeaf, !.out = out, !.open = open,
                             !.named = named]
    BY DEF Answered
  <2>2. out.unacked => out.msg = p
    BY <1>7 DEF PalmSilent
  <2> HIDE DEF out, mode, named, p
  <2> QED BY <1>0, <2>1, <2>2 DEF PalmStates
<1> HIDE DEF p, a, f, kept
<1>10. /\ Milder(host, toHost, palm.out, host', in2, kept)
       /\ Coming(host', in2, kept, Opened)
          => Coming(host, toHost, palm.out, Opened) \/ p \in Opened
  BY <1>0, <1>1, <1>3, <1>4, <1>5, <1>6, <1>7, <1>9, AnswerInPlace
<1> HIDE DEF in2
<1>11. Eases(Due(host), Due(host'))
  BY <1>0, <1>4, DueType, TakenEases
<1>12. SameTurn(host, toHost, palm.out, host') /\ LongIsWrite(host')
  BY <1>0, <1>3, TurnKept DEF DatabasesOK, LongIsWrite
<1>13. /\ LandBehind(Due(host'), open, device')
       /\ FreshIsEmpty(host', in2, kept, open, device')
       /\ Writing(host') => WrittenBelow(open, device', host'.pendingInstall, NextRank(host'))
       /\ DeviceInOrder(device')
  <2>0. NextRank(host') = NextRank(host) /\ (Writing(host') => Writing(host))
    BY <1>3 DEF NextRank, Writing, SameInstall
  <2>1. CASE err = "refused" /\ open = palm.open /\ device' = device
    <3>1. p \notin Opened
      BY <1>5, <2>1 DEF Opened
    <3>2. LandBehind(Due(host'), open, device')
      BY <1>0, <1>11, <2>1 DEF DatabasesOK, Eases
    <3>3. FreshIsEmpty(host', in2, kept, open, device')
      BY <1>0, <1>3, <1>10, <2>1, <3>1 DEF DatabasesOK, FreshIsEmpty, SameInstall
    <3> QED BY <1>0, <1>3, <2>0, <2>1, <3>2, <3>3 DEF DatabasesOK, WritingOK, SameInstall
  <2>2. CASE ErrorOf(m) # "refused" /\ open = OpenAfter(m) /\ device' = DeviceAfter(m)
    <3>1. p \in Opened => m.cmd = "CreateDB"
      BY <1>5 DEF Opened, Answers, Create
    <3>2. /\ LandBehind(Due(host'), OpenAfter(m), DeviceAfter(m))
          /\ /\ host.installState = "CreateSent"
             /\ Coming(host, toHost, palm.out, Opened) \/ m.cmd = "CreateDB"
             => WrittenBelow(OpenAfter(m), DeviceAfter(m), host.pendingInstall, 0)
          /\ Writing(host) => WrittenBelow(OpenAfter(m), DeviceAfter(m),
                                           host.pendingInstall, NextRank(host))
          /\ DeviceInOrder(DeviceAfter(m))
      BY <1>1, <1>4, <2>2, CarriedOut
    <3>3. FreshIsEmpty(host', in2, kept, open, device')
      BY <1>3, <1>10, <2>2, <3>1, <3>2 DEF FreshIsEmpty, SameInstall
    <3> QED BY <1>3, <2>0, <2>2, <3>2, <3>3 DEF SameInstall
  <2> QED BY <2>1, <2>2
<1>14. DatabasesOK(host', in2, kept, open, device')
  BY <1>0, <1>3, <1>10, <1>11, <1>12, <1>13, StillRight
<1> QED BY <1>8, <1>9, <1>14 DEF InOrderOK, kept

\* So the Palm keeps them in order, whether it carries out a request or refuses it.
LEMMA ExecutingInOrder ==
    ASSUME IInv, InOrderOK, PalmExecutes \/ PalmRefuses
    PROVE  InOrderOK'
<1> DEFINE m == Arrived.msg
<1>1. /\ host.uart # <<>> /\ FrameTaken /\ Arrived.kind = "data" /\ Arrived.last
  BY DEF PalmExecutes, PalmRefuses, DataArrived
<1>2. Arrived.tx \in Nat /\ m \in Messages
  BY <1>1, FrameLeaves DEF IInv
<1>3. CASE PalmRefuses
  <2>1. Answered(m, "refused", palm.open) /\ device' = device /\ ~m.answer
    BY <1>3 DEF PalmRefuses
  <2> QED BY <1>1, <2>1, AnsweringInOrder DEF Errors
<1>4. CASE PalmExecutes /\ ~(m.answer \/ m.cmd = "CmpInit") /\ ErrorOf(m) = "refused"
  <2>1. Answered(m, "refused", palm.open) /\ device' = device
    BY <1>4 DEF PalmExecutes
  <2> QED BY <1>1, <1>4, <2>1, AnsweringInOrder DEF Errors
<1>5. CASE PalmExecutes /\ ~(m.answer \/ m.cmd = "CmpInit") /\ ErrorOf(m) # "refused"
  <2>1. Answered(m, ErrorOf(m), OpenAfter(m)) /\ device' = DeviceAfter(m)
    BY <1>5 DEF PalmExecutes
  <2> QED BY <1>1, <1>2, <1>5, <2>1, AnsweringInOrder, ErrorType
<1>6. CASE PalmExecutes /\ (m.answer \/ m.cmd = "CmpInit")
  <2>1. /\ toHost' = Append(toHost, PalmAck(Arrived.tx)) /\ device' = device
        /\ palm' = [palm EXCEPT !.in = PalmDeaf]
    BY <1>6 DEF PalmExecutes
  <2>2. /\ host \in Hosts /\ toHost \in Seq(PalmFrames) /\ palm \in PalmStates
        /\ DatabasesOK(host, toHost, palm.out, palm.open, device)
    BY PalmParts DEF IInv, TypeOK, InOrderOK, PalmFrames
  <2>3. palm'.out = palm.out /\ palm'.open = palm.open
    BY <2>1, <2>2 DEF PalmStates
  <2>4. Recedes(host, toHost, palm.out, host, toHost', palm'.out)
    BY <1>2, <2>1, <2>2, <2>3, PalmAckRecedes
  <2>5. host' = [host EXCEPT !.uart = Tail(@)]
    BY <1>1 DEF FrameTaken
  <2>6. DatabasesOK(host', toHost', palm'.out, palm.open, device)
    BY <1>1, <2>2, <2>4, <2>5, TakenIsRight
  <2> QED BY <2>1, <2>3, <2>6 DEF InOrderOK
<1> QED BY <1>3, <1>4, <1>5, <1>6

----------------------------------------------------------------------------
(* The host sends *)

\* A frame that does not matter is written.
LEMMA QuietFrameDue ==
    ASSUME NEW h \in Hosts, NEW g, NEW a \in FramesOf(Messages), ~Matters(a),
           g.uart = Append(h.uart, a), g.pendingPadp = h.pendingPadp
    PROVE  Eases(Due(h), Due(g))
<1>1. h.uart \in Seq(FramesOf(Messages))
  BY DEF Hosts
<1>2. CASE ~h.pendingPadp.active
  BY <1>1, <1>2, AddedEases DEF Due
<1>3. CASE h.pendingPadp.active
  <2> DEFINE f == Unsent(h.pendingPadp)
  <2>1. f \in FramesOf(Messages)
    BY <1>3, DueType
  <2>2. Due(h) = Append(h.uart, f) /\ Due(g) = Append(Append(h.uart, a), f)
    BY <1>3 DEF Due
  <2> HIDE DEF f
  <2> QED BY <1>1, <2>1, <2>2, BetweenEases
<1> QED BY <1>2, <1>3

\* A send is given up.
LEMMA SilenceDue ==
    ASSUME NEW h \in Hosts, NEW g, g.uart = h.uart, g.pendingPadp = NotSending
    PROVE  Eases(Due(h), Due(g)) /\ ~g.pendingPadp.active
<1>0. h.uart \in Seq(FramesOf(Messages)) /\ ~g.pendingPadp.active
  BY DEF Hosts, NotSending
<1>1. Due(g) = h.uart
  BY <1>0 DEF Due
<1>2. CASE ~h.pendingPadp.active
  BY <1>0, <1>1, <1>2, EasesSelf DEF Due
<1>3. CASE h.pendingPadp.active
  <2>1. Due(h) = Append(h.uart, Unsent(h.pendingPadp))
    BY <1>3 DEF Due
  <2> QED BY <1>0, <1>1, <1>3, <2>1, DueType, FewerEases
<1> QED BY <1>0, <1>2, <1>3

\* A fragment is written: a part of what is sent is on the line, the rest still waits.
LEMMA FragmentDue ==
    ASSUME NEW h \in Hosts, NEW g, g = SendNextPadpFragment(h)
    PROVE  /\ Eases(Due(h), Due(g))
           /\ g.pendingPadp.active =>
                  /\ h.pendingPadp.active /\ g.pendingPadp.msg = h.pendingPadp.msg
                  /\ h.pendingPadp.offset = 0 => h.pendingPadp.msg.size >= 2
           /\ SameInstall(h, g) /\ g.rxPadp = h.rxPadp
<1>1. CASE ~h.pendingPadp.active
  BY <1>1, EasesSelf DEF SendNextPadpFragment, SameInstall
<1>2. CASE h.pendingPadp.active
  <2> DEFINE p == h.pendingPadp
             end == p.offset + 1 >= Chunks(p.msg.size)
             f == Frame("data", p.tx, p.msg, p.offset, end)
             q == IF end THEN NotSending ELSE [p EXCEPT !.offset = @ + 1]
  <2>0. p \in Pending /\ h.uart \in Seq(FramesOf(Messages)) /\ end \in BOOLEAN
    BY DEF Hosts, Pending
  <2>1. g = [h EXCEPT !.uart = Append(@, f), !.pendingPadp = q]
    <3>1. g = IF ~h.pendingPadp.active THEN h
              ELSE [h EXCEPT !.uart = Append(@, f), !.pendingPadp = q]
      BY DEF SendNextPadpFragment
    <3> HIDE DEF f, q, p
    <3> QED BY <1>2, <3>1
  <2>2. f \in FramesOf(Messages)
    <3> HIDE DEF end
    <3> QED BY <2>0, FrameType DEF Pending, Kinds
  <2>3. f.kind = "data" /\ f.msg = p.msg /\ f.last = end
    BY DEF Frame
  <2>4. end => f = Unsent(p)
    BY DEF Unsent, WholeFrame
  <2>5. /\ end => q = NotSending
        /\ ~end => q.active /\ q.msg = p.msg /\ q.tx = p.tx /\ q.offset = p.offset + 1
    BY <1>2, <2>0 DEF Pending
  <2>6. ~end /\ p.offset = 0 => p.msg.size >= 2
    BY <2>0 DEF Chunks, Pending, Messages
  <2>7. Due(h) = Append(h.uart, Unsent(p))
    BY <1>2 DEF Due
  <2>8. Unsent(p) \in FramesOf(Messages) /\ Unsent(p).kind = "data" /\ Unsent(p).msg = p.msg
        /\ Unsent(p).last
    BY <1>2, DueType DEF Unsent, WholeFrame, Frame
  <2> HIDE DEF f, q, p, end
  <2>9. /\ g.uart = Append(h.uart, f) /\ g.pendingPadp = q /\ SameInstall(h, g)
        /\ g.rxPadp = h.rxPadp
    BY <2>1 DEF Hosts, SameInstall
  <2>10. CASE end
    <3>1. Due(g) = Due(h)
      BY <2>4, <2>5, <2>7, <2>9, <2>10 DEF Due, NotSending
    <3> QED BY <2>5, <2>9, <2>10, <3>1, EasesSelf DEF NotSending
  <2>11. CASE ~end
    <3>1. Unsent(q) \in FramesOf(Messages) /\ Unsent(q).kind = "data"
          /\ Unsent(q).msg = p.msg /\ Unsent(q).last
      <4>1. q.tx \in Nat /\ q.msg \in Messages /\ q.offset \in Nat
        BY <2>0, <2>5, <2>11 DEF Pending
      <4>2. Unsent(q) \in FramesOf(Messages)
        BY <4>1, FrameType DEF Unsent, WholeFrame, Kinds
      <4> QED BY <2>5, <2>11, <4>2 DEF Unsent, WholeFrame, Frame
    <3>2. Due(g) = Append(Append(h.uart, f), Unsent(q))
      BY <2>5, <2>9, <2>11 DEF Due
    <3>3. ~f.last
      BY <2>3, <2>11
    <3>4. Eases(Due(h), Due(g))
      BY <2>0, <2>2, <2>3, <2>7, <2>8, <3>1, <3>2, <3>3, BetweenEases
    <3> QED BY <1>2, <2>5, <2>6, <2>9, <2>11, <3>4 DEF p
  <2> QED BY <2>10, <2>11
<1> QED BY <1>1, <1>2

\* What stays as it is whenever the host tries to send.
Keeping(h, g) == /\ g.rxPadp = h.rxPadp /\ g.pendingInstall = h.pendingInstall
                 /\ g.installDbId = h.installDbId
                 /\ g.installResourceIndex = h.installResourceIndex

\* The message is at the end of what is due; a part of it may still wait if it is long.
Sent(h, g, msg) ==
    /\ Keeping(h, g) /\ ~h.pendingPadp.active
    /\ \E tx \in Nat : Eases(Append(Due(h), WholeFrame(tx, msg, 0)), Due(g))
    /\ g.pendingPadp.active => g.pendingPadp.msg = msg /\ msg.size >= 2
    /\ g.installAppBlockDone = h.installAppBlockDone
    /\ g.installSortBlockDone = h.installSortBlockDone

\* Nothing is sent, and the blocks that were written are forgotten.
NotSent(h, g) == /\ Keeping(h, g) /\ g.uart = h.uart /\ g.pendingPadp = h.pendingPadp
                 /\ ~g.installAppBlockDone /\ ~g.installSortBlockDone

\* The host sends, or fails because it is sending already or the message is too long.
Tries(h, g, msg) == \/ Sent(h, g, msg) /\ g.installState = h.installState
                    \/ /\ NotSent(h, g) /\ g.installState = "Failed"
                       /\ h.pendingPadp.active \/ msg.size >= DataMax - 1

\* A failed install.
LEMMA FailureTries ==
    ASSUME NEW h \in Hosts, NEW msg, msg.size >= DataMax - 1 \/ h.pendingPadp.active
    PROVE  Tries(h, FailInstall(h), msg)
<1> DEFINE g == FailInstall(h)
<1>1. NotSent(h, g) /\ g.installState = "Failed"
  BY DEF FailInstall, NotSent, Keeping, Hosts
<1> QED BY <1>1 DEF Tries

\* SendPadpData tries to send.
LEMMA DataTries ==
    ASSUME NEW h \in Hosts, NEW tx \in Nat, NEW msg \in Messages
    PROVE  Tries(h, SendPadpData(h, tx, msg), msg)
<1>1. CASE h.pendingPadp.active \/ msg.size >= DataMax - 1
  BY <1>1, FailureTries DEF SendPadpData
<1>2. CASE ~(h.pendingPadp.active \/ msg.size >= DataMax - 1)
  <2> DEFINE send == [active |-> TRUE, tx |-> tx, msg |-> msg, offset |-> 0]
             k == [h EXCEPT !.pendingPadp = send]
             g == SendNextPadpFragment(k)
  <2>1. send \in Pending
    BY DEF Pending
  <2>2. send.active /\ send.tx = tx /\ send.msg = msg /\ send.offset = 0
    OBVIOUS
  <2>3. SendPadpData(h, tx, msg) = g
    BY <1>2 DEF SendPadpData
  <2> HIDE DEF send
  <2>4. k \in Hosts
    BY <2>1 DEF Hosts, Pending
  <2>5. /\ k.uart = h.uart /\ k.pendingPadp = send /\ SameInstall(h, k)
        /\ k.rxPadp = h.rxPadp
    BY DEF Hosts, SameInstall
  <2> HIDE DEF k, g
  <2>6. /\ Eases(Due(k), Due(g))
        /\ g.pendingPadp.active => g.pendingPadp.msg = msg /\ msg.size >= 2
        /\ SameInstall(k, g) /\ g.rxPadp = k.rxPadp
    BY <2>2, <2>4, <2>5, FragmentDue DEF g
  <2>7. Due(k) = Append(Due(h), WholeFrame(tx, msg, 0))
    BY <1>2, <2>2, <2>5 DEF Due, Unsent
  <2>8. Sent(h, g, msg) /\ g.installState = h.installState
    BY <1>2, <2>5, <2>6, <2>7 DEF Sent, Keeping, SameInstall
  <2> QED BY <2>3, <2>8 DEF Tries
<1> QED BY <1>1, <1>2

\* So does the host under its own number,
LEMMA OwnTries ==
    ASSUME NEW h \in Hosts, NEW msg \in Messages
    PROVE  Tries(h, SendOwn(h, msg), msg)
<1> DEFINE s == SendPadpData(h, h.hostPadpTxId, msg)
           g == SendOwn(h, msg)
<1>1. h.hostPadpTxId \in Nat
  BY DEF Hosts
<1>2. Tries(h, s, msg) /\ s \in Hosts
  BY <1>1, DataTries, DataSent DEF Sends
<1>3. g = [s EXCEPT !.hostPadpTxId = NextPadpTxId(@)]
  BY DEF SendOwn
<1> HIDE DEF s, g
<1>4. /\ g.uart = s.uart /\ g.pendingPadp = s.pendingPadp /\ g.rxPadp = s.rxPadp
      /\ SameInstall(s, g)
  BY <1>2, <1>3 DEF Hosts, SameInstall
<1>5. Due(g) = Due(s)
  BY <1>4 DEF Due
<1>6. Tries(h, g, msg)
  BY <1>2, <1>4, <1>5 DEF Tries, Sent, NotSent, Keeping, SameInstall
<1> QED BY <1>6 DEF g

\* and with a request.
LEMMA RequestTries ==
    ASSUME NEW h \in Hosts, NEW cmd \in Commands, NEW item \in Nat, NEW size \in Nat
    PROVE  LET msg == Message(cmd, h.pendingInstall, item, h.installDbId, size, FALSE)
           IN  /\ msg \in Messages /\ msg.size = size
               /\ Tries(h, SendDlpRequestWithArg(h, cmd, item, size), msg)
<1> DEFINE msg == Message(cmd, h.pendingInstall, item, h.installDbId, size, FALSE)
<1>1. msg \in Messages
  BY MessageType DEF Hosts
<1>2. msg.size = size
  BY DEF Message
<1>3. SendDlpRequestWithArg(h, cmd, item, size)
          = IF size >= DataMax THEN FailInstall(h) ELSE SendOwn(h, msg)
  BY DEF SendDlpRequestWithArg
<1> HIDE DEF msg
<1>4. size >= DataMax => msg.size >= DataMax - 1
  BY <1>2, LimitsAssumption
<1>5. Tries(h, SendDlpRequestWithArg(h, cmd, item, size), msg)
  BY <1>1, <1>3, <1>4, OwnTries, FailureTries
<1> QED BY <1>1, <1>2, <1>5 DEF msg

\* Afterwards the caller sets the state.
Requested(h, g, msg) == Sent(h, g, msg) \/ NotSent(h, g)

\* A request that was tried is made, or not, whatever the caller makes of the state.
LEMMA StateRequested ==
    ASSUME NEW h, NEW msg, NEW s \in Hosts, Tries(h, s, msg), NEW state,
           NEW g, g = [s EXCEPT !.installState = state]
    PROVE  Requested(h, g, msg) /\ g.installState = state
<1>1. /\ g.uart = s.uart /\ g.pendingPadp = s.pendingPadp /\ g.rxPadp = s.rxPadp
      /\ g.pendingInstall = s.pendingInstall /\ g.installDbId = s.installDbId
      /\ g.installResourceIndex = s.installResourceIndex
      /\ g.installAppBlockDone = s.installAppBlockDone
      /\ g.installSortBlockDone = s.installSortBlockDone /\ g.installState = state
  BY DEF Hosts
<1>2. Due(g) = Due(s)
  BY <1>1 DEF Due
<1> QED BY <1>1, <1>2 DEF Tries, Requested, Sent, NotSent, Keeping

----------------------------------------------------------------------------
(* Requests of an install *)

\* The part of the invariant that does not look at what the host waits for.
LineOK(h, open, d) == /\ LongIsWrite(h) /\ AllProper(Due(h)) /\ LandInOrder(Due(h))
                      /\ LandBehind(Due(h), open, d) /\ DeviceInOrder(d)

\* One frame more is due.
LEMMA LineAppended ==
    ASSUME NEW S, NEW q \in Seq(S), NEW f \in S
    PROVE  /\ /\ AllProper(q)
              /\ f.kind = "data" /\ f.msg \in Requests(Writes) => Proper(f.msg)
              => AllProper(Append(q, f))
           /\ LandInOrder(q) /\ (Lands(f) => LandsAfter(q, f)) => LandInOrder(Append(q, f))
           /\ \A image : CreatesOf(q, image) /\ (Creates(f) => f.msg.image = image)
                         => CreatesOf(Append(q, f), image)
           /\ \A image, n : /\ LandsBelow(q, image, n)
                            /\ Lands(f) => f.msg.image = image /\ Rank(f.msg) < n
                            => LandsBelow(Append(q, f), image, n)
           /\ \A open, d : /\ LandBehind(q, open, d)
                           /\ Lands(f) => WrittenBelow(open, d, f.msg.image, Rank(f.msg))
                           => LandBehind(Append(q, f), open, d)
<1> DEFINE r == Append(q, f)
           n == Len(q) + 1
<1>1. /\ Len(r) = n /\ Len(q) \in Nat /\ r[n] = f
      /\ \A k \in 1 .. Len(q) : r[k] = q[k]
  BY Appended
<1> HIDE DEF r
<1>2. \A k \in 1 .. Len(r) : k \in 1 .. Len(q) \/ k = n
  BY <1>1
<1>3. \A i, j \in 1 .. Len(r) : i < j => i \in 1 .. Len(q)
  BY <1>1
<1> HIDE DEF n
<1>4. AllProper(q) /\ (f.kind = "data" /\ f.msg \in Requests(Writes) => Proper(f.msg))
      => AllProper(r)
  BY <1>1, <1>2 DEF AllProper
<1>5. ASSUME LandInOrder(q), Lands(f) => LandsAfter(q, f)
      PROVE  LandInOrder(r)
  BY <1>1, <1>2, <1>3, <1>5 DEF LandInOrder, LandsAfter
<1>6. ASSUME NEW image, CreatesOf(q, image), Creates(f) => f.msg.image = image
      PROVE  CreatesOf(r, image)
  BY <1>1, <1>2, <1>6 DEF CreatesOf
<1>7. ASSUME NEW image, NEW m, LandsBelow(q, image, m),
             Lands(f) => f.msg.image = image /\ Rank(f.msg) < m
      PROVE  LandsBelow(r, image, m)
  BY <1>1, <1>2, <1>7 DEF LandsBelow
<1>8. ASSUME NEW open, NEW d, LandBehind(q, open, d),
             Lands(f) => WrittenBelow(open, d, f.msg.image, Rank(f.msg))
      PROVE  LandBehind(r, open, d)
  BY <1>1, <1>2, <1>8 DEF LandBehind
<1> QED BY <1>4, <1>5, <1>6, <1>7, <1>8 DEF r

\* What is due after a request was tried.
LEMMA RequestedDue ==
    ASSUME NEW h \in Hosts, NEW msg \in Messages, NEW g, Requested(h, g, msg)
    PROVE  \/ Eases(Due(h), Due(g)) /\ g.pendingPadp = h.pendingPadp
           \/ /\ \E f \in FramesOf(Messages) :
                     /\ f.kind = "data" /\ f.msg = msg
                     /\ Eases(Append(Due(h), f), Due(g))
              /\ g.pendingPadp.active => g.pendingPadp.msg = msg /\ msg.size >= 2
<1>1. CASE NotSent(h, g)
  <2>1. Due(g) = Due(h) /\ g.pendingPadp = h.pendingPadp
    BY <1>1 DEF NotSent, Due
  <2> QED BY <2>1, EasesSelf
<1>2. CASE Sent(h, g, msg)
  <2>1. PICK tx \in Nat : Eases(Append(Due(h), WholeFrame(tx, msg, 0)), Due(g))
    BY <1>2 DEF Sent
  <2>2. WholeFrame(tx, msg, 0) \in FramesOf(Messages)
    BY FrameType DEF WholeFrame, Kinds
  <2>3. WholeFrame(tx, msg, 0).kind = "data" /\ WholeFrame(tx, msg, 0).msg = msg
    BY DEF WholeFrame, Frame
  <2> QED BY <1>2, <2>1, <2>2, <2>3 DEF Sent
<1> QED BY <1>1, <1>2 DEF Requested

\* Only a write to this database lands.
LandsFor(msg) == msg \in Requests(Writes) /\ msg.db = 1

\* A request that may land has to come behind all that is due and written.
LEMMA RequestOnLine ==
    ASSUME NEW h \in Hosts, NEW msg \in Messages, NEW g, Requested(h, g, msg)
    PROVE  /\ \A open, d :
                  /\ LineOK(h, open, d)
                  /\ msg \in Requests(Writes) => Proper(msg)
                  /\ msg.size >= 2 => msg \in Requests(Writes)
                  /\ LandsFor(msg) =>
                         /\ CreatesOf(Due(h), msg.image)
                         /\ LandsBelow(Due(h), msg.image, Rank(msg))
                         /\ WrittenBelow(open, d, msg.image, Rank(msg))
                  => LineOK(g, open, d)
           /\ \A image : /\ CreatesOf(Due(h), image)
                         /\ msg \in Requests(Create) => msg.image = image
                         => CreatesOf(Due(g), image)
           /\ \A image, n : /\ LandsBelow(Due(h), image, n)
                            /\ LandsFor(msg) => msg.image = image /\ Rank(msg) < n
                            => LandsBelow(Due(g), image, n)
<1> DEFINE q == Due(h)
<1>0. q \in Seq(FramesOf(Messages))
  BY DueType
<1>1. CASE Eases(Due(h), Due(g)) /\ g.pendingPadp = h.pendingPadp
  BY <1>1 DEF Eases, LineOK, LongIsWrite
<1>2. CASE /\ \E f \in FramesOf(Messages) :
                  /\ f.kind = "data" /\ f.msg = msg
                  /\ Eases(Append(Due(h), f), Due(g))
           /\ g.pendingPadp.active => g.pendingPadp.msg = msg /\ msg.size >= 2
  <2>1. PICK f \in FramesOf(Messages) : /\ f.kind = "data" /\ f.msg = msg
                                        /\ Eases(Append(q, f), Due(g))
    BY <1>2
  <2> DEFINE r == Append(q, f)
  <2>2. (Lands(f) => LandsFor(msg)) /\ (Creates(f) => msg \in Requests(Create))
    BY <2>1 DEF Lands, LandsFor, Creates
  <2>3. /\ /\ AllProper(q)
           /\ f.kind = "data" /\ f.msg \in Requests(Writes) => Proper(f.msg)
           => AllProper(r)
        /\ LandInOrder(q) /\ (Lands(f) => LandsAfter(q, f)) => LandInOrder(r)
        /\ \A image : CreatesOf(q, image) /\ (Creates(f) => f.msg.image = image)
                      => CreatesOf(r, image)
        /\ \A image, n : /\ LandsBelow(q, image, n)
                         /\ Lands(f) => f.msg.image = image /\ Rank(f.msg) < n
                         => LandsBelow(r, image, n)
        /\ \A open, d : /\ LandBehind(q, open, d)
                        /\ Lands(f) => WrittenBelow(open, d, f.msg.image, Rank(f.msg))
                        => LandBehind(r, open, d)
    BY <1>0, LineAppended
  <2>4. /\ AllProper(r) => AllProper(Due(g))
        /\ LandInOrder(r) => LandInOrder(Due(g))
        /\ \A image : CreatesOf(r, image) => CreatesOf(Due(g), image)
        /\ \A image, n : LandsBelow(r, image, n) => LandsBelow(Due(g), image, n)
        /\ \A open, d : LandBehind(r, open, d) => LandBehind(Due(g), open, d)
    BY <2>1 DEF Eases
  <2>5. CreatesOf(q, msg.image) /\ LandsBelow(q, msg.image, Rank(msg)) => LandsAfter(q, f)
    BY <2>1 DEF CreatesOf, LandsBelow, LandsAfter
  <2> HIDE DEF q, r
  <2>6. ASSUME NEW open, NEW d, LineOK(h, open, d), msg \in Requests(Writes) => Proper(msg),
               msg.size >= 2 => msg \in Requests(Writes),
               LandsFor(msg) => /\ CreatesOf(q, msg.image)
                                /\ LandsBelow(q, msg.image, Rank(msg))
                                /\ WrittenBelow(open, d, msg.image, Rank(msg))
        PROVE  LineOK(g, open, d)
    <3>1. AllProper(q) /\ LandInOrder(q) /\ LandBehind(q, open, d) /\ DeviceInOrder(d)
      BY <2>6 DEF LineOK, q
    <3>2. AllProper(Due(g))
      BY <2>1, <2>3, <2>4, <2>6, <3>1
    <3>3. LandInOrder(Due(g))
      BY <2>2, <2>3, <2>4, <2>5, <2>6, <3>1
    <3>4. LandBehind(Due(g), open, d)
      BY <2>1, <2>2, <2>3, <2>4, <2>6, <3>1
    <3>5. LongIsWrite(g)
      BY <1>2, <2>6 DEF LongIsWrite
    <3> QED BY <3>1, <3>2, <3>3, <3>4, <3>5 DEF LineOK
  <2>7. ASSUME NEW image, CreatesOf(q, image), msg \in Requests(Create) => msg.image = image
        PROVE  CreatesOf(Due(g), image)
    BY <2>1, <2>2, <2>3, <2>4, <2>7
  <2>8. ASSUME NEW image, NEW n, LandsBelow(q, image, n),
               LandsFor(msg) => msg.image = image /\ Rank(msg) < n
        PROVE  LandsBelow(Due(g), image, n)
    BY <2>1, <2>2, <2>3, <2>4, <2>8
  <2> QED BY <2>6, <2>7, <2>8 DEF q
<1> QED BY <1>1, <1>2, RequestedDue

\* Its place in the round is the last.
LEMMA RequestOnWay ==
    ASSUME NEW h \in Hosts, NEW msg \in Messages, NEW g, Requested(h, g, msg),
           NEW in, NEW out, NEW S \in SUBSET Tracked, NEW T \in SUBSET Tracked
    PROVE  /\ OnWay(g, in, out, S) => OnWay(h, in, out, S) \/ msg \in Requests(S)
           /\ /\ S \intersect T = {} /\ NoneBehind(h, in, out, S, T)
              /\ msg \in Requests(T) => ~OnWay(h, in, out, S)
              => NoneBehind(g, in, out, S, T)
           /\ \A X : Coming(g, in, out, X) <=> Coming(h, in, out, X)
<1> DEFINE q == Due(h)
           AS == Answers(S)
           AT == Answers(T)
           RS == Requests(S)
           RT == Requests(T)
<1>0. q \in Seq(FramesOf(Messages))
  BY DueType
<1>1. g.rxPadp = h.rxPadp
  BY DEF Requested, Sent, NotSent, Keeping
<1>2. /\ \A X : Coming(g, in, out, X) <=> Coming(h, in, out, X)
      /\ \A X, Y : ComingApart(g, in, out, X, Y) <=> ComingApart(h, in, out, X, Y)
  BY <1>1 DEF Coming, ComingApart, Partly
<1>3. /\ Carried(Due(g), RS) => Carried(q, RS) \/ msg \in RS
      /\ Carried(Due(g), RT) => Carried(q, RT) \/ msg \in RT
      /\ S \intersect T = {} /\ Apart(q, RS, RT) /\ (Carried(q, RS) => msg \notin RT)
         => Apart(Due(g), RS, RT)
  <2>1. CASE Eases(Due(h), Due(g))
    BY <2>1 DEF Eases
  <2>2. CASE \E f \in FramesOf(Messages) : /\ f.kind = "data" /\ f.msg = msg
                                           /\ Eases(Append(Due(h), f), Due(g))
    <3>1. PICK f \in FramesOf(Messages) : /\ f.kind = "data" /\ f.msg = msg
                                          /\ Eases(Append(q, f), Due(g))
      BY <2>2
    <3>2. /\ Carried(Append(q, f), RS) <=> Carried(q, RS) \/ (f.kind = "data" /\ f.msg \in RS)
          /\ Apart(Append(q, f), RS, RT) <=>
                 /\ Apart(q, RS, RT)
                 /\ Carried(q, RS) /\ f.kind = "data" => f.msg \notin RT
      BY <1>0, CarriedAppended
    <3>3. Carried(Append(q, f), RT) <=> Carried(q, RT) \/ (f.kind = "data" /\ f.msg \in RT)
      BY <1>0, CarriedAppended
    <3>4. /\ Carried(Due(g), RS) => Carried(Append(q, f), RS)
          /\ Carried(Due(g), RT) => Carried(Append(q, f), RT)
          /\ S \intersect T = {} /\ Apart(Append(q, f), RS, RT) => Apart(Due(g), RS, RT)
      BY <3>1 DEF Eases
    <3> HIDE DEF q
    <3> QED BY <3>1, <3>2, <3>3, <3>4
  <2> QED BY <2>1, <2>2, RequestedDue
<1>4. OnWay(g, in, out, S) => OnWay(h, in, out, S) \/ msg \in RS
  BY <1>2, <1>3 DEF OnWay
<1>5. ASSUME S \intersect T = {}, NoneBehind(h, in, out, S, T),
             msg \in RT => ~OnWay(h, in, out, S)
      PROVE  NoneBehind(g, in, out, S, T)
  <2>1. /\ ComingApart(h, in, out, AS, AT) /\ Apart(q, RS, RT)
        /\ Coming(h, in, out, AS) => ~Carried(q, RT)
    BY <1>5 DEF NoneBehind
  <2>2. msg \in RT => ~Coming(h, in, out, AS) /\ ~Carried(q, RS)
    BY <1>5 DEF OnWay
  <2>3. Apart(Due(g), RS, RT)
    BY <1>3, <1>5, <2>1, <2>2
  <2>4. Coming(g, in, out, AS) => ~Carried(Due(g), RT)
    BY <1>2, <1>3, <2>1, <2>2
  <2> QED BY <1>2, <2>1, <2>3, <2>4 DEF NoneBehind
<1> QED BY <1>2, <1>4, <1>5

\* What is not on its way is behind nothing, and nothing is behind it.
LEMMA NotOnWay ==
    ASSUME NEW h, NEW in, NEW out, NEW S, ~OnWay(h, in, out, S), NEW T
    PROVE  NoneBehind(h, in, out, S, T) /\ NoneBehind(h, in, out, T, S)
<1>1. \A q, X, Y : ~Carried(q, X) => Apart(q, X, Y) /\ Apart(q, Y, X)
  BY DEF Carried, Apart
<1> QED BY <1>1 DEF OnWay, NoneBehind, Coming, ComingApart

\* While these hold, the host writes.
Writers == {"AppBlockSent", "SortBlockSent", "WritingResource"}

\* A request that is neither a Create nor a write keeps the order: the host deletes, closes,
\* ends the sync or fails.
LEMMA QuietRequest ==
    ASSUME NEW h \in Hosts, NEW msg \in Messages, msg \notin Requests(Create),
           msg \notin Requests(Writes), msg.size < 2, NEW g, Requested(h, g, msg),
           NEW in, NEW out, NEW open, NEW d, LineOK(h, open, d),
           NoneBehind(h, in, out, Delete, Create),
           g.installState # "CreateSent", g.installState \notin Writers
    PROVE  DatabasesOK(g, in, out, open, d)
<1>1. ~(msg.size >= 2) /\ ~LandsFor(msg)
  BY DEF Messages, LandsFor
<1>2. LineOK(g, open, d)
  BY <1>1, RequestOnLine
<1>3. NoneBehind(g, in, out, Delete, Create)
  BY RequestOnWay, TrackedApart
<1>4. TurnsInOrder(g, in, out) /\ FreshIsEmpty(g, in, out, open, d) /\ ~Writing(g)
  BY <1>3 DEF TurnsInOrder, FreshIsEmpty, Writing, Writers
<1> QED BY <1>2, <1>4 DEF DatabasesOK, LineOK

\* Creating is asked for when no creation is on its way.
LEMMA CreateRequest ==
    ASSUME NEW h \in Hosts, NEW msg \in Messages, msg \in Requests(Create),
           msg.image = h.pendingInstall, msg.size < 2, NEW g, Requested(h, g, msg),
           NEW in, NEW out, NEW open, NEW d, LineOK(h, open, d),
           ~OnWay(h, in, out, Create), g.installState = "CreateSent"
    PROVE  DatabasesOK(g, in, out, open, d)
<1>0. ~(msg.size >= 2) /\ msg \notin Requests(Writes) /\ msg \notin Requests(Delete)
  BY DEF Messages, Requests, Create, Writes, Delete
<1>1. LineOK(g, open, d)
  BY <1>0, RequestOnLine DEF LandsFor
<1>2. /\ NoneBehind(h, in, out, Create, Delete) /\ NoneBehind(h, in, out, Create, Writes)
      /\ ~Carried(Due(h), Requests(Create)) /\ ~Coming(h, in, out, Answers(Create))
  BY NotOnWay DEF OnWay
<1>3. NoneBehind(g, in, out, Create, Delete) /\ NoneBehind(g, in, out, Create, Writes)
  BY <1>0, <1>2, RequestOnWay, TrackedApart
<1>4. CreatesOf(Due(g), g.pendingInstall)
  <2>1. g.pendingInstall = h.pendingInstall
    BY DEF Requested, Sent, NotSent, Keeping
  <2>2. CreatesOf(Due(h), h.pendingInstall)
    BY <1>2 DEF CreatesOf, Creates, Carried
  <2> QED BY <2>1, <2>2, RequestOnLine
<1>5. g.pendingPadp.active => ~OnWay(g, in, out, Create)
  <2>1. CASE NotSent(h, g)
    <3>1. Due(g) = Due(h) /\ g.rxPadp = h.rxPadp
      BY <2>1 DEF NotSent, Due, Keeping
    <3> QED BY <3>1 DEF OnWay, Coming, Partly
  <2>2. CASE Sent(h, g, msg)
    BY <1>0, <2>2 DEF Sent
  <2> QED BY <2>1, <2>2 DEF Requested
<1>6. FreshIsEmpty(g, in, out, open, d)
  <2>1. ~Coming(g, in, out, Opened)
    <3>1. ~Coming(h, in, out, Opened)
      BY <1>2, AnswersTold DEF Coming, Partly, Kept, Carried
    <3> QED BY <3>1, RequestOnWay, TrackedApart
  <2> QED BY <2>1 DEF FreshIsEmpty
<1>7. TurnsInOrder(g, in, out) /\ ~Writing(g)
  BY <1>3, <1>4, <1>5 DEF TurnsInOrder, Writing
<1> QED BY <1>1, <1>6, <1>7 DEF DatabasesOK, LineOK

----------------------------------------------------------------------------
(* Writes of an install *)

\* What comes before a part comes before the later ones.
LEMMA LaterBound ==
    ASSUME NEW q \in Seq(FramesOf(Messages)), NEW open \in Images \union {None},
           NEW d \in Devices, NEW image, NEW n \in Nat, NEW m \in Nat, n <= m
    PROVE  /\ LandsBelow(q, image, n) => LandsBelow(q, image, m)
           /\ WrittenBelow(open, d, image, n) => WrittenBelow(open, d, image, m)
<1>1. ASSUME NEW k \in 1 .. Len(q) PROVE Rank(q[k].msg) \in Nat
  <2>1. q[k] \in FramesOf(Messages)
    OBVIOUS
  <2>2. q[k].msg.item \in Nat
    BY <2>1 DEF FramesOf, Messages
  <2> QED BY <2>2, RankType
<1>2. ASSUME open # None, NEW k \in 1 .. Len(d[open].written)
      PROVE  Rank(d[open].written[k]) \in Nat
  <2>1. d[open].written \in Seq(Parcels)
    BY <1>2 DEF Devices
  <2>2. d[open].written[k] \in Parcels
    BY <1>2, <2>1
  <2> QED BY <2>2, RankType DEF Parcels
<1>3. \A r \in Nat : r < n => r < m
  OBVIOUS
<1> QED BY <1>1, <1>2, <1>3 DEF LandsBelow, WrittenBelow

\* A host about to send the next part of the database that was created for it: nothing on
\* its way or written comes after the parts before the n-th, and no answer may take it back.
Ready(h, in, out, open, d, n) ==
    /\ LineOK(h, open, d) /\ NoneBehind(h, in, out, Delete, Create)
    /\ h.installDbId = 1 =>
           /\ CreatesOf(Due(h), h.pendingInstall)
           /\ LandsBelow(Due(h), h.pendingInstall, n)
           /\ WrittenBelow(open, d, h.pendingInstall, n)
           /\ AppBlockDue(h) => n = 0
           /\ SortBlockDue(h) => n <= 1
           /\ n <= h.installResourceIndex + 2
           /\ AppBlockDue(h) \/ SortBlockDue(h) => ~OnWay(h, in, out, SortBlock)

\* A write of the next part.
LEMMA WriteRequest ==
    ASSUME NEW h \in Hosts, NEW in, NEW out, NEW open \in Images \union {None},
           NEW d \in Devices, NEW n \in Nat, Ready(h, in, out, open, d, n),
           NEW msg \in Messages, msg \in Requests(Writes), Proper(msg),
           msg.image = h.pendingInstall, msg.db = h.installDbId,
           NEW g, Requested(h, g, msg), g.installState \in Writers,
           h.installDbId = 1 =>
               /\ n <= Rank(msg) /\ NextRank(g) = Rank(msg) + 1
               /\ \/ g.installState = "AppBlockSent"
                  \/ g.installState = "SortBlockSent" /\ AppBlockDue(g)
                  => ~OnWay(g, in, out, SortBlock)
    PROVE  DatabasesOK(g, in, out, open, d)
<1> DEFINE r == Rank(msg)
<1>0. /\ r \in Nat /\ r + 1 \in Nat /\ r < r + 1 /\ r <= r + 1
      /\ Due(h) \in Seq(FramesOf(Messages))
  <2>1. r \in Nat
    BY RankType DEF Messages
  <2> HIDE DEF r
  <2> QED BY <2>1, DueType
<1> HIDE DEF r
<1>1. LineOK(h, open, d) /\ NoneBehind(h, in, out, Delete, Create)
  BY DEF Ready
<1>2. ASSUME h.installDbId = 1
      PROVE  /\ CreatesOf(Due(h), msg.image) /\ LandsBelow(Due(h), msg.image, r)
             /\ LandsBelow(Due(h), msg.image, r + 1)
             /\ WrittenBelow(open, d, msg.image, r)
             /\ WrittenBelow(open, d, msg.image, r + 1)
  <2>1. /\ CreatesOf(Due(h), msg.image) /\ LandsBelow(Due(h), msg.image, n)
        /\ WrittenBelow(open, d, msg.image, n)
    BY <1>2 DEF Ready
  <2>2. n <= r
    BY <1>2 DEF r
  <2>3. LandsBelow(Due(h), msg.image, r) /\ WrittenBelow(open, d, msg.image, r)
    BY <1>0, <2>1, <2>2, LaterBound
  <2> QED BY <1>0, <2>1, <2>3, LaterBound
<1>3. LandsFor(msg) <=> h.installDbId = 1
  BY DEF LandsFor
<1>4. LineOK(g, open, d)
  BY <1>1, <1>2, <1>3, RequestOnLine DEF r
<1>5. msg \notin Requests(Create) /\ msg \notin Requests(Delete)
  BY DEF Requests, Create, Delete, Writes
<1>6. NoneBehind(g, in, out, Delete, Create)
  BY <1>1, <1>5, RequestOnWay, TrackedApart
<1>7. g.pendingInstall = h.pendingInstall /\ g.installDbId = h.installDbId
  BY DEF Requested, Sent, NotSent, Keeping
<1>8. ASSUME Writing(g) PROVE WritingOK(g, in, out, open, d)
  <2>1. h.installDbId = 1 /\ NextRank(g) = r + 1
    BY <1>7, <1>8 DEF Writing, r
  <2>2. CreatesOf(Due(g), msg.image)
    BY <1>2, <1>5, <2>1, RequestOnLine
  <2>3. LandsBelow(Due(g), msg.image, r + 1)
    BY <1>0, <1>2, <2>1, RequestOnLine DEF r
  <2> QED BY <1>2, <1>7, <2>1, <2>2, <2>3 DEF WritingOK
<1>9. g.installState # "CreateSent"
  BY DEF Writers
<1> QED BY <1>4, <1>6, <1>8, <1>9 DEF DatabasesOK, LineOK, TurnsInOrder, FreshIsEmpty

\* A block is asked for like any request.
LEMMA BlockTries ==
    ASSUME NEW h \in Hosts, NEW cmd \in Commands, NEW size \in Nat
    PROVE  LET msg == Message(cmd, h.pendingInstall, 0, h.installDbId, size, FALSE)
           IN  msg \in Messages /\ Tries(h, SendDlpWriteBlock(h, cmd, size), msg)
<1> DEFINE msg == Message(cmd, h.pendingInstall, 0, h.installDbId, size, FALSE)
<1>1. /\ msg \in Messages /\ msg.size = size
      /\ Tries(h, SendDlpRequestWithArg(h, cmd, 0, size), msg)
  BY RequestTries
<1> HIDE DEF msg
<1>2. size > DataMax => msg.size >= DataMax - 1
  BY <1>1, LimitsAssumption
<1>3. Tries(h, SendDlpWriteBlock(h, cmd, size), msg)
  BY <1>1, <1>2, FailureTries DEF SendDlpWriteBlock
<1> QED BY <1>1, <1>3 DEF msg

\* The blocks come first.
LEMMA BlockInOrder ==
    ASSUME NEW h \in Hosts, h.pendingInstall \in Images, NEW in, NEW out,
           NEW open \in Images \union {None}, NEW d \in Devices, NEW n \in Nat,
           Ready(h, in, out, open, d, n), NEW cmd, NEW size, NEW state,
           \/ /\ AppBlockDue(h) /\ cmd = "WriteAppBlock" /\ state = "AppBlockSent"
              /\ size = Info[h.pendingInstall].app
           \/ /\ ~AppBlockDue(h) /\ SortBlockDue(h) /\ cmd = "WriteSortBlock"
              /\ state = "SortBlockSent" /\ size = Info[h.pendingInstall].sort
    PROVE  DatabasesOK([SendDlpWriteBlock(h, cmd, size) EXCEPT !.installState = state],
                       in, out, open, d)
<1> DEFINE msg == Message(cmd, h.pendingInstall, 0, h.installDbId, size, FALSE)
           s == SendDlpWriteBlock(h, cmd, size)
           g == [s EXCEPT !.installState = state]
<1>1. size \in Nat /\ size > 0 /\ cmd \in Commands /\ cmd \in Writes
  BY InfoType DEF AppBlockDue, SortBlockDue, Commands, Writes
<1>2. msg \in Messages /\ Tries(h, s, msg) /\ s \in Hosts
  BY <1>1, BlockTries, BlockSent DEF Sends
<1>3. /\ msg.cmd = cmd /\ msg.image = h.pendingInstall /\ msg.db = h.installDbId
      /\ msg.item = 0 /\ ~msg.answer
  BY DEF Message
<1> HIDE DEF msg, s
<1>4. Requested(h, g, msg) /\ g.installState = state
  BY <1>2, StateRequested
<1> HIDE DEF g
<1>5. msg \in Requests(Writes) /\ Proper(msg)
  BY <1>1, <1>2, <1>3 DEF Requests, Proper, AppBlockDue, SortBlockDue
<1>6. h.installResourceIndex \in Nat
  BY DEF Hosts
<1>7. ASSUME h.installDbId = 1
      PROVE  /\ n <= Rank(msg) /\ NextRank(g) = Rank(msg) + 1
             /\ \/ g.installState = "AppBlockSent"
                \/ g.installState = "SortBlockSent" /\ AppBlockDue(g)
                => ~OnWay(g, in, out, SortBlock)
  <2>1. /\ AppBlockDue(h) => n = 0
        /\ SortBlockDue(h) => n <= 1
        /\ ~OnWay(h, in, out, SortBlock)
    BY <1>7 DEF Ready
  <2>2. CASE AppBlockDue(h)
    <3>1. Rank(msg) = 0 /\ NextRank(g) = 1
      BY <1>3, <1>4, <2>2 DEF Rank, NextRank
    <3>2. msg \notin Requests(SortBlock)
      BY <1>3, <2>2 DEF Requests, SortBlock
    <3>3. ~OnWay(g, in, out, SortBlock)
      BY <1>2, <1>4, <2>1, <3>2, RequestOnWay, TrackedApart
    <3> QED BY <2>1, <2>2, <3>1, <3>3
  <2>3. CASE ~AppBlockDue(h)
    <3>1. Rank(msg) = 1 /\ NextRank(g) = 2 /\ g.installState = "SortBlockSent"
      BY <1>3, <1>4, <2>3 DEF Rank, NextRank
    <3>2. AppBlockDue(g) => ~OnWay(g, in, out, SortBlock)
      <4>1. CASE Sent(h, g, msg)
        BY <2>3, <4>1 DEF Sent, Keeping, AppBlockDue
      <4>2. CASE NotSent(h, g)
        <5>1. Due(g) = Due(h) /\ g.rxPadp = h.rxPadp
          BY <4>2 DEF NotSent, Keeping, Due
        <5> QED BY <2>1, <5>1 DEF OnWay, Coming, Partly
      <4> QED BY <1>4, <4>1, <4>2 DEF Requested
    <3> QED BY <2>1, <2>3, <3>1, <3>2
  <2> QED BY <2>2, <2>3
<1>8. g.installState \in Writers
  BY <1>4 DEF Writers
<1>9. DatabasesOK(g, in, out, open, d)
  BY <1>2, <1>3, <1>4, <1>5, <1>7, <1>8, WriteRequest
<1> QED BY <1>9 DEF g, s

\* A failure of the host's own sends nothing.
LEMMA FailureInOrder ==
    ASSUME NEW h \in Hosts, NEW in, NEW out, NEW open, NEW d, LineOK(h, open, d),
           NoneBehind(h, in, out, Delete, Create)
    PROVE  DatabasesOK(FailInstall(h), in, out, open, d)
<1> DEFINE g == FailInstall(h)
<1>1. NotSent(h, g) /\ g.installState = "Failed"
  BY DEF FailInstall, NotSent, Keeping, Hosts
<1> HIDE DEF g
<1>2. /\ NoMessage \notin Requests(Create) /\ NoMessage \notin Requests(Writes)
      /\ NoMessage.size < 2
  BY DEF NoMessage, Message, Requests, Create, Writes
<1>3. Requested(h, g, NoMessage) /\ NoMessage \in Messages
  BY <1>1, NoMessageType DEF Requested
<1>4. g.installState # "CreateSent" /\ g.installState \notin Writers
  BY <1>1 DEF Writers
<1>5. DatabasesOK(g, in, out, open, d)
  BY <1>2, <1>3, <1>4, QuietRequest
<1> QED BY <1>5 DEF g

\* A delete, a close or the end of the sync.
LEMMA EndingInOrder ==
    ASSUME NEW h \in Hosts, NEW in, NEW out, NEW open, NEW d, LineOK(h, open, d),
           NoneBehind(h, in, out, Delete, Create)
    PROVE  /\ DatabasesOK(SendDlpDeleteDb(h), in, out, open, d)
           /\ DatabasesOK(SendDlpCloseDb(h), in, out, open, d)
           /\ DatabasesOK(SendDlpEndOfSync(h), in, out, open, d)
<1>1. ASSUME NEW cmd \in {"DeleteDB", "CloseDB", "EndOfSync"},
             NEW state \in {"DeleteSent", "CloseSent", "EndSent"}
      PROVE  DatabasesOK([SendDlpRequestWithArg(h, cmd, 0, 1) EXCEPT !.installState = state],
                         in, out, open, d)
  <2> DEFINE msg == Message(cmd, h.pendingInstall, 0, h.installDbId, 1, FALSE)
             s == SendDlpRequestWithArg(h, cmd, 0, 1)
             g == [s EXCEPT !.installState = state]
  <2>1. cmd \in Commands
    BY DEF Commands
  <2>2. msg \in Messages /\ msg.size = 1 /\ Tries(h, s, msg)
    BY <2>1, RequestTries
  <2>3. msg.cmd = cmd
    BY DEF Message
  <2>a. s \in Hosts
    BY <2>1, RequestSent DEF Sends
  <2> HIDE DEF msg, s
  <2>4. Requested(h, g, msg) /\ g.installState = state
    BY <2>2, <2>a, StateRequested
  <2>5. msg \notin Requests(Create) /\ msg \notin Requests(Writes) /\ msg.size < 2
    BY <2>2, <2>3 DEF Requests, Create, Writes
  <2> HIDE DEF g
  <2>6. DatabasesOK(g, in, out, open, d)
    BY <2>2, <2>4, <2>5, QuietRequest DEF Writers
  <2> QED BY <2>6 DEF g, s
<1> QED BY <1>1 DEF SendDlpDeleteDb, SendDlpCloseDb, SendDlpEndOfSync

\* Then the items, by their numbers.
LEMMA ItemInOrder ==
    ASSUME NEW h \in Hosts, h.pendingInstall \in Images, NEW in, NEW out,
           NEW open \in Images \union {None}, NEW d \in Devices, NEW n \in Nat,
           Ready(h, in, out, open, d, n), ItemDue(h)
    PROVE  DatabasesOK(SendNextItem(h), in, out, open, d)
<1> DEFINE item == h.installResourceIndex + 1
           cmd == WriteCommand(h.pendingInstall)
           size == Info[h.pendingInstall].items[item]
           s == SendDlpRequestWithArg(h, cmd, item, size)
           msg == Message(cmd, h.pendingInstall, item, h.installDbId, size, FALSE)
           g == [s EXCEPT !.installState = "WritingResource"]
<1>0. item \in 1 .. Len(Info[h.pendingInstall].items) /\ item \in Nat
      /\ h.installResourceIndex \in Nat
  BY InfoType DEF Hosts, ItemDue
<1>1. size \in Nat
  BY <1>0, InfoType
<1>2. cmd \in Commands /\ cmd \in Writes /\ cmd \notin {"WriteAppBlock", "WriteSortBlock"}
  BY DEF WriteCommand, Commands, Writes
<1>3. SendNextItem(h) = IF size > DataMax THEN FailInstall(h) ELSE g
  BY DEF SendNextItem
<1>4. /\ msg.cmd = cmd /\ msg.image = h.pendingInstall /\ msg.db = h.installDbId
      /\ msg.item = item /\ ~msg.answer
  BY DEF Message
<1>a. DatabasesOK(FailInstall(h), in, out, open, d)
  BY FailureInOrder DEF Ready
<1> HIDE DEF size
<1>5. msg \in Messages /\ Tries(h, s, msg) /\ s \in Hosts
  <2> HIDE DEF item, cmd
  <2> QED BY <1>0, <1>1, <1>2, RequestTries, RequestSent DEF Sends
<1>6. Proper(msg)
  <2> HIDE DEF msg
  <2> QED BY <1>0, <1>4 DEF Proper
<1> HIDE DEF msg, s
<1>7. Requested(h, g, msg) /\ g.installState = "WritingResource"
  BY <1>5, StateRequested
<1> HIDE DEF g
<1>8. Rank(msg) = h.installResourceIndex + 2
  <2>1. Rank(msg) = item + 1
    BY <1>2, <1>4 DEF Rank
  <2> QED BY <1>0, <2>1
<1> HIDE DEF cmd
<1>9. h.installDbId = 1 => n <= Rank(msg)
  BY <1>8 DEF Ready
<1>10. NextRank(g) = Rank(msg) + 1
  <2>1. g.installResourceIndex = h.installResourceIndex
    BY <1>7 DEF Requested, Sent, NotSent, Keeping
  <2> QED BY <1>0, <1>7, <1>8, <2>1 DEF NextRank
<1>11. msg \in Requests(Writes)
  BY <1>2, <1>4, <1>5 DEF Requests
<1>12. DatabasesOK(g, in, out, open, d)
  BY <1>4, <1>5, <1>6, <1>7, <1>9, <1>10, <1>11, WriteRequest DEF Writers
<1> QED BY <1>3, <1>a, <1>12

\* Whatever the next request of an install is, the order is kept.
LEMMA NextInOrder ==
    ASSUME NEW h \in Hosts, h.pendingInstall \in Images, NEW in, NEW out,
           NEW open \in Images \union {None}, NEW d \in Devices, NEW n \in Nat,
           Ready(h, in, out, open, d, n)
    PROVE  DatabasesOK(SendNextInstallItem(h), in, out, open, d)
<1>1. CASE AppBlockDue(h)
  BY <1>1, BlockInOrder DEF SendNextInstallItem
<1>2. CASE ~AppBlockDue(h) /\ SortBlockDue(h)
  BY <1>2, BlockInOrder DEF SendNextInstallItem
<1>3. CASE ~AppBlockDue(h) /\ ~SortBlockDue(h) /\ ItemDue(h)
  BY <1>3, ItemInOrder DEF SendNextInstallItem
<1>4. CASE ~AppBlockDue(h) /\ ~SortBlockDue(h) /\ ~ItemDue(h)
  BY <1>4, EndingInOrder DEF SendNextInstallItem, Ready
<1> QED BY <1>1, <1>2, <1>3, <1>4

----------------------------------------------------------------------------
(* The host answers a message of the Palm *)

\* A call that leaves the line and what was received alone leaves everything on its way.
LEMMA SameWay ==
    ASSUME NEW h, NEW k, SameLine(h, k), k.rxPadp = h.rxPadp
    PROVE  /\ Due(k) = Due(h)
           /\ \A open, d : LineOK(h, open, d) => LineOK(k, open, d)
           /\ \A in, out, S : OnWay(k, in, out, S) <=> OnWay(h, in, out, S)
           /\ \A in, out, S, T : NoneBehind(k, in, out, S, T) <=> NoneBehind(h, in, out, S, T)
           /\ \A in, out : Recedes(h, in, out, k, in, out)
<1>1. Due(k) = Due(h)
  BY DEF Due, SameLine
<1>2. \A in, out, X : Coming(k, in, out, X) <=> Coming(h, in, out, X)
  BY DEF Coming, Partly
<1>3. \A in, out, X, Y : ComingApart(k, in, out, X, Y) <=> ComingApart(h, in, out, X, Y)
  BY DEF ComingApart, Partly
<1>4. \A open, d : LineOK(h, open, d) => LineOK(k, open, d)
  BY <1>1 DEF LineOK, LongIsWrite, SameLine
<1>5. \A in, out : Recedes(h, in, out, k, in, out)
  BY SameRecedes DEF SamePart
<1> QED BY <1>1, <1>2, <1>3, <1>4, <1>5 DEF OnWay, NoneBehind

\* So does one that only changes what the install waits for.
LEMMA TurnInOrder ==
    ASSUME NEW h, NEW k, SameLine(h, k), k.rxPadp = h.rxPadp, NEW in, NEW out,
           SameTurn(h, in, out, k), NEW open, NEW d, DatabasesOK(h, in, out, open, d)
    PROVE  DatabasesOK(k, in, out, open, d)
<1>1. Eases(Due(h), Due(k)) /\ Recedes(h, in, out, k, in, out)
  BY SameWay, EasesSelf
<1>2. LongIsWrite(k) /\ (k.pendingPadp.active => h.pendingPadp.active)
  BY DEF DatabasesOK, LongIsWrite, SameLine
<1>3. NoMore(open, d, open, d) /\ DeviceInOrder(d)
  BY DEF NoMore, DatabasesOK
<1> QED BY <1>1, <1>2, <1>3, LessIsRight

\* While a message is being sent no creation is on its way that a delete could follow.
LEMMA BusyApart ==
    ASSUME NEW h, NEW in, NEW out, NEW open, NEW d, DatabasesOK(h, in, out, open, d),
           h.installState = "CreateSent" => h.pendingPadp.active
    PROVE  NoneBehind(h, in, out, Delete, Create) /\ LineOK(h, open, d)
<1>1. TurnsInOrder(h, in, out) /\ LineOK(h, open, d)
  BY DEF DatabasesOK, LineOK
<1>2. h.installState = "CreateSent" => ~OnWay(h, in, out, Create)
  BY <1>1 DEF TurnsInOrder
<1> QED BY <1>1, <1>2, NotOnWay DEF TurnsInOrder

\* A message that is none of an install's leaves it as it is, or fails it.
LEMMA OtherInOrder ==
    ASSUME NEW h \in Hosts, NEW in, NEW out, NEW open, NEW d,
           DatabasesOK(h, in, out, open, d), NEW msg \in Messages,
           msg \notin Requests(Tracked), msg.size = 1, NEW g, Tries(h, g, msg)
    PROVE  DatabasesOK(g, in, out, open, d)
<1>1. CASE Sent(h, g, msg) /\ g.installState = h.installState
  <2>1. SameInstall(h, g) /\ g.rxPadp = h.rxPadp /\ ~g.pendingPadp.active
    BY <1>1 DEF Sent, Keeping, SameInstall
  <2>2. PICK tx \in Nat : Eases(Append(Due(h), WholeFrame(tx, msg, 0)), Due(g))
    BY <1>1 DEF Sent
  <2> DEFINE f == WholeFrame(tx, msg, 0)
             q == Due(h)
  <2>3. f \in FramesOf(Messages) /\ f.msg = msg
    BY FrameType DEF WholeFrame, Kinds, Frame
  <2>4. ~Matters(f) /\ q \in Seq(FramesOf(Messages))
    BY <2>3, DueType DEF Matters
  <2> HIDE DEF f, q
  <2>5. Eases(q, Append(q, f))
    BY <2>3, <2>4, AddedEases
  <2>6. Eases(Due(h), Due(g))
    BY <2>2, <2>5, EasesOn DEF q, f
  <2>7. Recedes(h, in, out, g, in, out) /\ SameTurn(h, in, out, g)
    BY <2>1, SameRecedes, TurnKept DEF SamePart
  <2>8. LongIsWrite(g) /\ NoMore(open, d, open, d) /\ DeviceInOrder(d)
    BY <2>1 DEF LongIsWrite, NoMore, DatabasesOK
  <2> QED BY <2>1, <2>6, <2>7, <2>8, LessIsRight
<1>2. CASE /\ NotSent(h, g) /\ g.installState = "Failed"
           /\ h.pendingPadp.active \/ msg.size >= DataMax - 1
  <2>1. h.pendingPadp.active
    BY <1>2, LimitsAssumption
  <2>2. NoneBehind(h, in, out, Delete, Create) /\ LineOK(h, open, d)
    BY <2>1, BusyApart
  <2>3. msg \notin Requests(Create) /\ msg \notin Requests(Writes) /\ msg.size < 2
    BY DEF Requests, Tracked
  <2> QED BY <1>2, <2>2, <2>3, QuietRequest DEF Requested, Writers
<1> QED BY <1>1, <1>2 DEF Tries

\* The requests about the user are of that kind,
LEMMA UserInfoInOrder ==
    ASSUME NEW h \in Hosts, NEW in, NEW out, NEW open, NEW d,
           DatabasesOK(h, in, out, open, d)
    PROVE  /\ DatabasesOK(SendDlpReadUserInfo(h), in, out, open, d)
           /\ DatabasesOK(SendDlpWriteUserInfo(h), in, out, open, d)
<1> DEFINE g == [h EXCEPT !.dlpReadUserInfoQueued = FALSE, !.dlpReadUserInfoSent = TRUE]
           k == [h EXCEPT !.dlpWriteUserInfoSent = TRUE]
           read == Message("ReadUserInfo", None, 0, 0, 1, FALSE)
           write == Message("WriteUserInfo", None, 0, 0, 1, FALSE)
<1>1. g \in Hosts /\ SameLine(h, g) /\ SameInstall(h, g) /\ g.rxPadp = h.rxPadp
  BY DEF Hosts, SameLine, SameInstall
<1>2. k \in Hosts /\ SameLine(h, k) /\ SameInstall(h, k) /\ k.rxPadp = h.rxPadp
  BY DEF Hosts, SameLine, SameInstall
<1>3. read \in Messages /\ write \in Messages
  BY MessageType DEF Commands
<1>4. /\ read \notin Requests(Tracked) /\ write \notin Requests(Tracked)
      /\ read.size = 1 /\ write.size = 1
  BY DEF Requests, Tracked, Message, Delete, Create, Writes
<1>5. SendDlpReadUserInfo(h) = SendOwn(g, read) /\ SendDlpWriteUserInfo(h) = SendOwn(k, write)
  BY DEF SendDlpReadUserInfo, SendDlpWriteUserInfo
<1> HIDE DEF g, k, read, write
<1>6. DatabasesOK(g, in, out, open, d) /\ DatabasesOK(k, in, out, open, d)
  BY <1>1, <1>2, TurnKept, TurnInOrder
<1>7. Tries(g, SendOwn(g, read), read) /\ Tries(k, SendOwn(k, write), write)
  BY <1>1, <1>2, <1>3, OwnTries
<1> QED BY <1>1, <1>2, <1>3, <1>4, <1>5, <1>6, <1>7, OtherInOrder

\* and so are the host's own answers.
LEMMA OwnAnswerInOrder ==
    ASSUME NEW h \in Hosts, NEW in, NEW out, NEW open, NEW d,
           DatabasesOK(h, in, out, open, d), NEW tx \in Nat, NEW cmd \in Commands
    PROVE  DatabasesOK(SendPadpData(h, tx, Message(cmd, None, 0, 0, 1, TRUE)),
                       in, out, open, d)
<1> DEFINE msg == Message(cmd, None, 0, 0, 1, TRUE)
<1>1. msg \in Messages
  BY MessageType
<1>2. msg \notin Requests(Tracked) /\ msg.size = 1
  BY DEF Requests, Message
<1> HIDE DEF msg
<1>3. DatabasesOK(SendPadpData(h, tx, msg), in, out, open, d)
  BY <1>1, <1>2, DataTries, OtherInOrder
<1> QED BY <1>3 DEF msg

\* Taking up the next file writes nothing.
LEMMA PreparedWay ==
    ASSUME NEW h \in Hosts
    PROVE  LET k == PrepareNextPendingInstall(h) IN SameLine(h, k) /\ k.rxPadp = h.rxPadp
<1> DEFINE k == PrepareNextPendingInstall(h)
<1>1. k \in {h, [h EXCEPT !.pendingInstall = Head(h.pendingInstalls),
                          !.pendingInstalls = Tail(@), !.installDbId = 0,
                          !.installResourceIndex = 0, !.installAppBlockDone = FALSE,
                          !.installSortBlockDone = FALSE]}
  BY DEF PrepareNextPendingInstall
<1> HIDE DEF k
<1>2. SameLine(h, k) /\ k.rxPadp = h.rxPadp
  BY <1>1 DEF Hosts, SameLine
<1> QED BY <1>2 DEF k

\* An install starts, or the sync ends, in order.
LEMMA StartingInOrder ==
    ASSUME NEW h \in Hosts, InPlace(h), NEW in, NEW out, NEW open, NEW d, LineOK(h, open, d),
           NoneBehind(h, in, out, Delete, Create)
    PROVE  DatabasesOK(StartInstall(PrepareNextPendingInstall(h)), in, out, open, d)
<1> DEFINE k == PrepareNextPendingInstall(h)
<1>1. k \in Hosts /\ SameLine(h, k) /\ k.rxPadp = h.rxPadp
  BY NextPrepared, PreparedWay
<1> HIDE DEF k
<1>2. LineOK(k, open, d) /\ NoneBehind(k, in, out, Delete, Create)
  BY <1>1, SameWay
<1>3. StartInstall(k) \in {SendDlpEndOfSync(k), SendDlpDeleteDb(k)}
  BY DEF StartInstall
<1>4. DatabasesOK(StartInstall(k), in, out, open, d)
  BY <1>1, <1>2, <1>3, EndingInOrder
<1> QED BY <1>4 DEF k

\* So does the work of a session.
LEMMA BeginningInOrder ==
    ASSUME NEW h \in Hosts, Working(h), NEW in, NEW out, NEW open, NEW d,
           DatabasesOK(h, in, out, open, d)
    PROVE  DatabasesOK(BeginHotSyncWork(h), in, out, open, d)
<1>1. CASE h.installState # "Idle"
  BY <1>1 DEF BeginHotSyncWork
<1>2. CASE h.installState = "Idle"
  BY <1>2, BusyApart, StartingInOrder DEF BeginHotSyncWork, Working
<1> QED BY <1>1, <1>2

\* What the host may rely on when p was next of all answers: what may not come behind it
\* does not come any more.
Arriving(h, in, out, open, d, p) ==
    /\ p \in Answers(Delete) /\ h.installState # "CreateSent" => ~OnWay(h, in, out, Create)
    /\ p \in Answers(Create) /\ h.installState = "CreateSent" =>
           /\ ~OnWay(h, in, out, Delete) /\ ~OnWay(h, in, out, Writes)
           /\ p.err = "ok" => WrittenBelow(open, d, h.pendingInstall, 0)
    /\ p \in Answers(SortBlock) /\ Writing(h) /\ h.installState = "SortBlockSent"
       => ~AppBlockDue(h)

\* A database is created when its deletion was answered.
LEMMA CreatingInOrder ==
    ASSUME NEW h \in Hosts, NEW in, NEW out, NEW open, NEW d, LineOK(h, open, d),
           ~OnWay(h, in, out, Create)
    PROVE  DatabasesOK(SendDlpCreateDb(h), in, out, open, d)
<1> DEFINE msg == Message("CreateDB", h.pendingInstall, 0, h.installDbId, 1, FALSE)
           s == SendDlpRequestWithArg(h, "CreateDB", 0, 1)
           g == [s EXCEPT !.installState = "CreateSent"]
<1>1. "CreateDB" \in Commands
  BY DEF Commands
<1>2. msg \in Messages /\ msg.size = 1 /\ Tries(h, s, msg)
  BY <1>1, RequestTries
<1>3. s \in Hosts
  BY <1>1, RequestSent DEF Sends
<1>4. msg.cmd = "CreateDB" /\ msg.image = h.pendingInstall /\ ~msg.answer
  BY DEF Message
<1> HIDE DEF msg, s
<1>5. Requested(h, g, msg) /\ g.installState = "CreateSent"
  BY <1>2, <1>3, StateRequested
<1>6. msg \in Requests(Create) /\ msg.size < 2
  BY <1>2, <1>4 DEF Requests, Create
<1> HIDE DEF g
<1>7. DatabasesOK(g, in, out, open, d)
  BY <1>2, <1>4, <1>5, <1>6, CreateRequest
<1> QED BY <1>7 DEF g, s, SendDlpCreateDb

\* The first part goes to a database that was just created.
LEMMA FreshReady ==
    ASSUME NEW h \in Hosts, NEW in, NEW out, NEW open, NEW d,
           DatabasesOK(h, in, out, open, d), h.installState = "CreateSent",
           ~OnWay(h, in, out, Delete), ~OnWay(h, in, out, Writes),
           WrittenBelow(open, d, h.pendingInstall, 0), NEW k, SameLine(h, k),
           k.rxPadp = h.rxPadp, k.pendingInstall = h.pendingInstall,
           k.installResourceIndex = 0
    PROVE  Ready(k, in, out, open, d, 0)
<1>1. LineOK(h, open, d) /\ CreatesOf(Due(h), h.pendingInstall)
  BY DEF DatabasesOK, LineOK, TurnsInOrder
<1>2. NoneBehind(h, in, out, Delete, Create)
  BY NotOnWay
<1>3. LandsBelow(Due(h), h.pendingInstall, 0)
  BY DEF OnWay, Carried, LandsBelow, Lands
<1>4. ~OnWay(h, in, out, SortBlock)
  BY DEF OnWay, Coming, Partly, Kept, Carried, Answers, Requests, SortBlock, Writes
<1> QED BY <1>1, <1>2, <1>3, <1>4, SameWay DEF Ready

\* The next part goes behind the one before.
LEMMA WriterReady ==
    ASSUME NEW h \in Hosts, NEW in, NEW out, NEW open, NEW d,
           DatabasesOK(h, in, out, open, d), h.installState \in Writers,
           NEW k, SameLine(h, k), k.rxPadp = h.rxPadp, k.pendingInstall = h.pendingInstall,
           k.installDbId = h.installDbId,
           Writing(h) =>
               /\ AppBlockDue(k) => NextRank(h) = 0
               /\ SortBlockDue(k) => NextRank(h) <= 1
               /\ NextRank(h) <= k.installResourceIndex + 2
               /\ AppBlockDue(k) \/ SortBlockDue(k) => ~OnWay(h, in, out, SortBlock)
    PROVE  Ready(k, in, out, open, d, NextRank(h)) /\ NextRank(h) \in Nat
<1>1. LineOK(h, open, d) /\ NoneBehind(h, in, out, Delete, Create)
  BY BusyApart DEF Writers
<1>2. k.installDbId = 1 => Writing(h) /\ WritingOK(h, in, out, open, d)
  BY DEF DatabasesOK, Writing, Writers
<1>3. NextRank(h) \in Nat
  BY DEF NextRank, Hosts
<1> QED BY <1>1, <1>2, <1>3, SameWay DEF Ready, WritingOK

\* The answer that the install waits for takes it further in order.
LEMMA AdvancingInOrder ==
    ASSUME NEW h \in Hosts, Working(h), NEW in, NEW out,
           NEW open \in Images \union {None}, NEW d \in Devices,
           DatabasesOK(h, in, out, open, d), NEW p \in Payloads, p.answer,
           Arriving(h, in, out, open, d, p), h.installState \in Midway \union {"EndSent"},
           p.cmd = InstallExpectedResponseCommand(h),
           p.err = "ok" \/ h.installState = "DeleteSent"
    PROVE  DatabasesOK(Advance(h, p), in, out, open, d)
<1>0. h.installState \in Midway => h.pendingInstall \in Images
  BY DEF Hosts, Working
<1>1. CASE h.installState = "DeleteSent"
  <2>1. p \in Answers(Delete) /\ Advance(h, p) = SendDlpCreateDb(h)
    BY <1>1 DEF InstallExpectedResponseCommand, Answers, Delete, Advance
  <2>2. LineOK(h, open, d) /\ ~OnWay(h, in, out, Create)
    BY <1>1, <2>1 DEF Arriving, DatabasesOK, LineOK
  <2> QED BY <2>1, <2>2, CreatingInOrder
<1>2. CASE h.installState = "CreateSent"
  <2> DEFINE k == [h EXCEPT !.installDbId = p.db, !.installResourceIndex = 0]
  <2>1. p \in Answers(Create) /\ Advance(h, p) = SendNextInstallItem(k)
    BY <1>2 DEF InstallExpectedResponseCommand, Answers, Create, Advance
  <2>2. /\ k \in Hosts /\ SameLine(h, k) /\ k.rxPadp = h.rxPadp
        /\ k.pendingInstall = h.pendingInstall /\ k.installResourceIndex = 0
    BY DEF Hosts, Payloads, SameLine
  <2> HIDE DEF k
  <2>3. /\ ~OnWay(h, in, out, Delete) /\ ~OnWay(h, in, out, Writes)
        /\ WrittenBelow(open, d, h.pendingInstall, 0)
    BY <1>2, <2>1 DEF Arriving
  <2>4. Ready(k, in, out, open, d, 0)
    BY <1>2, <2>2, <2>3, FreshReady
  <2> QED BY <1>0, <1>2, <2>1, <2>2, <2>4, NextInOrder DEF Midway
<1>3. CASE h.installState = "AppBlockSent"
  <2> DEFINE k == [h EXCEPT !.installAppBlockDone = TRUE]
  <2>1. Advance(h, p) = SendNextInstallItem(k)
    BY <1>3 DEF Advance
  <2>2. /\ k \in Hosts /\ SameLine(h, k) /\ k.rxPadp = h.rxPadp
        /\ k.pendingInstall = h.pendingInstall /\ k.installDbId = h.installDbId
        /\ k.installResourceIndex = h.installResourceIndex /\ k.installAppBlockDone
        /\ h.installResourceIndex \in Nat
    BY DEF Hosts, SameLine
  <2> HIDE DEF k
  <2>3. NextRank(h) = 1 /\ ~AppBlockDue(k) /\ NextRank(h) <= k.installResourceIndex + 2
    BY <1>3, <2>2 DEF NextRank, AppBlockDue
  <2>4. Writing(h) => ~OnWay(h, in, out, SortBlock)
    BY <1>3 DEF DatabasesOK, WritingOK
  <2>5. Ready(k, in, out, open, d, NextRank(h)) /\ NextRank(h) \in Nat
    BY <1>3, <2>2, <2>3, <2>4, WriterReady DEF Writers
  <2> QED BY <1>0, <1>3, <2>1, <2>2, <2>5, NextInOrder DEF Midway
<1>4. CASE h.installState = "SortBlockSent"
  <2> DEFINE k == [h EXCEPT !.installSortBlockDone = TRUE]
  <2>1. p \in Answers(SortBlock) /\ Advance(h, p) = SendNextInstallItem(k)
    BY <1>4 DEF InstallExpectedResponseCommand, Answers, SortBlock, Advance
  <2>2. /\ k \in Hosts /\ SameLine(h, k) /\ k.rxPadp = h.rxPadp
        /\ k.pendingInstall = h.pendingInstall /\ k.installDbId = h.installDbId
        /\ k.installResourceIndex = h.installResourceIndex /\ k.installSortBlockDone
        /\ k.installAppBlockDone = h.installAppBlockDone
        /\ h.installResourceIndex \in Nat
    BY DEF Hosts, SameLine
  <2> HIDE DEF k
  <2>3. NextRank(h) = 2 /\ ~SortBlockDue(k) /\ NextRank(h) <= k.installResourceIndex + 2
    BY <1>4, <2>2 DEF NextRank, SortBlockDue
  <2>4. Writing(h) => ~AppBlockDue(k)
    BY <1>4, <2>1, <2>2 DEF Arriving, AppBlockDue
  <2>5. Ready(k, in, out, open, d, NextRank(h)) /\ NextRank(h) \in Nat
    BY <1>4, <2>2, <2>3, <2>4, WriterReady DEF Writers
  <2> QED BY <1>0, <1>4, <2>1, <2>2, <2>5, NextInOrder DEF Midway
<1>5. CASE h.installState = "WritingResource"
  <2> DEFINE k == [h EXCEPT !.installResourceIndex = @ + 1]
  <2>0. h.installResourceIndex \in Nat /\ h.installResourceIndex + 1 \in Nat
    BY DEF Hosts
  <2>1. Advance(h, p) = SendNextInstallItem(k)
    BY <1>5 DEF Advance
  <2>2. /\ k \in Hosts /\ SameLine(h, k) /\ k.rxPadp = h.rxPadp
        /\ k.pendingInstall = h.pendingInstall /\ k.installDbId = h.installDbId
        /\ k.installResourceIndex = h.installResourceIndex + 1
    BY <2>0 DEF Hosts, SameLine
  <2> HIDE DEF k
  <2>3. /\ ~AppBlockDue(k) /\ ~SortBlockDue(k)
        /\ NextRank(h) <= k.installResourceIndex + 2
    BY <1>5, <2>0, <2>2 DEF NextRank, AppBlockDue, SortBlockDue
  <2>4. Ready(k, in, out, open, d, NextRank(h)) /\ NextRank(h) \in Nat
    BY <1>5, <2>2, <2>3, WriterReady DEF Writers
  <2> QED BY <1>0, <1>5, <2>1, <2>2, <2>4, NextInOrder DEF Midway
<1>6. CASE h.installState = "CloseSent"
  <2> DEFINE k == [h EXCEPT !.pendingInstall = None, !.installState = "Idle"]
  <2>1. Advance(h, p) = StartInstall(PrepareNextPendingInstall(k))
    BY <1>6 DEF Advance
  <2>2. k \in Hosts /\ InPlace(k) /\ SameLine(h, k) /\ k.rxPadp = h.rxPadp
    BY DEF Hosts, InPlace, InstallStates, SameLine
  <2> HIDE DEF k
  <2>3. LineOK(h, open, d) /\ NoneBehind(h, in, out, Delete, Create)
    BY <1>6, BusyApart
  <2> QED BY <2>1, <2>2, <2>3, SameWay, StartingInOrder
<1>7. CASE h.installState = "EndSent"
  <2> DEFINE g == [h EXCEPT !.installState = "Done"]
  <2>1. Advance(h, p) = g
    BY <1>7 DEF Advance
  <2>2. SameLine(h, g) /\ g.rxPadp = h.rxPadp /\ g.installState = "Done"
    BY DEF Hosts, SameLine
  <2> HIDE DEF g
  <2>3. SameTurn(h, in, out, g)
    BY <1>7, <2>2 DEF SameTurn, Writing
  <2> QED BY <2>1, <2>2, <2>3, TurnInOrder
<1> QED BY <1>1, <1>2, <1>3, <1>4, <1>5, <1>6, <1>7 DEF Midway

\* Whatever the answer says, the install goes on or fails in order.
LEMMA ResponseInOrder ==
    ASSUME NEW h \in Hosts, Working(h), NEW in, NEW out,
           NEW open \in Images \union {None}, NEW d \in Devices,
           DatabasesOK(h, in, out, open, d), NEW p \in Payloads, p.answer,
           Arriving(h, in, out, open, d, p), p.cmd = InstallExpectedResponseCommand(h)
    PROVE  DatabasesOK(HandleInstallResponse(h, p), in, out, open, d)
<1>1. \/ HandleInstallResponse(h, p) = h
      \/ HandleInstallResponse(h, p) = FailInstall(h)
      \/ /\ h.installState \in Midway \union {"EndSent"}
         /\ p.err = "ok" \/ h.installState = "DeleteSent"
         /\ HandleInstallResponse(h, p) = Advance(h, p)
  BY DEF HandleInstallResponse
<1>2. DatabasesOK(FailInstall(h), in, out, open, d)
  <2>1. LineOK(h, open, d)
    BY DEF DatabasesOK, LineOK
  <2>2. NoneBehind(h, in, out, Delete, Create)
    <3>1. CASE h.installState = "CreateSent"
      <4>1. p \in Answers(Create)
        BY <3>1 DEF InstallExpectedResponseCommand, Answers, Create
      <4>2. ~OnWay(h, in, out, Delete)
        BY <3>1, <4>1 DEF Arriving
      <4> QED BY <4>2, NotOnWay
    <3>2. CASE h.installState # "CreateSent"
      BY <3>2, BusyApart
    <3> QED BY <3>1, <3>2
  <2> QED BY <2>1, <2>2, FailureInOrder
<1> QED BY <1>1, <1>2, AdvancingInOrder

\* Whatever a complete message is, what the host does with it keeps the order.
LEMMA PayloadInOrder ==
    ASSUME NEW h \in Hosts, Working(h), NEW in, NEW out,
           NEW open \in Images \union {None}, NEW d \in Devices,
           DatabasesOK(h, in, out, open, d), NEW p \in Payloads, NEW tx \in Nat,
           p.answer => Arriving(h, in, out, open, d, p)
    PROVE  DatabasesOK(HandleDlpPayload(h, tx, p), in, out, open, d)
<1> DEFINE msg == Message(p.cmd, None, 0, 0, 1, TRUE)
<1>1. HandleDlpPayload(h, tx, p)
          \in {SendPadpData(h, tx, msg), h, BeginHotSyncWork(h), SendDlpWriteUserInfo(h)}
      \/ /\ p.cmd = InstallExpectedResponseCommand(h) /\ p.answer
         /\ HandleDlpPayload(h, tx, p) = HandleInstallResponse(h, p)
  BY DEF HandleDlpPayload
<1>2. p.cmd \in Commands
  BY DEF Payloads
<1>3. DatabasesOK(SendPadpData(h, tx, msg), in, out, open, d)
  BY <1>2, OwnAnswerInOrder
<1> HIDE DEF msg
<1> QED BY <1>1, <1>3, BeginningInOrder, UserInfoInOrder, ResponseInOrder

----------------------------------------------------------------------------
(* The host receives *)

\* A call that sends no request and takes the install no further.
LEMMA EasedInOrder ==
    ASSUME NEW h, NEW in, NEW out, NEW open, NEW d, DatabasesOK(h, in, out, open, d),
           NEW g, NEW rest, Eases(Due(h), Due(g)), Recedes(h, in, out, g, rest, out),
           SameTurn(h, in, out, g),
           g.pendingPadp.active => h.pendingPadp.active /\ g.pendingPadp.msg = h.pendingPadp.msg
    PROVE  DatabasesOK(g, rest, out, open, d)
<1>1. LongIsWrite(g) /\ NoMore(open, d, open, d) /\ DeviceInOrder(d)
  BY DEF DatabasesOK, LongIsWrite, NoMore
<1> QED BY <1>1, LessIsRight

\* A frame that does not matter is written.
LEMMA QuietFrameInOrder ==
    ASSUME NEW h \in Hosts, NEW g, NEW a \in FramesOf(Messages), ~Matters(a),
           g.uart = Append(h.uart, a), g.pendingPadp = h.pendingPadp, g.rxPadp = h.rxPadp,
           SameInstall(h, g), NEW in, NEW out, NEW open, NEW d,
           DatabasesOK(h, in, out, open, d)
    PROVE  DatabasesOK(g, in, out, open, d)
<1>1. Eases(Due(h), Due(g)) /\ SameTurn(h, in, out, g) /\ Recedes(h, in, out, g, in, out)
  BY QuietFrameDue, TurnKept, SameRecedes DEF SamePart
<1> QED BY <1>1, EasedInOrder

\* The acknowledgement of a fragment,
LEMMA AckInOrder ==
    ASSUME NEW h \in Hosts, NEW tx \in Nat, NEW in, NEW out, NEW open, NEW d,
           DatabasesOK(h, in, out, open, d)
    PROVE  /\ DatabasesOK(SendPadpAck(h, tx), in, out, open, d)
           /\ SendPadpAck(h, tx).rxPadp = h.rxPadp
<1> DEFINE a == Frame("ack", tx, NoMessage, 0, TRUE)
           g == SendPadpAck(h, tx)
<1>1. a \in FramesOf(Messages)
  BY NoMessageType, FrameType DEF Kinds
<1>2. ~Matters(a)
  BY DEF Matters, Frame
<1>3. g = [h EXCEPT !.uart = Append(@, a)]
  BY DEF SendPadpAck
<1> HIDE DEF a, g
<1>4. /\ g.uart = Append(h.uart, a) /\ g.pendingPadp = h.pendingPadp
      /\ g.rxPadp = h.rxPadp /\ SameInstall(h, g)
  BY <1>3 DEF Hosts, SameInstall
<1>5. DatabasesOK(g, in, out, open, d)
  BY <1>1, <1>2, <1>4, QuietFrameInOrder
<1> QED BY <1>4, <1>5 DEF g

\* and the answer to a wake.
LEMMA InitInOrder ==
    ASSUME NEW h \in Hosts, NEW tx \in Nat, NEW in, NEW out, NEW open, NEW d,
           DatabasesOK(h, in, out, open, d)
    PROVE  DatabasesOK(SendCmpInit(h, tx), in, out, open, d)
<1> DEFINE next == IF tx >= TxMax THEN 2 ELSE tx + 2
           init == Message("CmpInit", None, 0, 0, 1, FALSE)
           a == Frame("data", next, init, 0, TRUE)
           g == SendCmpInit(h, tx)
<1>1. init \in Messages /\ init \notin Requests(Tracked)
  <2>1. init \in Messages
    BY MessageType DEF Commands
  <2>2. init.cmd = "CmpInit"
    BY DEF Message
  <2> QED BY <2>1, <2>2 DEF Requests, Tracked, Delete, Create, Writes
<1>2. next \in Nat
  OBVIOUS
<1>3. g = [h EXCEPT !.cmpInitTxId = next, !.hostPadpTxId = NextPadpTxId(next),
                    !.uart = Append(@, a)]
  BY DEF SendCmpInit
<1> HIDE DEF next, init
<1>4. a \in FramesOf(Messages) /\ ~Matters(a)
  <2>1. a \in FramesOf(Messages)
    BY <1>1, <1>2, FrameType DEF Kinds
  <2>2. a.msg = init
    BY DEF Frame
  <2> QED BY <1>1, <2>1, <2>2 DEF Matters
<1> HIDE DEF a, g
<1>5. /\ g.uart = Append(h.uart, a) /\ g.pendingPadp = h.pendingPadp
      /\ g.rxPadp = h.rxPadp /\ SameInstall(h, g)
  BY <1>3 DEF Hosts, SameInstall
<1>6. DatabasesOK(g, in, out, open, d)
  BY <1>4, <1>5, QuietFrameInOrder
<1> QED BY <1>6 DEF g

\* The message that is complete was the next of all that came.
Front(h, in, p) == \/ Head(in).kind = "data" /\ p = Head(in).msg
                   \/ h.rxPadp.active /\ p = h.rxPadp.msg

\* Of what comes to the host, a message that is complete comes before all the rest.
LEMMA NothingBefore ==
    ASSUME NEW h, NEW in \in Seq(PalmFrames), in # <<>>, NEW p, Front(h, in, p), NEW k,
           ~k.rxPadp.active, SameLine(h, k), NEW out
    PROVE  /\ \A X : p \in X => Coming(h, in, out, X)
           /\ \A S, T : p \in Answers(S) /\ NoneBehind(h, in, out, S, T)
                        => ~OnWay(k, Tail(in), out, T)
<1>1. \A X, Y : /\ Head(in).kind = "data" /\ Head(in).msg \in X =>
                       /\ Carried(in, X)
                       /\ Apart(in, X, Y) => ~Carried(Tail(in), Y)
                /\ Carried(Tail(in), Y) => Carried(in, Y)
  <2>1. ASSUME NEW X, NEW Y
        PROVE  /\ Carried(Tail(in), Y) => Carried(in, Y)
               /\ Head(in).kind = "data" /\ Head(in).msg \in X =>
                      /\ Carried(in, X)
                      /\ Apart(in, X, Y) => ~Carried(Tail(in), Y)
    BY CarriedTail
  <2> QED BY <2>1
<1>2. ASSUME NEW X, p \in X PROVE Partly(h, X) \/ Carried(in, X)
  BY <1>1, <1>2 DEF Front, Partly
<1>3. ASSUME NEW X, NEW Y, p \in X, ComingApart(h, in, out, X, Y)
      PROVE  ~Coming(k, Tail(in), out, Y)
  <2>1. ~Kept(out, Y)
    BY <1>2, <1>3 DEF ComingApart
  <2>2. ~Carried(Tail(in), Y)
    BY <1>1, <1>3 DEF ComingApart, Front, Partly
  <2> QED BY <2>1, <2>2 DEF Coming, Partly
<1>4. Due(k) = Due(h)
  BY DEF Due, SameLine
<1>5. ASSUME NEW S, NEW T, p \in Answers(S), NoneBehind(h, in, out, S, T)
      PROVE  ~OnWay(k, Tail(in), out, T)
  <2>1. Coming(h, in, out, Answers(S))
    BY <1>2, <1>5 DEF Coming
  <2> QED BY <1>3, <1>4, <1>5, <2>1 DEF NoneBehind, OnWay
<1> QED BY <1>2, <1>5 DEF Coming

\* So the host may rely on its place in the round.
LEMMA ArrivesInTurn ==
    ASSUME NEW h, NEW in \in Seq(PalmFrames), in # <<>>, NEW p \in Payloads, p.answer,
           Front(h, in, p), NEW k, ~k.rxPadp.active, SameLine(h, k), SameInstall(h, k),
           NEW out, NEW open, NEW d, DatabasesOK(h, in, out, open, d)
    PROVE  Arriving(k, Tail(in), out, open, d, p)
<1>1. /\ TurnsInOrder(h, in, out) /\ FreshIsEmpty(h, in, out, open, d)
      /\ Writing(h) => WritingOK(h, in, out, open, d)
  BY DEF DatabasesOK
<1>2. /\ \A X : p \in X => Coming(h, in, out, X)
      /\ \A S, T : p \in Answers(S) /\ NoneBehind(h, in, out, S, T)
                   => ~OnWay(k, Tail(in), out, T)
  BY NothingBefore
<1>3. /\ k.installState = h.installState /\ k.pendingInstall = h.pendingInstall
      /\ Writing(k) <=> Writing(h)
      /\ AppBlockDue(k) <=> AppBlockDue(h)
  BY DEF SameInstall, Writing, AppBlockDue
<1>4. p \in Answers(Delete) /\ k.installState # "CreateSent"
      => ~OnWay(k, Tail(in), out, Create)
  BY <1>1, <1>2, <1>3 DEF TurnsInOrder
<1>5. p \in Answers(Create) /\ k.installState = "CreateSent" =>
          /\ ~OnWay(k, Tail(in), out, Delete) /\ ~OnWay(k, Tail(in), out, Writes)
          /\ p.err = "ok" => WrittenBelow(open, d, k.pendingInstall, 0)
  <2>1. p \in Answers(Create) /\ p.err = "ok" => Coming(h, in, out, Opened)
    BY <1>2 DEF Opened
  <2> QED BY <1>1, <1>2, <1>3, <2>1 DEF TurnsInOrder, FreshIsEmpty
<1>6. p \in Answers(SortBlock) /\ Writing(k) /\ k.installState = "SortBlockSent"
      => ~AppBlockDue(k)
  BY <1>1, <1>2, <1>3 DEF WritingOK, OnWay
<1> QED BY <1>4, <1>5, <1>6 DEF Arriving

\* A fragment is put together with what came before, or completes a message.
LEMMA FragmentInOrder ==
    ASSUME NEW h \in Hosts, Working(h), NEW in \in Seq(PalmFrames), in # <<>>,
           Head(in).kind = "data", NEW out, NEW open \in Images \union {None},
           NEW d \in Devices, DatabasesOK(h, in, out, open, d)
    PROVE  DatabasesOK(HandlePadpDataFragment(h, Head(in)), Tail(in), out, open, d)
<1> DEFINE f == Head(in)
           r == h.rxPadp
           whole == IF f.offset = 0 THEN f.msg ELSE r.msg
           more == [active |-> TRUE, tx |-> f.tx, msg |-> whole, parts |-> f.offset + 1]
           fits == f.offset = 0 \/ (r.active /\ f.tx = r.tx /\ f.offset = r.parts)
           kept == [h EXCEPT !.rxPadp = more]
           reset == [h EXCEPT !.rxPadp = NotReceiving]
           g == HandlePadpDataFragment(h, f)
<1>0. f \in PalmFrames
  OBVIOUS
<1>1. f.tx \in Nat /\ f.msg \in Payloads /\ f.offset \in Nat
  BY <1>0 DEF PalmFrames, FramesOf
<1>2. whole \in Payloads /\ (fits => whole = f.msg \/ (r.active /\ whole = r.msg))
  BY <1>1 DEF Hosts
<1>3. \/ g = kept /\ fits
      \/ g = reset
      \/ g = HandleDlpPayload(reset, f.tx, whole) /\ fits
  BY DEF HandlePadpDataFragment
<1> HIDE DEF g, whole, fits
<1>4. more \in [active : BOOLEAN, tx : Nat, msg : Payloads, parts : Nat]
      /\ more.msg = whole
  BY <1>1, <1>2
<1>5. NotReceiving \in [active : BOOLEAN, tx : Nat, msg : Payloads, parts : Nat]
      /\ ~NotReceiving.active
  BY NoPayloadType DEF NotReceiving
<1> HIDE DEF more
<1>6. /\ SameLine(h, kept) /\ SameInstall(h, kept) /\ kept.rxPadp = more
  BY DEF Hosts, SameLine, SameInstall
<1>7. /\ reset \in Hosts /\ SameWork(h, reset) /\ SameLine(h, reset)
      /\ SameInstall(h, reset) /\ reset.rxPadp = NotReceiving
  BY <1>5 DEF Hosts, SameWork, SameLine, SameInstall
<1> HIDE DEF kept, reset
<1>8. fits => DatabasesOK(kept, Tail(in), out, open, d)
  <2>1. Due(kept) = Due(h) /\ kept.pendingPadp = h.pendingPadp
    BY <1>6 DEF Due, SameLine
  <2>2. Eases(Due(h), Due(kept)) /\ SameTurn(h, in, out, kept)
    BY <1>6, <2>1, EasesSelf, TurnKept
  <2>3. ASSUME fits PROVE Recedes(h, in, out, kept, Tail(in), out)
    <3>1. CASE whole = f.msg
      <4>1. kept.rxPadp.msg = Head(in).msg
        BY <1>4, <1>6, <3>1
      <4> QED BY <4>1, BeginRecedes
    <3>2. CASE r.active /\ whole = r.msg
      BY <1>4, <1>6, <3>2, HeadRecedes DEF SamePart
    <3> QED BY <1>2, <2>3, <3>1, <3>2
  <2> QED BY <2>1, <2>2, <2>3, EasedInOrder
<1>9. DatabasesOK(reset, Tail(in), out, open, d)
  <2>1. Due(reset) = Due(h) /\ reset.pendingPadp = h.pendingPadp
    BY <1>7 DEF Due, SameLine
  <2>2. Eases(Due(h), Due(reset)) /\ SameTurn(h, in, out, reset)
    BY <1>7, <2>1, EasesSelf, TurnKept
  <2>3. Recedes(h, in, out, reset, Tail(in), out)
    BY <1>5, <1>7, HeadRecedes DEF SamePart
  <2> QED BY <2>1, <2>2, <2>3, EasedInOrder
<1>10. fits => DatabasesOK(HandleDlpPayload(reset, f.tx, whole), Tail(in), out, open, d)
  <2> SUFFICES ASSUME fits
               PROVE  DatabasesOK(HandleDlpPayload(reset, f.tx, whole), Tail(in), out, open, d)
    OBVIOUS
  <2>1. Front(h, in, whole)
    BY <1>2 DEF Front
  <2>2. whole.answer => Arriving(reset, Tail(in), out, open, d, whole)
    BY <1>2, <1>5, <1>7, <2>1, ArrivesInTurn
  <2>3. Working(reset)
    BY <1>7, StaysAfter DEF SameInstall
  <2> QED BY <1>1, <1>2, <1>7, <1>9, <2>2, <2>3, PayloadInOrder
<1>11. DatabasesOK(g, Tail(in), out, open, d)
  BY <1>3, <1>8, <1>9, <1>10
<1> QED BY <1>11 DEF g

\* A wake forgets what was sent and received; an install that is midway stays so.
LEMMA WakeInOrder ==
    ASSUME NEW h \in Hosts, NEW in \in Seq(PalmFrames), in # <<>>, NEW out, NEW open, NEW d,
           DatabasesOK(h, in, out, open, d)
    PROVE  DatabasesOK(Woken(h), Tail(in), out, open, d)
<1> DEFINE state == IF h.installState \in {"Done", "Failed"} THEN "Idle" ELSE h.installState
           g == Woken(h)
<1>1. g = [h EXCEPT !.cmpHandshakeStarted = TRUE, !.dlpReadUserInfoSent = FALSE,
                    !.dlpReadUserInfoQueued = FALSE, !.dlpWriteUserInfoSent = FALSE,
                    !.pendingPadp = NotSending, !.installState = state,
                    !.installDbId = 0, !.installResourceIndex = 0,
                    !.installAppBlockDone = FALSE, !.installSortBlockDone = FALSE,
                    !.rxPadp = NotReceiving]
  BY DEF Woken
<1>2. state = "CreateSent" <=> h.installState = "CreateSent"
  OBVIOUS
<1> HIDE DEF g, state
<1>3. /\ g.uart = h.uart /\ g.pendingPadp = NotSending /\ g.rxPadp = NotReceiving
      /\ g.pendingInstall = h.pendingInstall /\ g.installState = state /\ g.installDbId = 0
  BY <1>1 DEF Hosts
<1>4. Eases(Due(h), Due(g)) /\ ~g.pendingPadp.active
  BY <1>3, SilenceDue
<1>5. Recedes(h, in, out, g, Tail(in), out)
  <2>1. SamePart(h, g)
    BY <1>3 DEF SamePart, NotReceiving
  <2> QED BY <2>1, HeadRecedes
<1>6. SameTurn(h, in, out, g)
  BY <1>2, <1>3 DEF SameTurn, Writing
<1>7. DatabasesOK(g, Tail(in), out, open, d)
  BY <1>4, <1>5, <1>6, EasedInOrder
<1> QED BY <1>7 DEF g

\* An acknowledgement sends the next fragment of what is due.
LEMMA SendOnInOrder ==
    ASSUME NEW h \in Hosts, NEW tx, NEW in, NEW out, NEW open, NEW d,
           DatabasesOK(h, in, out, open, d)
    PROVE  DatabasesOK(HandleAck(h, tx), in, out, open, d)
<1> DEFINE q == [h EXCEPT !.dlpReadUserInfoQueued = TRUE]
           g == SendNextPadpFragment(h)
<1>1. HandleAck(h, tx) \in {h, q, g}
  BY DEF HandleAck
<1>2. SameLine(h, q) /\ q.rxPadp = h.rxPadp /\ SameInstall(h, q)
  BY DEF Hosts, SameLine, SameInstall
<1> HIDE DEF q, g
<1>3. DatabasesOK(q, in, out, open, d)
  BY <1>2, TurnKept, TurnInOrder
<1>4. /\ Eases(Due(h), Due(g)) /\ SameInstall(h, g) /\ g.rxPadp = h.rxPadp
      /\ g.pendingPadp.active => h.pendingPadp.active /\ g.pendingPadp.msg = h.pendingPadp.msg
  BY FragmentDue DEF g
<1>5. SameTurn(h, in, out, g) /\ Recedes(h, in, out, g, in, out)
  BY <1>4, TurnKept, SameRecedes DEF SamePart
<1>6. DatabasesOK(g, in, out, open, d)
  BY <1>4, <1>5, EasedInOrder
<1> QED BY <1>1, <1>3, <1>6

\* Whatever frame comes, the databases stay in order.
LEMMA FrameInOrder ==
    ASSUME NEW h \in Hosts, Working(h), NEW in \in Seq(PalmFrames), in # <<>>, NEW out,
           NEW open \in Images \union {None}, NEW d \in Devices,
           DatabasesOK(h, in, out, open, d)
    PROVE  DatabasesOK(HandlePalmSlpFrame(h, Head(in)), Tail(in), out, open, d)
<1> DEFINE f == Head(in)
           g == HandlePalmSlpFrame(h, f)
<1>0. f \in PalmFrames
  OBVIOUS
<1>1. f.kind \in {"data", "ack", "abort"} /\ f.tx \in Nat
  BY <1>0 DEF PalmFrames, FramesOf, Kinds
<1>2. CASE f.kind = "abort"
  <2>1. g = [h EXCEPT !.pendingPadp = NotSending, !.rxPadp = NotReceiving]
    BY <1>2 DEF HandlePalmSlpFrame
  <2> HIDE DEF g
  <2>2. /\ g.uart = h.uart /\ g.pendingPadp = NotSending /\ g.rxPadp = NotReceiving
        /\ SameInstall(h, g)
    BY <2>1 DEF Hosts, SameInstall
  <2>3. Eases(Due(h), Due(g)) /\ ~g.pendingPadp.active
    BY <2>2, SilenceDue
  <2>a. SamePart(h, g)
    BY <2>2 DEF SamePart, NotReceiving
  <2>4. Recedes(h, in, out, g, Tail(in), out) /\ SameTurn(h, in, out, g)
    BY <2>2, <2>a, HeadRecedes, TurnKept
  <2>5. DatabasesOK(g, Tail(in), out, open, d)
    BY <2>3, <2>4, EasedInOrder
  <2> QED BY <2>5 DEF g
<1>3. CASE f.kind = "ack"
  <2>1. Recedes(h, in, out, h, Tail(in), out) /\ SameTurn(h, in, out, h)
        /\ Eases(Due(h), Due(h))
    BY HeadRecedes, TurnKept, EasesSelf DEF SamePart, SameInstall
  <2>2. DatabasesOK(h, Tail(in), out, open, d)
    BY <2>1, EasedInOrder
  <2>3. g = HandleAck(h, f.tx)
    BY <1>3 DEF HandlePalmSlpFrame
  <2> QED BY <2>2, <2>3, SendOnInOrder
<1>4. CASE f.kind = "data"
  <2> DEFINE k == SendPadpAck(h, f.tx)
  <2>1. k \in Hosts /\ SameWork(h, k) /\ k.installState = h.installState
    BY <1>1, AckSent
  <2>2. g \in {SendCmpInit(Woken(k), f.tx), HandlePadpDataFragment(k, f)}
    BY <1>4 DEF HandlePalmSlpFrame
  <2>3. DatabasesOK(k, in, out, open, d)
    BY <1>1, AckInOrder
  <2> HIDE DEF k
  <2>4. Working(k)
    BY <2>1, StaysAfter
  <2>5. DatabasesOK(HandlePadpDataFragment(k, f), Tail(in), out, open, d)
    BY <1>4, <2>1, <2>3, <2>4, FragmentInOrder
  <2>6. DatabasesOK(SendCmpInit(Woken(k), f.tx), Tail(in), out, open, d)
    <3> DEFINE w == Woken(k)
    <3>1. w \in Hosts /\ DatabasesOK(w, Tail(in), out, open, d)
      BY <2>1, <2>3, <2>4, WakeStays, WakeInOrder DEF Stays
    <3> HIDE DEF w
    <3>2. DatabasesOK(SendCmpInit(w, f.tx), Tail(in), out, open, d)
      BY <1>1, <3>1, InitInOrder
    <3> QED BY <3>2 DEF w
  <2> QED BY <2>2, <2>5, <2>6
<1> QED BY <1>1, <1>2, <1>3, <1>4

\* The host's steps keep the databases in order.
LEMMA HostStepsInOrder ==
    ASSUME IInv, InOrderOK, HostReceives \/ ServiceHotSyncHost
    PROVE  InOrderOK'
<1>1. /\ host \in Hosts /\ Working(host) /\ toHost \in Seq(PalmFrames)
      /\ palm.open \in Images \union {None} /\ device \in Devices
      /\ DatabasesOK(host, toHost, palm.out, palm.open, device)
  BY PalmParts DEF IInv, TypeOK, InOrderOK
<1>2. palm' = palm /\ device' = device
  BY DEF HostReceives, ServiceHotSyncHost
<1>3. CASE HostReceives
  <2>1. /\ toHost # <<>> /\ toHost' = Tail(toHost)
        /\ host' = HandlePalmSlpFrame(host, Head(toHost))
    BY <1>3 DEF HostReceives
  <2>2. DatabasesOK(host', toHost', palm.out, palm.open, device)
    BY <1>1, <2>1, FrameInOrder
  <2> QED BY <1>2, <2>2 DEF InOrderOK
<1>4. CASE ServiceHotSyncHost
  <2>1. toHost' = toHost /\ host' = SendDlpReadUserInfo(host)
    BY <1>4 DEF ServiceHotSyncHost
  <2>2. DatabasesOK(host', toHost', palm.out, palm.open, device)
    BY <1>1, <2>1, UserInfoInOrder
  <2> QED BY <1>2, <2>2 DEF InOrderOK
<1> QED BY <1>3, <1>4

----------------------------------------------------------------------------
(* The user, and the start *)

\* A click takes the install no further.
LEMMA ClickInOrder ==
    ASSUME IInv, InOrderOK, InstallPrcButton_Click
    PROVE  InOrderOK'
<1>1. host \in Hosts /\ DatabasesOK(host, toHost, palm.out, palm.open, device)
  BY DEF IInv, TypeOK, InOrderOK
<1>2. PICK i \in Images : host' = InstallPrcClicked(host, i)
  BY DEF InstallPrcButton_Click
<1> DEFINE state == IF host.installState \in {"Done", "Failed"} THEN "Idle"
                    ELSE host.installState
           k == [host EXCEPT !.pendingInstalls = Append(@, i), !.installState = state]
           n == PrepareNextPendingInstall(k)
<1>3. host' = IF k.installState = "Idle" THEN n ELSE k
  BY <1>2 DEF InstallPrcClicked
<1>4. state \in InstallStates /\ (state # "Idle" => state = host.installState)
      /\ (state = "Idle" => host.installState # "CreateSent")
  BY <1>1 DEF Hosts, InstallStates
<1> HIDE DEF state
<1>5. Append(host.pendingInstalls, i) \in Seq(Images)
  BY <1>1 DEF Hosts
<1>6. k \in Hosts
  BY <1>1, <1>4, <1>5 DEF Hosts
<1>7. /\ SameLine(host, k) /\ k.rxPadp = host.rxPadp /\ k.installState = state
      /\ state # "Idle" => SameInstall(host, k)
  BY <1>1, <1>4 DEF Hosts, SameLine, SameInstall
<1> HIDE DEF k
<1>8. SameLine(k, n) /\ n.rxPadp = k.rxPadp /\ n.installState = k.installState
  <2>1. SameLine(k, n) /\ n.rxPadp = k.rxPadp
    BY <1>6, PreparedWay
  <2>2. n \in {k, [k EXCEPT !.pendingInstall = Head(k.pendingInstalls),
                            !.pendingInstalls = Tail(@), !.installDbId = 0,
                            !.installResourceIndex = 0, !.installAppBlockDone = FALSE,
                            !.installSortBlockDone = FALSE]}
    BY DEF PrepareNextPendingInstall
  <2> HIDE DEF n
  <2>3. n.installState = k.installState
    BY <1>6, <2>2 DEF Hosts
  <2> QED BY <2>1, <2>3
<1> HIDE DEF n
<1>9. SameLine(host, host') /\ host'.rxPadp = host.rxPadp /\ host'.installState = state
  BY <1>3, <1>7, <1>8 DEF SameLine
<1>10. SameTurn(host, toHost, palm.out, host')
  <2>1. CASE state = "Idle"
    BY <1>4, <1>9, <2>1 DEF SameTurn, Writing
  <2>2. CASE state # "Idle"
    <3>1. host' = k
      BY <1>3, <1>7, <2>2
    <3> QED BY <1>7, <2>2, <3>1, TurnKept
  <2> QED BY <2>1, <2>2
<1>11. DatabasesOK(host', toHost, palm.out, palm.open, device)
  BY <1>1, <1>9, <1>10, TurnInOrder
<1>12. toHost' = toHost /\ palm' = palm /\ device' = device
  BY DEF InstallPrcButton_Click
<1> QED BY <1>11, <1>12 DEF InOrderOK

\* When nothing comes any more and nothing is open, only what was being sent is left.
LEMMA ForgottenInOrder ==
    ASSUME NEW h \in Hosts, LongIsWrite(h), AllProper(Due(h)), NEW g, g.uart = <<>>,
           g.pendingPadp \in {h.pendingPadp, NotSending}, g.installState = "Idle",
           NEW kept, ~kept.unacked, NEW d, DeviceInOrder(d)
    PROVE  DatabasesOK(g, <<>>, kept, None, d)
<1>0. Len(<<>>) = 0
  OBVIOUS
<1>1. LongIsWrite(g) /\ AllProper(Due(g)) /\ LandInOrder(Due(g))
      /\ (\A X, Y : Apart(Due(g), X, Y)) /\ ~Carried(Due(g), Requests(Create))
  <2>1. CASE ~g.pendingPadp.active
    <3>1. Due(g) = <<>> /\ LongIsWrite(g)
      BY <2>1 DEF Due, LongIsWrite
    <3>2. AllProper(<<>>) /\ LandInOrder(<<>>) /\ (\A X, Y : Apart(<<>>, X, Y))
          /\ ~Carried(<<>>, Requests(Create))
      BY <1>0 DEF AllProper, LandInOrder, Apart, Carried
    <3> QED BY <3>1, <3>2
  <2>2. CASE g.pendingPadp.active
    <3> DEFINE f == Unsent(h.pendingPadp)
               r == Append(<<>>, f)
    <3>1. g.pendingPadp = h.pendingPadp
      BY <2>2 DEF NotSending
    <3>2. Due(h) = Append(h.uart, f) /\ Due(g) = r
      BY <2>2, <3>1 DEF Due
    <3>3. f.msg \in Requests(Writes)
      BY <2>2, <3>1 DEF LongIsWrite, Unsent, WholeFrame, Frame
    <3>4. f \in FramesOf(Messages) /\ h.uart \in Seq(FramesOf(Messages))
      BY <2>2, <3>1, DueType DEF Hosts
    <3> HIDE DEF f
    <3>5. Len(r) = 1 /\ r[1] = f
      OBVIOUS
    <3>6. Eases(Due(h), Due(g))
      BY <3>2, <3>4, LastEases
    <3> HIDE DEF r
    <3>7. f.msg \notin Requests(Create)
      BY <3>3 DEF Requests, Create, Writes
    <3>8. LandInOrder(r) /\ (\A X, Y : Apart(r, X, Y)) /\ ~Carried(r, Requests(Create))
      BY <3>5, <3>7 DEF LandInOrder, Apart, Carried
    <3>9. AllProper(Due(g)) /\ LongIsWrite(g)
      BY <3>1, <3>6 DEF Eases, LongIsWrite
    <3> QED BY <3>2, <3>8, <3>9
  <2> QED BY <2>1, <2>2
<1>2. \A open : open = None => LandBehind(Due(g), open, d)
  BY DEF LandBehind, WrittenBelow
<1>3. NoneBehind(g, <<>>, kept, Delete, Create)
  <2>1. \A X : ~Carried(<<>>, X) /\ ~Kept(kept, X)
    BY <1>0 DEF Carried, Kept
  <2>2. \A X, Y : Apart(<<>>, X, Y)
    BY <1>0 DEF Apart
  <2> QED BY <1>1, <2>1, <2>2 DEF NoneBehind, ComingApart
<1> QED BY <1>1, <1>2, <1>3 DEF DatabasesOK, TurnsInOrder, FreshIsEmpty, Writing

\* Databases that are absent are in order.
LEMMA AbsentInOrder == DeviceInOrder([i \in Images |-> Absent])
<1>1. Absent.written = <<>> /\ Len(<<>>) = 0
  BY DEF Absent
<1> QED BY <1>1 DEF DeviceInOrder, WrittenInOrder

\* A reset and a restored state forget everything but what the Palm holds, or all of it.
LEMMA ForgettingInOrder ==
    ASSUME IInv, InOrderOK, ResetButton_Click \/ RestoreRamState_Click
    PROVE  InOrderOK'
<1>1. host \in Hosts /\ LongIsWrite(host) /\ AllProper(Due(host)) /\ DeviceInOrder(device)
  BY DEF IInv, TypeOK, InOrderOK, DatabasesOK
<1> DEFINE n == InstallsForgotten(host)
<1>2. n \in Hosts /\ n.installState = "Idle" /\ n.pendingPadp = host.pendingPadp
  <2>1. n \in Hosts
    BY <1>1, AllForgotten
  <2>2. n = [host EXCEPT !.pendingInstall = None, !.pendingInstalls = <<>>,
                         !.installState = "Idle", !.installAppBlockDone = FALSE,
                         !.installSortBlockDone = FALSE]
    BY DEF InstallsForgotten
  <2> HIDE DEF n
  <2> QED BY <1>1, <2>1, <2>2 DEF Hosts
<1>3. \/ host' = [n EXCEPT !.pendingPadp = NotSending, !.rxPadp = NotReceiving, !.uart = <<>>]
      \/ host' = [n EXCEPT !.uart = <<>>]
  BY DEF ResetButton_Click, RestoreRamState_Click, WarmReset
<1> HIDE DEF n
<1>4. /\ host'.uart = <<>> /\ host'.installState = "Idle"
      /\ host'.pendingPadp \in {host.pendingPadp, NotSending}
  BY <1>2, <1>3 DEF Hosts
<1>5. DeviceInOrder(device')
  BY <1>1, AbsentInOrder DEF ResetButton_Click, RestoreRamState_Click
<1>6. toHost' = <<>> /\ palm'.out = PalmSilent /\ palm'.open = None
  BY DEF ResetButton_Click, RestoreRamState_Click, PalmAway
<1>7. ~PalmSilent.unacked
  BY DEF PalmSilent
<1>8. DatabasesOK(host', <<>>, PalmSilent, None, device')
  BY <1>1, <1>4, <1>5, <1>7, ForgottenInOrder
<1> QED BY <1>6, <1>8 DEF InOrderOK

\* At the start nothing is on the line.
LEMMA StartInOrder ==
    ASSUME Init
    PROVE  InOrderOK
<1>1. /\ HostAtStart \in Hosts /\ HostAtStart.uart = <<>>
      /\ HostAtStart.pendingPadp = NotSending /\ HostAtStart.installState = "Idle"
  BY StartIsRight DEF IInv, TypeOK, Init, HostAtStart
<1>2. Due(HostAtStart) = <<>> /\ LongIsWrite(HostAtStart)
  BY <1>1 DEF Due, LongIsWrite, NotSending
<1>3. Len(<<>>) = 0
  OBVIOUS
<1>4. AllProper(Due(HostAtStart))
  BY <1>2, <1>3 DEF AllProper
<1>5. ~PalmSilent.unacked
  BY DEF PalmSilent
<1>6. DatabasesOK(HostAtStart, <<>>, PalmSilent, None, [i \in Images |-> Absent])
  BY <1>1, <1>2, <1>4, <1>5, AbsentInOrder, ForgottenInOrder
<1> QED BY <1>6 DEF Init, InOrderOK, PalmAway

\* Every step keeps the databases in order.
LEMMA StepInOrder ==
    ASSUME IInv, InOrderOK, [Next]_vars
    PROVE  InOrderOK'
<1>1. CASE UNCHANGED vars
  BY <1>1 DEF vars, InOrderOK
<1>2. CASE Next
  BY <1>2, HostStepsInOrder, TakingInOrder, ExecutingInOrder, WhimsInOrder, ClickInOrder,
     ForgettingInOrder DEF Next
<1> QED BY <1>1, <1>2

----------------------------------------------------------------------------
(* What the order means for a database *)

\* A sequence of parts that holds one, and one whose parts come in order.
Holds(w, part) == \E l \in 1 .. Len(w) : w[l] = part
Ordered(w) == \A k, l \in 1 .. Len(w) : k < l => Rank(w[k]) < Rank(w[l])

\* Two of them, one behind the other.
LEMMA Joined ==
    ASSUME NEW s \in Seq(Parcels), NEW t \in Seq(Parcels)
    PROVE  /\ s \o t \in Seq(Parcels)
           /\ \A part : Holds(s \o t, part) <=> Holds(s, part) \/ Holds(t, part)
           /\ /\ Ordered(s) /\ Ordered(t)
              /\ \A p, q : Holds(s, p) /\ Holds(t, q) => Rank(p) < Rank(q)
              => Ordered(s \o t)
<1> DEFINE r == s \o t
           m == Len(s)
           n == Len(t)
<1>1. /\ r \in Seq(Parcels) /\ m \in Nat /\ n \in Nat /\ Len(r) = m + n
      /\ \A k \in 1 .. m : r[k] = s[k]
      /\ \A k \in 1 .. m + n : k > m => r[k] = t[k - m]
  OBVIOUS
<1> HIDE DEF r
<1>2. /\ \A k \in 1 .. m + n : k \in 1 .. m \/ (k > m /\ k - m \in 1 .. n)
      /\ \A k \in 1 .. n : k + m \in 1 .. m + n /\ k + m > m /\ (k + m) - m = k
      /\ \A k \in 1 .. m : k \in 1 .. m + n
      /\ \A k, l \in 1 .. m + n : k < l /\ l \in 1 .. m => k \in 1 .. m
      /\ \A k, l \in 1 .. m + n : k < l => k - m < l - m
  BY <1>1
<1>a. m = Len(s) /\ n = Len(t)
  OBVIOUS
<1> HIDE DEF m, n
<1>3. ASSUME NEW part PROVE Holds(r, part) <=> Holds(s, part) \/ Holds(t, part)
  <2>1. ASSUME Holds(r, part) PROVE Holds(s, part) \/ Holds(t, part)
    <3>1. PICK k \in 1 .. m + n : r[k] = part
      BY <1>1, <2>1 DEF Holds
    <3>2. CASE k \in 1 .. m
      BY <1>1, <1>a, <3>1, <3>2 DEF Holds
    <3>3. CASE k > m /\ k - m \in 1 .. n
      BY <1>1, <1>a, <3>1, <3>3 DEF Holds
    <3> QED BY <1>2, <3>2, <3>3
  <2>2. ASSUME Holds(s, part) PROVE Holds(r, part)
    <3>1. PICK k \in 1 .. m : s[k] = part
      BY <1>a, <2>2 DEF Holds
    <3>2. k \in 1 .. m + n /\ r[k] = part
      BY <1>1, <1>2, <3>1
    <3> QED BY <1>1, <3>2 DEF Holds
  <2>3. ASSUME Holds(t, part) PROVE Holds(r, part)
    <3>1. PICK k \in 1 .. n : t[k] = part
      BY <1>a, <2>3 DEF Holds
    <3>2. k + m \in 1 .. m + n /\ r[k + m] = t[(k + m) - m] /\ (k + m) - m = k
      BY <1>1, <1>2
    <3> QED BY <1>1, <3>1, <3>2 DEF Holds
  <2> QED BY <2>1, <2>2, <2>3
<1>4. ASSUME Ordered(s), Ordered(t),
             \A p, q : Holds(s, p) /\ Holds(t, q) => Rank(p) < Rank(q)
      PROVE  Ordered(r)
  <2> SUFFICES ASSUME NEW k \in 1 .. m + n, NEW l \in 1 .. m + n, k < l
               PROVE  Rank(r[k]) < Rank(r[l])
    BY <1>1 DEF Ordered
  <2>1. CASE l \in 1 .. m
    BY <1>1, <1>2, <1>4, <1>a, <2>1 DEF Ordered
  <2>2. CASE k > m /\ k - m \in 1 .. n /\ l > m /\ l - m \in 1 .. n
    BY <1>1, <1>2, <1>4, <1>a, <2>2 DEF Ordered
  <2>3. CASE k \in 1 .. m /\ l > m /\ l - m \in 1 .. n
    <3>1. Holds(s, s[k]) /\ Holds(t, t[l - m])
      BY <1>a, <2>3 DEF Holds
    <3>2. r[k] = s[k] /\ r[l] = t[l - m]
      BY <1>1, <2>3
    <3> QED BY <1>4, <3>1, <3>2
  <2>4. k > m => l > m
    BY <1>1
  <2> QED BY <1>2, <2>1, <2>2, <2>3, <2>4
<1> QED BY <1>1, <1>3, <1>4 DEF r

\* A block is there if it is not empty.
LEMMA BlockHolds ==
    ASSUME NEW image \in Images, NEW cmd \in Commands, NEW size \in Nat
    PROVE  LET b == Block(cmd, image, size)
           IN  /\ b \in Seq(Parcels) /\ Ordered(b)
               /\ \A part : Holds(b, part) <=>
                      size > 0 /\ part = [cmd |-> cmd, image |-> image, item |-> 0]
<1> DEFINE e == [cmd |-> cmd, image |-> image, item |-> 0]
           b == Block(cmd, image, size)
<1>1. e \in Parcels
  BY DEF Parcels
<1>2. b = IF size > 0 THEN <<e>> ELSE <<>>
  BY DEF Block
<1> HIDE DEF e, b
<1>3. CASE size > 0
  <2>1. b \in Seq(Parcels) /\ Len(b) = 1 /\ b[1] = e
    BY <1>1, <1>2, <1>3
  <2> QED BY <1>3, <2>1 DEF Holds, Ordered, b, e
<1>4. CASE ~(size > 0)
  <2>1. b \in Seq(Parcels) /\ Len(b) = 0
    BY <1>2, <1>4
  <2> QED BY <1>4, <2>1 DEF Holds, Ordered, b, e
<1> QED BY <1>3, <1>4

\* A whole copy has every proper part of its image, in order.
LEMMA WholeHolds ==
    ASSUME NEW image \in Images
    PROVE  /\ Whole(image) \in Seq(Parcels) /\ Ordered(Whole(image))
           /\ \A part \in Parcels : part.image = image /\ Proper(part)
                                    => Holds(Whole(image), part)
<1> DEFINE N == Len(Info[image].items)
           cmd == WriteCommand(image)
           a == Block("WriteAppBlock", image, Info[image].app)
           b == Block("WriteSortBlock", image, Info[image].sort)
           c == [k \in 1 .. N |-> [cmd |-> cmd, image |-> image, item |-> k]]
<1>0. N \in Nat /\ Info[image].app \in Nat /\ Info[image].sort \in Nat
  BY InfoType
<1>1. /\ cmd \in Commands /\ cmd \notin {"WriteAppBlock", "WriteSortBlock"}
      /\ "WriteAppBlock" \in Commands /\ "WriteSortBlock" \in Commands
  BY DEF WriteCommand, Commands
<1>2. /\ a \in Seq(Parcels) /\ Ordered(a)
      /\ \A part : Holds(a, part) <=>
             /\ Info[image].app > 0
             /\ part = [cmd |-> "WriteAppBlock", image |-> image, item |-> 0]
  BY <1>0, <1>1, BlockHolds
<1>3. /\ b \in Seq(Parcels) /\ Ordered(b)
      /\ \A part : Holds(b, part) <=>
             /\ Info[image].sort > 0
             /\ part = [cmd |-> "WriteSortBlock", image |-> image, item |-> 0]
  BY <1>0, <1>1, BlockHolds
<1>4. Whole(image) = (a \o b) \o c
  BY DEF Whole
<1> HIDE DEF N, cmd, a, b
<1>5. c \in Seq(Parcels) /\ Len(c) = N
  <2>1. \A k \in 1 .. N : [cmd |-> cmd, image |-> image, item |-> k] \in Parcels
    BY <1>0, <1>1 DEF Parcels
  <2> QED BY <1>0, <2>1
<1>6. \A k \in 1 .. N : c[k] = [cmd |-> cmd, image |-> image, item |-> k]
  OBVIOUS
<1> HIDE DEF c
<1>7. \A part : Holds(c, part) <=>
          \E k \in 1 .. N : part = [cmd |-> cmd, image |-> image, item |-> k]
  BY <1>5, <1>6 DEF Holds
<1>8. \A k \in 1 .. N : Rank(c[k]) = k + 1
  <2> SUFFICES ASSUME NEW k \in 1 .. N PROVE Rank(c[k]) = k + 1
    OBVIOUS
  <2> DEFINE e == c[k]
  <2>0. e = [cmd |-> cmd, image |-> image, item |-> k]
    BY <1>6
  <2> HIDE DEF e
  <2>1. e.cmd = cmd /\ e.item = k
    BY <2>0
  <2>2. Rank(e) = e.item + 1
    BY <1>1, <2>1 DEF Rank
  <2> QED BY <2>1, <2>2 DEF e
<1>9. Ordered(c)
  BY <1>0, <1>5, <1>8 DEF Ordered
<1>10. /\ \A p : Holds(a, p) => Rank(p) = 0
       /\ \A p : Holds(b, p) => Rank(p) = 1
       /\ \A p : Holds(c, p) => Rank(p) \in Nat /\ Rank(p) > 1
  <2>1. \A p : Holds(a, p) => Rank(p) = 0
    BY <1>2 DEF Rank
  <2>2. \A p : Holds(b, p) => Rank(p) = 1
    BY <1>3 DEF Rank
  <2>3. ASSUME NEW p, Holds(c, p) PROVE Rank(p) \in Nat /\ Rank(p) > 1
    <3>1. PICK k \in 1 .. N : p = c[k]
      BY <1>5, <2>3 DEF Holds
    <3> QED BY <1>0, <1>8, <3>1
  <2> QED BY <2>1, <2>2, <2>3
<1>11. /\ a \o b \in Seq(Parcels) /\ Ordered(a \o b)
       /\ \A part : Holds(a \o b, part) <=> Holds(a, part) \/ Holds(b, part)
  <2>1. \A p, q : Holds(a, p) /\ Holds(b, q) => Rank(p) < Rank(q)
    BY <1>10
  <2> QED BY <1>2, <1>3, <2>1, Joined
<1> DEFINE ab == a \o b
<1>12. /\ ab \o c \in Seq(Parcels) /\ Ordered(ab \o c)
       /\ \A part : Holds(ab \o c, part) <=> Holds(ab, part) \/ Holds(c, part)
  <2>1. \A p, q : Holds(ab, p) /\ Holds(c, q) => Rank(p) < Rank(q)
    BY <1>10, <1>11
  <2>2. ab \in Seq(Parcels) /\ Ordered(ab)
    BY <1>11
  <2> HIDE DEF ab
  <2> QED BY <1>5, <1>9, <2>1, <2>2, Joined
<1>13. ASSUME NEW part \in Parcels, part.image = image, Proper(part)
       PROVE  Holds(ab \o c, part)
  <2>1. part = [cmd |-> part.cmd, image |-> image, item |-> part.item]
    BY <1>13 DEF Parcels
  <2>2. \/ part.cmd = "WriteAppBlock" /\ part.item = 0 /\ Info[image].app > 0
        \/ part.cmd = "WriteSortBlock" /\ part.item = 0 /\ Info[image].sort > 0
        \/ part.cmd = cmd /\ part.item \in 1 .. N
    BY <1>13 DEF Proper, cmd, N
  <2>3. Holds(a, part) \/ Holds(b, part) \/ Holds(c, part)
    BY <1>2, <1>3, <1>7, <2>1, <2>2
  <2> QED BY <1>11, <1>12, <2>3
<1> QED BY <1>4, <1>12, <1>13

\* The parts w has are in the whole copy of the image, in its order.
InPlaces(w, image) ==
    LET place(part) == CHOOSE k \in 1 .. Len(Whole(image)) : Whole(image)[k] = part
    IN  /\ \A k \in 1 .. Len(w) : \E l \in 1 .. Len(Whole(image)) : Whole(image)[l] = w[k]
        /\ \A k \in 1 .. Len(w) - 1 : place(w[k]) < place(w[k + 1])

\* Parts in order, each of which is proper, are in the order of a whole copy.
LEMMA OrderMeansPlaces ==
    ASSUME NEW image \in Images, NEW w \in Seq(Parcels), WrittenInOrder(w, image)
    PROVE  InPlaces(w, image)
<1> DEFINE W == Whole(image)
           place(part) == CHOOSE k \in 1 .. Len(W) : W[k] = part
<1>1. /\ W \in Seq(Parcels) /\ Ordered(W)
      /\ \A part \in Parcels : part.image = image /\ Proper(part) => Holds(W, part)
  BY WholeHolds
<1> HIDE DEF W
<1>2. \A k \in 1 .. Len(w) : w[k] \in Parcels /\ Holds(W, w[k])
  BY <1>1 DEF WrittenInOrder
<1>3. \A part : Holds(W, part) => place(part) \in 1 .. Len(W) /\ W[place(part)] = part
  BY DEF Holds
<1> HIDE DEF place
<1>4. ASSUME NEW k \in 1 .. Len(w) - 1 PROVE place(w[k]) < place(w[k + 1])
  <2>1. Len(w) \in Nat /\ k \in 1 .. Len(w) /\ k + 1 \in 1 .. Len(w) /\ k < k + 1
    OBVIOUS
  <2> DEFINE p == w[k]
             q == w[k + 1]
  <2>2. Rank(p) < Rank(q)
    BY <2>1 DEF WrittenInOrder
  <2>3. Rank(p) \in Nat /\ Rank(q) \in Nat
    BY <1>2, <2>1, RankType DEF Parcels
  <2>4. /\ place(p) \in 1 .. Len(W) /\ W[place(p)] = p
        /\ place(q) \in 1 .. Len(W) /\ W[place(q)] = q
    BY <1>2, <1>3, <2>1
  <2> HIDE DEF p, q
  <2>5. place(q) < place(p) => Rank(q) < Rank(p)
    BY <1>1, <2>4 DEF Ordered
  <2>6. place(q) = place(p) => q = p
    BY <2>4
  <2>7. Len(W) \in Nat
    BY <1>1
  <2>8. place(p) < place(q) \/ place(q) < place(p) \/ place(q) = place(p)
    BY <2>4, <2>7
  <2> QED BY <2>2, <2>3, <2>5, <2>6, <2>8 DEF p, q
<1>5. \A k \in 1 .. Len(w) : \E l \in 1 .. Len(W) : W[l] = w[k]
  BY <1>2 DEF Holds
<1> QED BY <1>4, <1>5 DEF W, place, InPlaces

\* Whatever is lost, repeated, refused or broken off, a database on the Palm only ever holds
\* parts of its own image, each once and in the order of the image.
THEOREM WrittenAlwaysOnceInOrder == Spec => []WrittenOnceInOrder
<1>1. Init => InOrderOK
  BY StartInOrder
<1>2. IInv /\ InOrderOK /\ [Next]_vars => InOrderOK'
  BY StepInOrder
<1>3. IInv /\ InOrderOK => WrittenOnceInOrder
  <2> SUFFICES ASSUME IInv, InOrderOK, NEW i \in Images
               PROVE  InPlaces(device[i].written, i)
    BY DEF WrittenOnceInOrder, InPlaces
  <2>1. device[i].written \in Seq(Parcels)
    BY PalmParts DEF IInv, Devices
  <2>2. WrittenInOrder(device[i].written, i)
    BY DEF InOrderOK, DatabasesOK, DeviceInOrder
  <2> QED BY <2>1, <2>2, OrderMeansPlaces
<1> QED BY <1>1, <1>2, <1>3, InvariantHolds, PTL DEF Spec

=============================================================================
