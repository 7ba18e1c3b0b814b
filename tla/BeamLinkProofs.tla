--------------------------- MODULE BeamLinkProofs ---------------------------
(***************************************************************************)
(* Proofs about BeamLink, for any files, chunk sizes, modulus and bounds:  *)
(* its type and that a paced body never waits for a credit, always; that   *)
(* the frames under way are few, and that the link implements BeamTransfer,*)
(* as long as discovery does not go on over frames under way.              *)
(*                                                                         *)
(* The invariant IInv says of the sender, the receiver and both lines that *)
(* they fit together. Mode says how, in one of three ways: the frames of a *)
(* link that was left behind (Leftover), the one frame that the setup of a *)
(* link waits for (SettingUp), or a link in step (InLink), where numbers   *)
(* tell whose turn it is, a new frame on a line is never before an old     *)
(* one, and the new one, the frame kept to repeat and what the receiver    *)
(* holds are what the sender's state says. Tally says that no file is      *)
(* saved more often than it was started. LoadOf is the number of frames    *)
(* that the frames under way can still lead to; only a repeat adds to it.  *)
(* CreditInv is weaker and needs no such order: what the credits depend on.*)
(*                                                                         *)
(* An operator takes the sender x, the receiver y, the line back with the  *)
(* receiver's answers still to be written, the starts n of each file, and  *)
(* the number b of objects saved at the last start; t and v are x and y    *)
(* after a step.                                                           *)
(***************************************************************************)
EXTENDS BeamLink, SequenceTheorems, FiniteSetTheorems, TLAPS

----------------------------------------------------------------------------
(* The invariant *)

\* The frames of a line, those of a kind, and how many of a line are in a set.
On(line) == {line[i] : i \in DOMAIN line}
Kind(kinds) == {f \in Frames : f.kind \in kinds}
Count(line, A) == Cardinality({k \in DOMAIN line : line[k] \in A})

\* Behind one of A there is none of B.
Ordered(line, A, B) == \A i, j \in DOMAIN line : i < j /\ line[i] \in A => line[j] \notin B

\* The line back, with the answer in the slot and those still queued.
Answers(y) == (IF y.slot = None THEN <<>> ELSE <<y.slot>>) \o y.queue

\* The information frames numbered n, the one that is waited for, and those before.
Numbers == 0 .. Modulus - 1
Info(n) == {f \in Frames : f.kind = "I" /\ f.ns = n}
Before(n) == {f \in Frames : f.kind = "I" /\ f.ns \in Numbers /\ NextSeq(f.ns) = n}
InStep(line, n) ==
    /\ \A f \in On(line) : f.kind = "I" => f \in Info(n) \/ f \in Before(n)
    /\ Ordered(line, Info(n), Before(n))

\* Whose turn it is in a link.
Asking(x, y) == y.receiveNext = x.receiveNext /\ x.transmitNext = NextSeq(x.receiveNext)
Answering(x, y) == y.receiveNext = x.transmitNext /\ x.transmitNext = NextSeq(x.receiveNext)
Pausing(x, y) == y.receiveNext = x.transmitNext /\ x.transmitNext = x.receiveNext

\* As much of the file as is sent.
Begun(x) == SubSeq(UnitsOf(x.file), 1, x.offset)

\* The request of each state, and what the receiver holds before it ...
Asked(x, y, m) ==
    CASE x.state = "IasConnect" -> m = Message("LmpConnect")
      [] x.state = "IasQuery" -> m = Message("IasQuery")
      [] x.state = "ObexLmpConnect" -> m = ToObex("LmpConnect")
      [] x.state = "ObexConnect" -> m = ToObex("ObexConnect")
      [] x.state = "ObexPutMeta" -> m = ToObex("PutMeta") /\ y.body = <<>>
      [] x.state = "ObexPutBody" ->
             /\ m = Put(m.units, x.offset = Units[x.file])
             /\ y.body \o m.units = Begun(x)
      [] x.state = "ObexDisconnect" -> m = ToObex("ObexDisconnect")

\* ... and its answer, with what it holds after.
Answered(x, y, m) ==
    CASE x.state = "IasConnect" -> m = Message("LmpConfirm")
      [] x.state = "IasQuery" -> m = Message("IasLsap")
      [] x.state = "ObexLmpConnect" -> m = ToObex("LmpConfirm")
      [] x.state = "ObexConnect" -> m = ToObex("ObexOk") /\ y.body = <<>>
      [] x.state = "ObexPutMeta" -> m = ToObex("ObexContinue") /\ y.body = <<>>
      [] x.state = "ObexPutBody" ->
             IF x.offset = Units[x.file] THEN m = ToObex("ObexOk")
             ELSE m = ToObex("ObexContinue") /\ y.body = Begun(x)
      [] x.state = "ObexDisconnect" -> m = ToObex("ObexOk")

LinkStates == {"IasConnect", "IasQuery", "ObexLmpConnect", "ObexConnect", "ObexPutMeta",
               "ObexPutBody", "ObexDisconnect"}

\* The requests on the line, and the one waited for knows the answer before it.
RequestsInStep(x, y) ==
    /\ InStep(x.serial, y.receiveNext)
    /\ \A f \in On(x.serial) \cap Info(y.receiveNext) : f.nr = y.transmitNext

AnswerXids == {f \in Frames : f.kind = "Xid" /\ f.ns = AnswerSlot}
Tokens == AnswerXids \union Kind({"Snrm"})

\* A link is set up: at most one frame that the next step waits for is under way.
SettingUp(x, y, back) ==
    /\ x.state \in {"Discover", "Snrm"}
    /\ On(x.serial) \subseteq Kind({"Xid", "Snrm"})
    /\ Ordered(x.serial, Tokens, Tokens)
    /\ back \in {<<>>, <<Control("XidResponse")>>, <<Control("Ua")>>}
    /\ back # <<>> => On(x.serial) \cap Tokens = {}
    /\ back = <<Control("Ua")>> =>
           y.connected /\ y.receiveNext = 0 /\ y.transmitNext = 0 /\ y.last = None
    /\ x.state = "Snrm" => On(x.serial) \cap AnswerXids = {} /\ back # <<Control("XidResponse")>>

\* The body is begun after the file's description; the way through it is never slowed before.
SenderPlace(x) ==
    /\ x.state \notin {"ObexPutBody", "ObexDisconnect"} => ~x.paced /\ ~x.endSent /\ x.offset = 0
    /\ x.state = "ObexPutBody" =>
           x.offset \in 0 .. Units[x.file] /\ (Units[x.file] > 0 \/ x.file \in TextFiles)

\* The sender: the request it is on is the one of its state, on the line and kept to repeat.
SenderInLink(x, y) ==
    /\ On(x.serial) \subseteq Kind({"Xid", "I", "RR"}) \ AnswerXids
    /\ RequestsInStep(x, y)
    /\ \A f \in On(x.serial) \cap Info(y.receiveNext) : Asking(x, y) /\ Asked(x, y, f.data)
    /\ x.last # None =>
           /\ x.last \in Before(x.transmitNext)
           /\ Asking(x, y) => Asked(x, y, x.last.data) /\ x.last.nr = y.transmitNext
    /\ SenderPlace(x)
    /\ x.pending => Pausing(x, y) /\ x.credits > 0 /\ x.last = None

\* The receiver: what it answered is the answer of the sender's state, and what it holds of
\* the body is what the sender has sent.
AnswersInStep(x, y, back) ==
    /\ On(back) \subseteq Kind({"I"})
    /\ InStep(back, x.receiveNext)
    /\ \A f \in On(back) \cap Info(x.receiveNext) :
           Answering(x, y) /\ Answered(x, y, f.data) /\ f.nr = y.receiveNext

ReceiverInLink(x, y, back) ==
    /\ y.connected /\ y.transmitNext = y.receiveNext
    /\ AnswersInStep(x, y, back)
    /\ y.last # None => y.last.ns \in Numbers /\ NextSeq(y.last.ns) = y.transmitNext
    /\ y.last = None => /\ Asking(x, y) /\ back = <<>>
                        /\ On(x.serial) \cap (Kind({"RR"}) \union Before(y.receiveNext)) = {}
    /\ Answering(x, y) => Answered(x, y, y.last.data)
    /\ Pausing(x, y) => x.state = "ObexPutBody" /\ x.offset < Units[x.file] /\ y.body = Begun(x)

InLink(x, y, back) ==
    /\ x.state \in LinkStates
    /\ Asking(x, y) \/ Answering(x, y) \/ Pausing(x, y)
    /\ SenderInLink(x, y) /\ ReceiverInLink(x, y, back)

StartedTimes(f) == Cardinality({k \in DOMAIN started : started[k] = f})
SavedTimes(y, f) == Cardinality({k \in DOMAIN y.saved : Whole(y.saved[k], f)})
EmptyFiles == {f \in Files \ TextFiles : Units[f] = 0}

\* The last frame of a link left behind may still save its file.
Leftover(x, y, back, n) ==
    /\ x.state \in {"Discover", "Idle"}
    /\ On(x.serial) \subseteq Kind({"Xid", "I", "RR", "Disc"}) \ AnswerXids
    /\ On(back) \subseteq Kind({"I", "RR", "Ua"})
    /\ y.connected =>
         /\ RequestsInStep(x, y)
         /\ \A f \in On(x.serial) \cap Info(y.receiveNext) :
               /\ On(x.serial) \cap Kind({"Disc"}) = {}
               /\ f.data.kind = "PutBody" /\ f.data.final =>
                     \E g \in Files : /\ Whole(y.body \o f.data.units, g)
                                      /\ SavedTimes(y, g) + (IF x.file = g THEN 1 ELSE 0) < n[g]

\* The receiver has saved the file that the sender is still on.
HasSaved(x, y) == \/ x.state = "ObexDisconnect"
                  \/ x.state = "ObexPutBody" /\ Answering(x, y) /\ x.offset = Units[x.file]

\* The numbers of both are numbers.
InNumbers(x, y) == /\ x.transmitNext \in Numbers /\ x.receiveNext \in Numbers
                   /\ y.transmitNext \in Numbers /\ y.receiveNext \in Numbers

\* The request that is waited for is under way.
Waiting(x, y) == y.connected /\ On(x.serial) \intersect Info(y.receiveNext) # {}

\* How many frames can still come from those under way: an information frame may be answered
\* and acknowledged, an acknowledgement answered; the answer to the one waited for takes its
\* place.
LoadOf(x, y, back) ==
    2 * Count(x.serial, Kind({"I"})) + Count(x.serial, Kind({"RR"}))
    + Count(back, Kind({"I", "RR"})) + (IF x.pending THEN 1 ELSE 0)
    - (IF Waiting(x, y) THEN 1 ELSE 0)

\* The file has been saved since it was started.
HasDelivered(x, y, b) == \E k \in b + 1 .. Len(y.saved) : Whole(y.saved[k], x.file)

\* What is saved: whole files, none more often than it was started.
Tally(x, y, n, b) ==
    /\ b \in Nat /\ b <= Len(y.saved) /\ n \in [Files -> Nat]
    /\ x.state # "Idle" <=> x.file \in Files
    /\ x.file = None <=> x.state = "Idle"
    /\ x.state \notin LinkStates => x.last = None /\ ~x.pending /\ ~x.endSent /\ x.offset = 0
    /\ \A k \in DOMAIN y.saved : \E f \in Files : Whole(y.saved[k], f)
    /\ \A f \in Files : SavedTimes(y, f) <= n[f]
    /\ x.file \in Files /\ ~HasSaved(x, y) => SavedTimes(y, x.file) < n[x.file]
    /\ HasSaved(x, y) => HasDelivered(x, y, b) \/ x.file \in EmptyFiles

\* How sender, receiver and lines fit, by the state of the sender.
Mode(x, y, back, n) ==
    /\ x.state = "Idle" => Leftover(x, y, back, n)
    /\ x.state = "Discover" => Leftover(x, y, back, n) \/ SettingUp(x, y, back)
    /\ x.state = "Snrm" => SettingUp(x, y, back)
    /\ x.state \in LinkStates => InLink(x, y, back)

Fits(x, y, back, n, b) ==
    /\ x \in Senders /\ y \in Receivers /\ back \in Seq(Frames)
    /\ InNumbers(x, y) /\ Mode(x, y, back, n) /\ Tally(x, y, n, b)

\* The line back, and how often each file was started.
Line == toSender \o Answers(r)
StartedOf == [f \in Files |-> StartedTimes(f)]

\* The inductive invariant.
IInv ==
    /\ TypeOK /\ past # "mixed"
    /\ Fits(s, r, Line, StartedOf, before)
    /\ LoadOf(s, r, Line) <= 2 + 2 * faults

\* What holds also when links are mixed: a sender at work has a file, and a chunk that waits
\* has a credit, ...
Credited(x) ==
    /\ x.state # "Idle" => x.file \in Files
    /\ x.state \notin {"ObexPutBody", "ObexDisconnect"} => ~x.pending
    /\ x.pending => x.credits > 0

\* ... for the answers that it waits for come over TinyTP, the ones kept to repeat as well.
Credits(m) == m.kind \in {"ObexContinue", "ObexOk"} => m.obex
Crediting(y, back) ==
    /\ \A f \in On(back) : Credits(f.data)
    /\ y.last # None => Credits(y.last.data)

CreditInv == TypeOK /\ Credited(s) /\ Crediting(r, Line)

----------------------------------------------------------------------------
(* Lines *)

\* Frame numbers count round, and no two of them have the same next one.
LEMMA NextIs ==
    ASSUME NEW n \in Numbers
    PROVE  NextSeq(n) = IF n + 1 = Modulus THEN 0 ELSE n + 1
  BY BeamAssumption DEF Numbers, NextSeq

\* ... so that the number before a number is known from it.
LEMMA NextNumber ==
    ASSUME NEW n \in Numbers
    PROVE  /\ NextSeq(n) \in Numbers /\ NextSeq(n) # n /\ 0 \in Numbers
           /\ \A k \in Numbers : NextSeq(k) = NextSeq(n) => k = n
  BY BeamAssumption, NextIs DEF Numbers

\* What is on a line with a frame more, or without its first.
LEMMA OnAppend ==
    ASSUME NEW line \in Seq(Frames), NEW f \in Frames
    PROVE  /\ Append(line, f) \in Seq(Frames)
           /\ On(Append(line, f)) = On(line) \union {f}
<1>1. /\ Append(line, f) \in Seq(Frames) /\ Len(Append(line, f)) = Len(line) + 1
      /\ \A i \in 1 .. Len(line) : Append(line, f)[i] = line[i]
      /\ Append(line, f)[Len(line) + 1] = f
  BY AppendProperties
<1> DEFINE l == Append(line, f)
<1>2. DOMAIN l = 1 .. Len(line) + 1 /\ DOMAIN line = 1 .. Len(line) /\ Len(line) \in Nat
  BY <1>1
<1> HIDE DEF l
<1>3. DOMAIN l = DOMAIN line \union {Len(line) + 1}
  BY <1>2
<1> QED BY <1>1, <1>2, <1>3 DEF On, l

\* What is on a line without its first frame was on it.
LEMMA OnTail ==
    ASSUME NEW line \in Seq(Frames), line # <<>>
    PROVE  /\ Tail(line) \in Seq(Frames) /\ Head(line) \in Frames
           /\ On(Tail(line)) \subseteq On(line) /\ Head(line) \in On(line)
           /\ On(line) \subseteq Frames
<1>1. /\ Head(line) \in Frames /\ Tail(line) \in Seq(Frames) /\ Len(Tail(line)) = Len(line) - 1
      /\ \A i \in 1 .. Len(Tail(line)) : Tail(line)[i] = line[i + 1]
  BY HeadTailProperties
<1>2. DOMAIN line = 1 .. Len(line) /\ Len(line) \in Nat \ {0} /\ Head(line) = line[1]
      /\ DOMAIN Tail(line) = 1 .. Len(Tail(line))
  BY <1>1
<1>3. ASSUME NEW i \in DOMAIN Tail(line) PROVE Tail(line)[i] \in On(line)
  <2>1. i + 1 \in DOMAIN line /\ Tail(line)[i] = line[i + 1]
    BY <1>1, <1>2
  <2> QED BY <2>1 DEF On
<1>4. \A i \in DOMAIN line : line[i] \in Frames
  BY <1>2
<1> QED BY <1>1, <1>2, <1>3, <1>4 DEF On

\* Only frames are on a line, and none on an empty one.
LEMMA OnFrames ==
    ASSUME NEW line \in Seq(Frames)
    PROVE  /\ On(line) \subseteq Frames
           /\ line = <<>> => On(line) = {}
<1>1. \A i \in DOMAIN line : line[i] \in Frames
  OBVIOUS
<1>2. line = <<>> => DOMAIN line = {}
  OBVIOUS
<1> QED BY <1>1, <1>2 DEF On

\* The order of a line survives a frame that is fit to be behind the others, ...
LEMMA OrderedAppend ==
    ASSUME NEW line \in Seq(Frames), NEW f \in Frames, NEW A, NEW B, Ordered(line, A, B),
           f \notin B \/ On(line) \intersect A = {}
    PROVE  Ordered(Append(line, f), A, B)
<1> DEFINE l == Append(line, f)
<1>1. /\ DOMAIN l = 1 .. Len(line) + 1 /\ DOMAIN line = 1 .. Len(line) /\ Len(line) \in Nat
      /\ \A i \in 1 .. Len(line) : l[i] = line[i]
      /\ l[Len(line) + 1] = f
  BY AppendProperties
<1> HIDE DEF l
<1>2. ASSUME NEW i \in DOMAIN l, NEW j \in DOMAIN l, i < j, l[i] \in A PROVE l[j] \notin B
  <2>1. i \in DOMAIN line /\ l[i] = line[i]
    BY <1>1, <1>2
  <2>2. CASE j \in DOMAIN line
    BY <1>1, <1>2, <2>1, <2>2 DEF Ordered
  <2>3. CASE j = Len(line) + 1
    BY <1>1, <1>2, <2>1, <2>3 DEF On
  <2> QED BY <1>1, <2>2, <2>3
<1> QED BY <1>2 DEF Ordered, l

\* ... and the loss of the first, behind which there are none that it must not be before.
LEMMA OrderedTail ==
    ASSUME NEW line \in Seq(Frames), line # <<>>, NEW A, NEW B, Ordered(line, A, B)
    PROVE  /\ Ordered(Tail(line), A, B)
           /\ Head(line) \in A => On(Tail(line)) \intersect B = {}
<1> DEFINE l == Tail(line)
<1>1. /\ DOMAIN l = 1 .. Len(line) - 1 /\ DOMAIN line = 1 .. Len(line) /\ Len(line) \in Nat \ {0}
      /\ \A i \in 1 .. Len(line) - 1 : l[i] = line[i + 1]
      /\ Head(line) = line[1]
  BY HeadTailProperties
<1> HIDE DEF l
<1>2. ASSUME NEW i \in DOMAIN l, NEW j \in DOMAIN l, i < j, l[i] \in A PROVE l[j] \notin B
  <2>1. i + 1 \in DOMAIN line /\ j + 1 \in DOMAIN line /\ i + 1 < j + 1
        /\ l[i] = line[i + 1] /\ l[j] = line[j + 1]
    BY <1>1, <1>2
  <2> QED BY <1>2, <2>1 DEF Ordered
<1>3. ASSUME Head(line) \in A, NEW j \in DOMAIN l PROVE l[j] \notin B
  <2>1. 1 \in DOMAIN line /\ j + 1 \in DOMAIN line /\ 1 < j + 1 /\ l[j] = line[j + 1]
    BY <1>1, <1>3
  <2> QED BY <1>1, <1>3, <2>1 DEF Ordered
<1> QED BY <1>2, <1>3 DEF Ordered, On, l

\* A frame of another kind, or the one waited for, can be behind all others.
LEMMA InStepAppend ==
    ASSUME NEW line \in Seq(Frames), NEW f \in Frames, NEW n \in Numbers, InStep(line, n),
           \/ f.kind # "I"
           \/ f \in Info(n)
           \/ f \in Before(n) /\ On(line) \intersect Info(n) = {}
    PROVE  InStep(Append(line, f), n)
<1>1. f \in Info(n) => f \notin Before(n)
  BY NextNumber DEF Info, Before
<1>2. f.kind # "I" => f \notin Before(n)
  BY DEF Before
<1>3. Ordered(Append(line, f), Info(n), Before(n))
  BY <1>1, <1>2, OrderedAppend DEF InStep
<1>4. On(Append(line, f)) = On(line) \union {f}
  BY OnAppend
<1> QED BY <1>3, <1>4 DEF InStep

\* A line in step stays in step without its first frame.
LEMMA InStepTail ==
    ASSUME NEW line \in Seq(Frames), line # <<>>, NEW n, InStep(line, n)
    PROVE  InStep(Tail(line), n)
  BY OnTail, OrderedTail DEF InStep

\* Once the one waited for has come, all that are left are from before.
LEMMA InStepNext ==
    ASSUME NEW line \in Seq(Frames), line # <<>>, NEW n \in Numbers, InStep(line, n),
           Head(line) \in Info(n)
    PROVE  /\ InStep(Tail(line), NextSeq(n))
           /\ On(Tail(line)) \intersect Info(NextSeq(n)) = {}
<1>1. On(Tail(line)) \subseteq On(line) /\ On(Tail(line)) \intersect Before(n) = {}
      /\ On(Tail(line)) \subseteq Frames
  BY OnTail, OrderedTail, OnFrames DEF InStep
<1>2. ASSUME NEW f \in On(Tail(line)), f.kind = "I"
      PROVE  f \in Before(NextSeq(n)) /\ f \notin Info(NextSeq(n))
  <2>1. f \in Info(n)
    BY <1>1, <1>2 DEF InStep
  <2> QED BY <1>1, <2>1, NextNumber DEF Info, Before
<1>3. On(Tail(line)) \intersect Info(NextSeq(n)) = {}
  BY <1>2 DEF Info
<1>4. Ordered(Tail(line), Info(NextSeq(n)), Before(NextSeq(n)))
  BY <1>3 DEF Ordered, On
<1> QED BY <1>2, <1>3, <1>4 DEF InStep

\* An empty line, or one without information frames, is in step with every number.
LEMMA InStepWithout ==
    ASSUME NEW line \in Seq(Frames), NEW n, On(line) \intersect Kind({"I"}) = {}
    PROVE  InStep(line, n)
<1>1. On(line) \subseteq Frames
  BY OnFrames
<1>2. \A f \in On(line) : f.kind # "I"
  BY <1>1 DEF Kind
<1>3. \A i \in DOMAIN line : line[i] \notin Info(n)
  BY <1>2 DEF On, Info
<1> QED BY <1>2, <1>3 DEF InStep, Ordered

----------------------------------------------------------------------------
(* Counting *)

\* The places of a line with a frame of A are finitely many.
LEMMA CountNat ==
    ASSUME NEW T, NEW line \in Seq(T), NEW A
    PROVE  /\ IsFiniteSet({k \in DOMAIN line : line[k] \in A})
           /\ Count(line, A) \in Nat
<1>1. DOMAIN line = 1 .. Len(line) /\ Len(line) \in Nat
  OBVIOUS
<1>2. IsFiniteSet(DOMAIN line)
  BY <1>1, FS_Interval
<1>3. {k \in DOMAIN line : line[k] \in A} \in SUBSET DOMAIN line
  OBVIOUS
<1>4. IsFiniteSet({k \in DOMAIN line : line[k] \in A})
  BY <1>2, <1>3, FS_Subset
<1> QED BY <1>4, FS_CardinalityType DEF Count

\* Counts of two lines joined add up.
LEMMA CountJoin ==
    ASSUME NEW T, NEW p \in Seq(T), NEW q \in Seq(T), NEW A
    PROVE  Count(p \o q, A) = Count(p, A) + Count(q, A)
<1> DEFINE l == p \o q
           P == {k \in DOMAIN p : p[k] \in A}
           Q == {k \in DOMAIN q : q[k] \in A}
           R == {k \in DOMAIN l : l[k] \in A}
           S == {k \in R : k > Len(p)}
           F == [k \in Q |-> Len(p) + k]
<1>1. /\ l \in Seq(T) /\ Len(l) = Len(p) + Len(q)
      /\ \A i \in 1 .. Len(p) + Len(q) : l[i] = IF i <= Len(p) THEN p[i] ELSE q[i - Len(p)]
  BY ConcatProperties
<1>2. /\ DOMAIN l = 1 .. Len(p) + Len(q) /\ DOMAIN p = 1 .. Len(p) /\ DOMAIN q = 1 .. Len(q)
      /\ Len(p) \in Nat /\ Len(q) \in Nat
  BY <1>1
<1>3. IsFiniteSet(P) /\ IsFiniteSet(Q) /\ IsFiniteSet(R)
  BY <1>1, CountNat
<1> HIDE DEF l
<1>4. R = P \union S /\ P \intersect S = {}
  <2>1. \A k \in P : k \in R /\ ~(k > Len(p))
    BY <1>1, <1>2
  <2>2. \A k \in R : k \in P \/ k \in S
    BY <1>1, <1>2
  <2> QED BY <2>1, <2>2
<1>5. F \in Bijection(Q, S)
  <2>1. \A k \in Q : Len(p) + k \in S
    BY <1>1, <1>2
  <2>2. \A k \in Q, j \in Q : Len(p) + k = Len(p) + j => k = j
    BY <1>2
  <2>3. ASSUME NEW k \in S PROVE k - Len(p) \in Q /\ Len(p) + (k - Len(p)) = k
    <3>1. k \in 1 .. Len(p) + Len(q) /\ k > Len(p) /\ l[k] \in A
      BY <1>2
    <3>2. k - Len(p) \in DOMAIN q /\ Len(p) + (k - Len(p)) = k /\ l[k] = q[k - Len(p)]
      BY <1>1, <1>2, <3>1
    <3> QED BY <3>1, <3>2
  <2> HIDE DEF Q, S
  <2>4. F \in [Q -> S]
    BY <2>1
  <2>5. F \in Injection(Q, S)
    BY <2>2, <2>4 DEF Injection, IsInjective
  <2>6. F \in Surjection(Q, S)
    BY <2>3, <2>4 DEF Surjection
  <2> QED BY <2>5, <2>6 DEF Bijection
<1>6. IsFiniteSet(S) /\ Cardinality(S) = Cardinality(Q)
  BY <1>3, <1>5, FS_Bijection DEF ExistsBijection
<1>7. Cardinality(R) = Cardinality(P) + Cardinality(S) - Cardinality(P \intersect S)
  <2> HIDE DEF P, R, S
  <2> QED BY <1>3, <1>4, <1>6, FS_Union
<1>8. Cardinality(P) \in Nat /\ Cardinality(Q) \in Nat /\ Cardinality(P \intersect S) = 0
  BY <1>3, <1>4, FS_CardinalityType, FS_EmptySet
<1>9. Count(l, A) = Cardinality(R) /\ Count(p, A) = Cardinality(P) /\ Count(q, A) = Cardinality(Q)
  BY DEF Count
<1>10. Count(l, A) = Count(p, A) + Count(q, A)
  <2> HIDE DEF P, Q, R, S
  <2> QED BY <1>6, <1>7, <1>8, <1>9
<1> QED BY <1>10 DEF l

\* A line of one frame counts as that frame does.
LEMMA CountOne ==
    ASSUME NEW f, NEW A
    PROVE  Count(<<f>>, A) = (IF f \in A THEN 1 ELSE 0) /\ Count(<<>>, A) = 0
<1>1. DOMAIN <<f>> = {1} /\ <<f>>[1] = f
  OBVIOUS
<1>2. {k \in DOMAIN <<f>> : <<f>>[k] \in A} = IF f \in A THEN {1} ELSE {}
  BY <1>1
<1>3. {k \in DOMAIN <<>> : <<>>[k] \in A} = {}
  OBVIOUS
<1> QED BY <1>2, <1>3, FS_EmptySet, FS_Singleton DEF Count

\* A frame more, and a frame less.
LEMMA CountAppend ==
    ASSUME NEW T, NEW line \in Seq(T), NEW f \in T, NEW A
    PROVE  Count(Append(line, f), A) = Count(line, A) + (IF f \in A THEN 1 ELSE 0)
<1>1. Append(line, f) = line \o <<f>> /\ <<f>> \in Seq(T)
  BY AppendIsConcat
<1>2. Count(line \o <<f>>, A) = Count(line, A) + Count(<<f>>, A)
  BY <1>1, CountJoin
<1>3. Count(<<f>>, A) = IF f \in A THEN 1 ELSE 0
  BY CountOne
<1> QED BY <1>1, <1>2, <1>3

\* A line counts as its first frame and the rest of it.
LEMMA CountTail ==
    ASSUME NEW T, NEW line \in Seq(T), line # <<>>, NEW A
    PROVE  Count(line, A) = Count(Tail(line), A) + (IF Head(line) \in A THEN 1 ELSE 0)
<1>1. Head(line) \in T /\ Tail(line) \in Seq(T) /\ <<Head(line)>> \in Seq(T)
  BY HeadTailProperties
<1>2. line = <<Head(line)>> \o Tail(line)
  <2>1. /\ Len(<<Head(line)>> \o Tail(line)) = Len(line)
        /\ <<Head(line)>> \o Tail(line) \in Seq(T)
        /\ \A i \in 1 .. Len(line) : (<<Head(line)>> \o Tail(line))[i] = line[i]
    BY <1>1, HeadTailProperties, ConcatProperties
  <2> QED BY <2>1, SeqEqual
<1>3. Count(<<Head(line)>> \o Tail(line), A) = Count(<<Head(line)>>, A) + Count(Tail(line), A)
  BY <1>1, CountJoin
<1>4. Count(<<Head(line)>>, A) = IF Head(line) \in A THEN 1 ELSE 0
  BY CountOne
<1>5. Count(Tail(line), A) \in Nat
  BY <1>1, CountNat
<1> DEFINE c == Count(Tail(line), A)
<1>6. Count(line, A) = (IF Head(line) \in A THEN 1 ELSE 0) + c
  BY <1>2, <1>3, <1>4
<1>7. c \in Nat
  BY <1>5
<1> HIDE DEF c
<1>8. Count(line, A) = c + (IF Head(line) \in A THEN 1 ELSE 0)
  BY <1>6, <1>7
<1> QED BY <1>8 DEF c

\* A frame of A is on a line just if it is counted.
LEMMA CountSome ==
    ASSUME NEW T, NEW line \in Seq(T), NEW A, NEW B
    PROVE  /\ Count(line, A) = 0 <=> On(line) \intersect A = {}
           /\ On(line) \intersect A \subseteq B => Count(line, A) <= Count(line, B)
           /\ On(line) \intersect A = On(line) \intersect B => Count(line, A) = Count(line, B)
<1> DEFINE P == {k \in DOMAIN line : line[k] \in A}
           Q == {k \in DOMAIN line : line[k] \in B}
<1>1. IsFiniteSet(P) /\ IsFiniteSet(Q)
  BY CountNat
<1>2. P = {} <=> On(line) \intersect A = {}
  BY DEF On
<1>3. On(line) \intersect A \subseteq B => P \in SUBSET Q
  BY DEF On
<1>4. On(line) \intersect A = On(line) \intersect B => P = Q
  BY DEF On
<1>5. Count(line, A) = Cardinality(P) /\ Count(line, B) = Cardinality(Q)
  BY DEF Count
<1> HIDE DEF P, Q
<1> QED BY <1>1, <1>2, <1>3, <1>4, <1>5, FS_EmptySet, FS_Subset

----------------------------------------------------------------------------
(* Messages and frames *)

\* A frame with its four fields is a frame.
LEMMA FrameType ==
    ASSUME NEW kind \in FrameKinds, NEW ns \in Nat, NEW nr \in Nat, NEW m \in Messages
    PROVE  /\ Frame(kind, ns, nr, m) \in Frames
           /\ Frame(kind, ns, nr, m).kind = kind /\ Frame(kind, ns, nr, m).ns = ns
           /\ Frame(kind, ns, nr, m).nr = nr /\ Frame(kind, ns, nr, m).data = m
  BY DEF Frame, Frames

\* The messages without contents, to IAS and to OBEX.
LEMMA MessageType ==
    ASSUME NEW kind \in MessageKinds
    PROVE  /\ Message(kind) \in Messages /\ ToObex(kind) \in Messages
           /\ Message(kind).kind = kind /\ ToObex(kind).kind = kind
           /\ Message(kind).obex = FALSE /\ ToObex(kind).obex = TRUE
           /\ Message(kind).units = <<>> /\ ToObex(kind).units = <<>>
           /\ Message(kind).final = FALSE /\ ToObex(kind).final = FALSE
<1>1. <<>> \in Seq(Parts)
  OBVIOUS
<1> QED BY <1>1 DEF Message, ToObex, Messages

\* A frame without contents, such as an answer to SNRM or DISC.
LEMMA ControlType ==
    ASSUME NEW kind \in FrameKinds
    PROVE  /\ Control(kind) \in Frames /\ Control(kind).kind = kind
           /\ Control(kind).ns = 0 /\ Control(kind).nr = 0 /\ Control(kind) # None
  BY FrameType, MessageType, NoneAssumption DEF Control, MessageKinds

\* A part of the body is a message with its units.
LEMMA PutType ==
    ASSUME NEW units \in Seq(Parts), NEW final \in BOOLEAN
    PROVE  /\ Put(units, final) \in Messages
           /\ Put(units, final).kind = "PutBody" /\ Put(units, final).units = units
           /\ Put(units, final).final = final /\ Put(units, final).obex = TRUE
<1>1. ToObex("PutBody") \in Messages /\ ToObex("PutBody").kind = "PutBody"
      /\ ToObex("PutBody").obex = TRUE
  BY MessageType DEF MessageKinds
<1> QED BY <1>1 DEF Put, Messages

\* A file's units, in order.
LEMMA UnitsType ==
    ASSUME NEW f \in Files
    PROVE  /\ Units[f] \in Nat /\ UnitsOf(f) \in Seq(Parts) /\ Len(UnitsOf(f)) = Units[f]
           /\ \A k \in 1 .. Units[f] : UnitsOf(f)[k] = [file |-> f, unit |-> k]
<1>1. Units[f] \in Nat
  BY BeamAssumption
<1>2. \A k \in 1 .. Units[f] : [file |-> f, unit |-> k] \in Parts
  BY <1>1 DEF Parts
<1> QED BY <1>1, <1>2 DEF UnitsOf

\* An object is at most one file.
LEMMA WholeOnce ==
    ASSUME NEW object, NEW f \in Files, NEW g \in Files, Whole(object, f), Whole(object, g)
    PROVE  f = g
<1>1. UnitsOf(f) = UnitsOf(g) /\ Units[f] = Units[g]
  BY UnitsType DEF Whole
<1>2. CASE Units[f] > 0
  <2>1. 1 \in 1 .. Units[f] /\ 1 \in 1 .. Units[g]
    BY <1>1, <1>2, UnitsType
  <2>2. [file |-> f, unit |-> 1] = [file |-> g, unit |-> 1]
    BY <1>1, <2>1, UnitsType
  <2> QED BY <2>2
<1>3. CASE Units[f] = 0
  <2>1. Units[f] = 0 /\ Units[g] = 0 /\ ~(Units[f] > 0) /\ ~(Units[g] > 0)
    BY <1>1, <1>3
  <2>2. f \in TextFiles /\ g \in TextFiles
    BY <2>1 DEF Whole
  <2> QED BY <2>1, <2>2, ObjectAssumption
<1> QED BY <1>2, <1>3, UnitsType

\* A whole object tells its file.
LEMMA FileOfWhole ==
    ASSUME NEW object, NEW f \in Files, Whole(object, f)
    PROVE  /\ FileOf(object) \in Files /\ FileOf(object) = f
<1>1. FileOf(object) = CHOOSE g \in Files : Whole(object, g)
  BY DEF FileOf
<1> QED BY <1>1, WholeOnce

----------------------------------------------------------------------------
(* The line back *)

\* The answers that are still to be written are frames, the slot's before the queued.
LEMMA AnswersType ==
    ASSUME NEW y \in Receivers
    PROVE  /\ Answers(y) \in Seq(Frames)
           /\ y.slot = None => Answers(y) = y.queue
           /\ y.slot # None => Answers(y) = <<y.slot>> \o y.queue /\ y.slot \in Frames
<1>1. y.queue \in Seq(Frames) /\ y.slot \in Frames \union {None}
  BY DEF Receivers
<1>2. CASE y.slot = None
  BY <1>1, <1>2, ConcatEmptySeq DEF Answers
<1>3. CASE y.slot # None
  <2>1. <<y.slot>> \in Seq(Frames)
    BY <1>1, <1>3
  <2> QED BY <1>1, <1>3, <2>1, ConcatProperties DEF Answers
<1> QED BY <1>2, <1>3

\* What the rest of the link sees of a receiver is the same.
SameLink(y, z) ==
    /\ z \in Receivers
    /\ z.connected = y.connected /\ z.receiveNext = y.receiveNext
    /\ z.transmitNext = y.transmitNext /\ z.last = y.last
    /\ z.body = y.body /\ z.saved = y.saved

\* Taking an answer up keeps the line back as it is, ...
LEMMA TakesUp ==
    ASSUME NEW y \in Receivers
    PROVE  SameLink(y, TakeUp(y)) /\ Answers(TakeUp(y)) = Answers(y)
<1>1. CASE y.slot = None /\ y.queue # <<>>
  <2> DEFINE z == [y EXCEPT !.slot = Head(y.queue), !.queue = Tail(y.queue)]
  <2>1. TakeUp(y) = z
    BY <1>1 DEF TakeUp
  <2>2. y.queue \in Seq(Frames)
    BY DEF Receivers
  <2>3. Head(y.queue) \in Frames /\ Tail(y.queue) \in Seq(Frames)
    BY <1>1, <2>2, HeadTailProperties
  <2>4. SameLink(y, z) /\ z.slot = Head(y.queue) /\ z.queue = Tail(y.queue)
    BY <2>3 DEF Receivers, SameLink
  <2>5. z.slot # None
    BY <2>3, <2>4, NoneAssumption
  <2>6. Answers(z) = <<Head(y.queue)>> \o Tail(y.queue)
    <3> HIDE DEF z
    <3> QED BY <2>4, <2>5 DEF Answers
  <2>7. <<Head(y.queue)>> \o Tail(y.queue) = y.queue
    <3>1. <<Head(y.queue)>> \in Seq(Frames) /\ Len(<<Head(y.queue)>>) = 1
      BY <2>3
    <3>2. /\ Len(<<Head(y.queue)>> \o Tail(y.queue)) = Len(y.queue)
          /\ <<Head(y.queue)>> \o Tail(y.queue) \in Seq(Frames)
          /\ \A i \in 1 .. Len(y.queue) : (<<Head(y.queue)>> \o Tail(y.queue))[i] = y.queue[i]
      BY <1>1, <2>2, <2>3, <3>1, HeadTailProperties, ConcatProperties
    <3> QED BY <2>2, <3>2, SeqEqual
  <2> QED BY <1>1, <2>1, <2>4, <2>6, <2>7, AnswersType
<1>2. CASE ~(y.slot = None /\ y.queue # <<>>)
  <2>1. TakeUp(y) = y
    BY <1>2 DEF TakeUp
  <2> QED BY <2>1 DEF SameLink
<1> QED BY <1>1, <1>2

\* ... and so does writing it to the port; a queued answer comes last.
LEMMA AnswerWritten ==
    ASSUME NEW y \in Receivers, y.slot # None, NEW line \in Seq(Frames)
    PROVE  /\ SameLink(y, [y EXCEPT !.slot = None])
           /\ Append(line, y.slot) \in Seq(Frames)
           /\ Append(line, y.slot) \o Answers([y EXCEPT !.slot = None]) = line \o Answers(y)
<1>1. y.slot \in Frames /\ Answers(y) = <<y.slot>> \o y.queue /\ y.queue \in Seq(Frames)
  BY AnswersType DEF Receivers
<1>2. SameLink(y, [y EXCEPT !.slot = None]) /\ [y EXCEPT !.slot = None].slot = None
      /\ [y EXCEPT !.slot = None].queue = y.queue /\ [y EXCEPT !.slot = None] \in Receivers
  BY DEF Receivers, SameLink
<1>3. Answers([y EXCEPT !.slot = None]) = y.queue
  BY <1>2, AnswersType
<1>4. Append(line, y.slot) = line \o <<y.slot>> /\ <<y.slot>> \in Seq(Frames)
      /\ Append(line, y.slot) \in Seq(Frames)
  BY <1>1, AppendIsConcat, AppendProperties
<1>5. (line \o <<y.slot>>) \o y.queue = line \o (<<y.slot>> \o y.queue)
  <2> DEFINE one == <<y.slot>>
             rest == y.queue
  <2>1. one \in Seq(Frames) /\ rest \in Seq(Frames)
    BY <1>1, <1>4
  <2> HIDE DEF one, rest
  <2>2. (line \o one) \o rest = line \o (one \o rest)
    BY <2>1, ConcatAssociative
  <2> QED BY <2>2 DEF one, rest
<1> QED BY <1>1, <1>2, <1>3, <1>4, <1>5

\* A frame behind the second of two lines is behind both.
LEMMA JoinAppend ==
    ASSUME NEW p \in Seq(Frames), NEW q \in Seq(Frames), NEW f \in Frames
    PROVE  p \o Append(q, f) = Append(p \o q, f)
<1>1. <<f>> \in Seq(Frames) /\ p \o q \in Seq(Frames)
  BY ConcatProperties
<1>2. Append(q, f) = q \o <<f>> /\ Append(p \o q, f) = (p \o q) \o <<f>>
  BY <1>1, AppendIsConcat
<1> QED BY <1>1, <1>2, ConcatAssociative

\* QueueIrdaResponse puts the frame behind all answers, whether it goes into the slot or the
\* queue.
LEMMA AnswerQueued ==
    ASSUME NEW y \in Receivers, NEW f \in Frames, NEW line \in Seq(Frames)
    PROVE  /\ SameLink(y, QueueIrdaResponse(y, f))
           /\ line \o Answers(QueueIrdaResponse(y, f)) = Append(line \o Answers(y), f)
<1> DEFINE z == QueueIrdaResponse(y, f)
<1>1. Append(y.queue, f) \in Seq(Frames) /\ y.queue \in Seq(Frames)
  BY AppendProperties DEF Receivers
<1>2. SameLink(y, z) /\ z.slot = y.slot /\ z.queue = Append(y.queue, f) /\ z \in Receivers
  BY <1>1 DEF Receivers, SameLink, QueueIrdaResponse
<1> HIDE DEF z
<1>3. Answers(z) = Append(Answers(y), f)
  <2>1. CASE y.slot = None
    BY <1>2, <2>1, AnswersType
  <2>2. CASE y.slot # None
    <3>1. y.slot \in Frames
      BY <2>2, AnswersType
    <3> DEFINE one == <<y.slot>>
    <3>2. one \in Seq(Frames)
      BY <3>1
    <3>3. Answers(y) = one \o y.queue /\ Answers(z) = one \o z.queue
      BY <1>2, <2>2, AnswersType
    <3> HIDE DEF one
    <3>4. one \o Append(y.queue, f) = Append(one \o y.queue, f)
      BY <1>1, <3>2, JoinAppend
    <3> QED BY <1>2, <3>3, <3>4
  <2> QED BY <2>1, <2>2
<1> QED BY <1>2, <1>3, JoinAppend, AnswersType DEF z

\* The first of the line back is the first that was written to the port.
LEMMA JoinTail ==
    ASSUME NEW p \in Seq(Frames), NEW q \in Seq(Frames), p # <<>>
    PROVE  p \o q # <<>> /\ Head(p \o q) = Head(p) /\ Tail(p \o q) = Tail(p) \o q
           /\ p \o q \in Seq(Frames) /\ Tail(p) \in Seq(Frames)
<1>1. /\ p \o q \in Seq(Frames) /\ Len(p \o q) = Len(p) + Len(q)
      /\ \A i \in 1 .. Len(p) + Len(q) : (p \o q)[i] = IF i <= Len(p) THEN p[i] ELSE q[i - Len(p)]
  BY ConcatProperties
<1>2. Len(p) \in Nat \ {0} /\ Len(q) \in Nat
  OBVIOUS
<1>3. p \o q # <<>> /\ Head(p \o q) = Head(p)
  BY <1>1, <1>2
<1>4. /\ Tail(p) \in Seq(Frames) /\ Len(Tail(p)) = Len(p) - 1
      /\ \A i \in 1 .. Len(p) - 1 : Tail(p)[i] = p[i + 1]
  BY HeadTailProperties
<1>5. /\ Tail(p \o q) \in Seq(Frames) /\ Len(Tail(p \o q)) = Len(p) + Len(q) - 1
      /\ \A i \in 1 .. Len(p) + Len(q) - 1 : Tail(p \o q)[i] = (p \o q)[i + 1]
  BY <1>1, <1>2, <1>3, HeadTailProperties
<1>6. /\ Tail(p) \o q \in Seq(Frames) /\ Len(Tail(p) \o q) = Len(p) - 1 + Len(q)
      /\ \A i \in 1 .. Len(p) - 1 + Len(q) :
            (Tail(p) \o q)[i] = IF i <= Len(p) - 1 THEN Tail(p)[i] ELSE q[i - (Len(p) - 1)]
  BY <1>4, ConcatProperties
<1>7. ASSUME NEW i \in 1 .. Len(p) - 1 + Len(q)
      PROVE  Tail(p \o q)[i] = (Tail(p) \o q)[i]
  <2>1. i + 1 \in 1 .. Len(p) + Len(q) /\ i - (Len(p) - 1) = (i + 1) - Len(p)
    BY <1>2
  <2> QED BY <1>1, <1>2, <1>4, <1>5, <1>6, <2>1
<1>8. Tail(p \o q) = Tail(p) \o q
  BY <1>2, <1>5, <1>6, <1>7, SeqEqual
<1> QED BY <1>1, <1>3, <1>4, <1>8

----------------------------------------------------------------------------
(* What the calls of the sender leave behind *)

\* A message went out in a frame numbered with the next number.
Asks(x, t, m) ==
    /\ t \in Senders /\ t.file = x.file
    /\ t.receiveNext = x.receiveNext /\ t.transmitNext = NextSeq(x.transmitNext)
    /\ t.last = Frame("I", x.transmitNext, x.receiveNext, m)
    /\ t.serial = Append(x.serial, t.last)

\* The place in the transfer is the same.
SamePlace(x, t) ==
    /\ t.state = x.state /\ t.file = x.file /\ t.offset = x.offset
    /\ t.paced = x.paced /\ t.pending = x.pending /\ t.credits = x.credits
    /\ t.endSent = x.endSent

\* The place and the numbers are the same.
SameTurn(x, t) ==
    /\ t \in Senders /\ SamePlace(x, t)
    /\ t.receiveNext = x.receiveNext /\ t.transmitNext = x.transmitNext

\* The next number is a number.
LEMMA NextNat == \A n \in Nat : NextSeq(n) \in Nat /\ NextSeq(n) \in Numbers
  BY BeamAssumption DEF NextSeq, Numbers

\* SendIrdaBeamInformation numbers a message, keeps it to repeat and sends it.
LEMMA SendsInformation ==
    ASSUME NEW x \in Senders, NEW m \in Messages
    PROVE  /\ Asks(x, SendIrdaBeamInformation(x, m), m)
           /\ SamePlace(x, SendIrdaBeamInformation(x, m))
<1> DEFINE f == Frame("I", x.transmitNext, x.receiveNext, m)
<1>1. f \in Frames
  BY FrameType DEF Senders, FrameKinds
<1>2. Append(x.serial, f) \in Seq(Frames)
  BY <1>1 DEF Senders
<1>3. SendIrdaBeamInformation(x, m)
        = [x EXCEPT !.serial = Append(x.serial, f), !.last = f, !.retries = 0,
                    !.transmitNext = NextSeq(x.transmitNext)]
  <2> HIDE DEF f
  <2>1. SendIrdaBeamInformation(x, m)
          = [Write(x, f) EXCEPT !.last = f, !.retries = 0, !.transmitNext = NextSeq(@)]
    BY DEF SendIrdaBeamInformation, f
  <2> QED BY <2>1 DEF Write, Senders
<1>4. NextSeq(x.transmitNext) \in Nat
  BY NextNat DEF Senders
<1> HIDE DEF f
<1>5. SendIrdaBeamInformation(x, m) \in Senders
  <2>1. f \in Frames \union {None} /\ 0 \in Nat
    BY <1>1
  <2> QED BY <1>2, <1>3, <1>4, <2>1, Zenon DEF Senders
<1>6. /\ SendIrdaBeamInformation(x, m).last = f
      /\ SamePlace(x, SendIrdaBeamInformation(x, m))
      /\ SendIrdaBeamInformation(x, m).receiveNext = x.receiveNext
      /\ SendIrdaBeamInformation(x, m).transmitNext = NextSeq(x.transmitNext)
      /\ SendIrdaBeamInformation(x, m).serial = Append(x.serial, f)
  BY <1>3 DEF Senders, SamePlace
<1> QED BY <1>5, <1>6 DEF Asks, SamePlace, f

\* A sender that has ended is idle, with what is still on its line.
LEMMA ResetSender ==
    ASSUME NEW line \in Seq(Frames)
    PROVE  /\ SenderReset(line) \in Senders /\ SenderReset(line).serial = line
           /\ SenderReset(line).state = "Idle" /\ SenderReset(line).file = None
           /\ SenderReset(line).last = None /\ SenderReset(line).slot = 0
           /\ SenderReset(line).receiveNext = 0 /\ SenderReset(line).transmitNext = 0
           /\ SenderReset(line).pending = FALSE
           /\ SenderReset(line).endSent = FALSE /\ SenderReset(line).offset = 0
  BY DEF SenderReset, Senders, SendStates

\* Writing a frame changes the line only.
LEMMA WritesFrame ==
    ASSUME NEW x \in Senders, NEW f \in Frames
    PROVE  /\ SameTurn(x, Write(x, f)) /\ Write(x, f).last = x.last
           /\ Write(x, f).slot = x.slot
           /\ Write(x, f).serial = Append(x.serial, f) /\ Write(x, f).retries = x.retries
<1>1. Append(x.serial, f) \in Seq(Frames)
  BY DEF Senders
<1> QED BY <1>1 DEF Write, Senders, SameTurn, SamePlace

\* Slot 0 is never the one that is answered.
LEMMA SendsDiscovery ==
    ASSUME NEW x \in Senders
    PROVE  LET t == SendIrdaBeamDiscovery(x)
           IN  /\ SameTurn(x, t) /\ t.last = x.last
               /\ \E n \in Nat : /\ t.serial = Append(x.serial, Frame("Xid", n, 0, Message("none")))
                                 /\ x.slot = 0 => n = 0
<1> DEFINE n == IF x.slot > LastSlot THEN 0 ELSE x.slot
           f == Frame("Xid", n, 0, Message("none"))
<1>1. n \in Nat /\ (x.slot = 0 => n = 0)
  BY DEF Senders
<1>2. f \in Frames
  <2> HIDE DEF n
  <2> QED BY <1>1, FrameType, MessageType DEF FrameKinds, MessageKinds
<1>3. SendIrdaBeamDiscovery(x) = [Write(x, f) EXCEPT !.slot = n + 1]
  BY DEF SendIrdaBeamDiscovery
<1> HIDE DEF n, f
<1>4. SameTurn(x, Write(x, f)) /\ Write(x, f).last = x.last
      /\ Write(x, f).serial = Append(x.serial, f)
  BY <1>2, WritesFrame
<1>5. SameTurn(Write(x, f), SendIrdaBeamDiscovery(x))
      /\ SendIrdaBeamDiscovery(x).last = Write(x, f).last
      /\ SendIrdaBeamDiscovery(x).serial = Write(x, f).serial
  <2>1. Write(x, f) \in Senders
    BY <1>4 DEF SameTurn
  <2> HIDE DEF f
  <2>2. n + 1 \in Nat
    BY <1>1
  <2>3. SendIrdaBeamDiscovery(x) \in Senders
    BY <1>3, <2>1, <2>2, Zenon DEF Senders
  <2> QED BY <1>3, <2>1, <2>3 DEF Senders, SameTurn, SamePlace
<1>6. SameTurn(x, SendIrdaBeamDiscovery(x)) /\ SendIrdaBeamDiscovery(x).last = x.last
      /\ SendIrdaBeamDiscovery(x).serial = Append(x.serial, f)
  BY <1>4, <1>5 DEF SameTurn, SamePlace
<1> QED BY <1>1, <1>6 DEF f

\* A frame's number of the next one expected clears the frame kept to repeat, and only that.
LEMMA Acknowledges ==
    ASSUME NEW x \in Senders, NEW nr
    PROVE  /\ SameTurn(x, Acknowledged(x, nr)) /\ Acknowledged(x, nr).serial = x.serial
           /\ Acknowledged(x, nr).last \in {x.last, None}
           /\ x.last = None \/ nr = x.transmitNext => Acknowledged(x, nr).last = None
  BY DEF Acknowledged, Senders, SameTurn, SamePlace

\* A repeat writes the frame that was kept, if any, and changes nothing else.
LEMMA Retransmits ==
    ASSUME NEW x \in Senders
    PROVE  /\ SameTurn(x, RetransmitLast(x)) /\ RetransmitLast(x).last = x.last
           /\ \/ RetransmitLast(x).serial = x.serial
              \/ x.last # None /\ x.last \in Frames /\ RetransmitLast(x).serial = Append(x.serial, x.last)
<1>1. CASE CanRetransmit(x)
  <2>1. x.last \in Frames /\ x.last # None
    BY <1>1 DEF CanRetransmit, Senders
  <2>2. RetransmitLast(x) = [Write(x, x.last) EXCEPT !.retries = @ + 1]
    BY <1>1 DEF RetransmitLast
  <2>3. SameTurn(x, Write(x, x.last)) /\ Write(x, x.last).serial = Append(x.serial, x.last)
        /\ Write(x, x.last).last = x.last
    BY <2>1, WritesFrame
  <2> DEFINE w == Write(x, x.last)
  <2>4. w \in Senders
    BY <2>3 DEF SameTurn
  <2>5. SameTurn(w, RetransmitLast(x)) /\ RetransmitLast(x).serial = w.serial
        /\ RetransmitLast(x).last = w.last
    <3>1. RetransmitLast(x) = [w EXCEPT !.retries = @ + 1]
      BY <2>2
    <3> HIDE DEF w
    <3>2. w.retries + 1 \in Nat
      BY <2>4 DEF Senders
    <3>3. RetransmitLast(x) \in Senders
      BY <2>4, <3>1, <3>2, Zenon DEF Senders
    <3> QED BY <2>4, <3>1, <3>3 DEF Senders, SameTurn, SamePlace
  <2> QED BY <2>1, <2>3, <2>5 DEF SameTurn, SamePlace
<1>2. CASE ~CanRetransmit(x)
  BY <1>2 DEF RetransmitLast, SameTurn, SamePlace
<1> QED BY <1>1, <1>2

\* The retransmit timer repeats the frame that was kept, and stays where it is in the
\* transfer.
LEMMA TimesOut ==
    ASSUME NEW x \in Senders
    PROVE  LET t == Timeout(x)
           IN  /\ t \in Senders /\ t.state = x.state /\ t.file = x.file /\ t.offset = x.offset
               /\ t.pending = x.pending /\ t.credits = x.credits /\ t.endSent = x.endSent
               /\ t.receiveNext = x.receiveNext /\ t.transmitNext = x.transmitNext
               /\ t.last = x.last
               /\ t.paced = x.paced \/ x.state = "ObexPutBody"
               /\ \/ t.serial = x.serial
                  \/ x.last # None /\ x.last \in Frames /\ t.serial = Append(x.serial, x.last)
<1>1. CASE x.state = "ObexPutBody"
  <2> DEFINE b == BackoffIrdaBeamBodyTransfer(x)
  <2>1. x.chunk \in Nat /\ x.chunk \div 2 \in Nat
    BY DEF Senders
  <2>2. (IF x.chunk > 1 THEN x.chunk \div 2 ELSE x.chunk) \in Nat
    BY <2>1
  <2>3. b = [x EXCEPT !.chunk = IF x.chunk > 1 THEN x.chunk \div 2 ELSE x.chunk, !.paced = TRUE]
    BY DEF BackoffIrdaBeamBodyTransfer
  <2> HIDE DEF b
  <2>4. b \in Senders
    BY <2>2, <2>3, Zenon DEF Senders
  <2>5. /\ b.state = x.state /\ b.file = x.file /\ b.offset = x.offset
        /\ b.pending = x.pending /\ b.credits = x.credits /\ b.endSent = x.endSent
        /\ b.receiveNext = x.receiveNext /\ b.transmitNext = x.transmitNext
        /\ b.last = x.last /\ b.serial = x.serial
    BY <2>3 DEF Senders
  <2>6. Timeout(x) = RetransmitLast(b)
    BY <1>1 DEF Timeout, b
  <2> QED BY <1>1, <2>4, <2>5, <2>6, Retransmits DEF SameTurn, SamePlace
<1>2. CASE x.state # "ObexPutBody"
  <2>1. Timeout(x) = RetransmitLast(x)
    BY <1>2 DEF Timeout
  <2> QED BY <2>1, Retransmits DEF SameTurn, SamePlace
<1> QED BY <1>1, <1>2

\* An answer with a TinyTP header leaves the sender at least one credit.
LEMMA AddsCredit ==
    ASSUME NEW x \in Senders, NEW m \in Messages
    PROVE  LET t == AddIrdaBeamTinyTpCredit(x, m)
           IN  /\ t \in Senders /\ t.state = x.state /\ t.file = x.file /\ t.offset = x.offset
               /\ t.pending = x.pending /\ t.endSent = x.endSent /\ t.paced = x.paced
               /\ t.receiveNext = x.receiveNext /\ t.transmitNext = x.transmitNext
               /\ t.last = x.last /\ t.serial = x.serial /\ t.credits >= x.credits
               /\ m.obex /\ m.kind # "LmpConfirm" => t.credits > 0
<1>1. x.credits \in Nat /\ Grant \in Nat \ {0} /\ x.credits + Grant \in Nat
  BY BeamAssumption DEF Senders
<1>2. CASE m.obex /\ m.kind # "LmpConfirm"
  <2> DEFINE t == AddIrdaBeamTinyTpCredit(x, m)
  <2>1. t = [x EXCEPT !.credits = x.credits + Grant]
    BY <1>2 DEF AddIrdaBeamTinyTpCredit
  <2> HIDE DEF t
  <2>2. t \in Senders
    BY <1>1, <2>1, Zenon DEF Senders
  <2>3. /\ t.state = x.state /\ t.file = x.file /\ t.offset = x.offset
        /\ t.pending = x.pending /\ t.endSent = x.endSent /\ t.paced = x.paced
        /\ t.receiveNext = x.receiveNext /\ t.transmitNext = x.transmitNext
        /\ t.last = x.last /\ t.serial = x.serial /\ t.credits = x.credits + Grant
    BY <2>1 DEF Senders
  <2> QED BY <1>1, <2>2, <2>3 DEF t
<1>3. CASE ~(m.obex /\ m.kind # "LmpConfirm")
  BY <1>1, <1>3 DEF AddIrdaBeamTinyTpCredit
<1> QED BY <1>2, <1>3

\* What an empty or unfinished body leaves to send, with a credit for it: a chunk, the
\* empty end of a memo, or the end of the connection.
AfterChunk(x, t) ==
    \E m \in Messages :
        /\ Asks(x, t, m) /\ ~t.pending
        /\ \/ /\ t.state = "ObexPutBody" /\ t.offset \in 0 .. Units[x.file]
              /\ x.offset < Units[x.file] /\ t.endSent = x.endSent
              /\ m = Put(m.units, t.offset = Units[x.file])
              /\ Begun(x) \o m.units = Begun(t)
           \/ /\ t.state = "ObexPutBody" /\ t.offset = x.offset
              /\ x.offset = Units[x.file] /\ x.file \in TextFiles
              /\ m = Put(<<>>, TRUE)
           \/ /\ t.state = "ObexDisconnect" /\ t.offset = x.offset
              /\ x.offset = Units[x.file] /\ (x.file \notin TextFiles \/ x.endSent)
              /\ m = ToObex("ObexDisconnect")

\* A chunk of the body takes a credit and moves the offset by what it holds.
LEMMA SendsChunk ==
    ASSUME NEW x \in Senders, x.file \in Files, x.credits > 0, x.state = "ObexPutBody",
           x.offset \in 0 .. Units[x.file], x.offset < Units[x.file]
    PROVE  AfterChunk(x, SendChunk(x))
<1> DEFINE end == IF x.offset + x.chunk < Units[x.file] THEN x.offset + x.chunk
                  ELSE Units[x.file]
           u == UnitsOf(x.file)
           units == SubSeq(u, x.offset + 1, end)
           m == Put(units, end = Units[x.file])
           z == [x EXCEPT !.credits = x.credits - 1, !.pending = FALSE, !.due = FALSE,
                          !.offset = end]
           t == SendIrdaBeamInformation(z, m)
<1>1. Units[x.file] \in Nat /\ x.offset \in Nat /\ x.chunk \in Nat /\ x.credits \in Nat
  BY UnitsType DEF Senders
<1>2. end \in Nat /\ end \in x.offset .. Units[x.file]
  BY <1>1
<1>3. u \in Seq(Parts) /\ Len(u) = Units[x.file]
  BY UnitsType
<1>4. SendChunk(x) = t
  <2>1. x.credits # 0
    BY <1>1
  <2> QED BY <2>1 DEF SendChunk
<1> HIDE DEF end, u
<1>5. units \in Seq(Parts)
  BY <1>1, <1>2, <1>3
<1>6. m \in Messages /\ m = Put(m.units, end = Units[x.file]) /\ m.units = units
  <2>1. (end = Units[x.file]) \in BOOLEAN
    OBVIOUS
  <2> HIDE DEF units
  <2> QED BY <1>5, <2>1, PutType
<1>7. z \in Senders
  <2>1. x.credits - 1 \in Nat /\ FALSE \in BOOLEAN
    BY <1>1
  <2> QED BY <1>2, <2>1, Zenon DEF Senders
<1>8. /\ z.state = x.state /\ z.file = x.file /\ z.offset = end /\ z.endSent = x.endSent
      /\ z.receiveNext = x.receiveNext /\ z.transmitNext = x.transmitNext
      /\ z.serial = x.serial /\ z.pending = FALSE
  BY DEF Senders
<1> HIDE DEF z, m, units
<1>9. Asks(z, t, m) /\ SamePlace(z, t)
  BY <1>6, <1>7, SendsInformation
<1>10. Asks(x, t, m) /\ ~t.pending /\ t.state = "ObexPutBody" /\ t.offset = end
       /\ t.endSent = x.endSent /\ t.file = x.file
  BY <1>8, <1>9 DEF Asks, SamePlace
<1>11. SubSeq(u, 1, x.offset) \o SubSeq(u, x.offset + 1, end) = SubSeq(u, 1, end)
  <2>1. 1 \in 1 .. Len(u) + 1 /\ x.offset \in 1 - 1 .. Len(u) /\ end \in x.offset .. Len(u)
    BY <1>1, <1>2, <1>3
  <2> QED BY <1>3, <2>1, ConcatAdjacentSubSeq
<1>12. Begun(x) \o m.units = Begun(t)
  BY <1>6, <1>10, <1>11 DEF Begun, u, units
<1>13. t.offset \in 0 .. Units[x.file]
  BY <1>1, <1>2, <1>10
<1>14. m = Put(m.units, t.offset = Units[x.file])
  BY <1>6, <1>10
<1> QED BY <1>4, <1>6, <1>10, <1>12, <1>13, <1>14 DEF AfterChunk

\* Behind the body goes its end, or the OBEX disconnect.
LEMMA SendsAfterBody ==
    ASSUME NEW x \in Senders, x.file \in Files, x.credits > 0, x.state = "ObexPutBody",
           x.offset = Units[x.file], ~x.pending
    PROVE  AfterChunk(x, SendAfterBody(x))
<1>1. x.credits \in Nat
  BY DEF Senders
<1>2. CASE x.file \notin TextFiles \/ x.endSent
  <2> DEFINE z == [x EXCEPT !.state = "ObexDisconnect"]
             m == ToObex("ObexDisconnect")
             t == SendIrdaBeamInformation(z, m)
  <2>1. SendAfterBody(x) = t
    BY <1>2 DEF SendAfterBody
  <2>2. "ObexDisconnect" \in SendStates
    BY DEF SendStates
  <2>3. z \in Senders
    BY <2>2, Zenon DEF Senders
  <2>4. /\ z.state = "ObexDisconnect" /\ z.file = x.file /\ z.offset = x.offset
        /\ z.receiveNext = x.receiveNext /\ z.transmitNext = x.transmitNext
        /\ z.serial = x.serial /\ z.pending = x.pending
    BY DEF Senders
  <2>5. m \in Messages
    BY MessageType DEF MessageKinds
  <2> HIDE DEF z, m
  <2>6. Asks(z, t, m) /\ SamePlace(z, t)
    BY <2>3, <2>5, SendsInformation
  <2>7. Asks(x, t, m) /\ ~t.pending /\ t.state = "ObexDisconnect" /\ t.offset = x.offset
    BY <2>4, <2>6 DEF Asks, SamePlace
  <2> QED BY <1>2, <2>1, <2>5, <2>7 DEF AfterChunk, m
<1>3. CASE ~(x.file \notin TextFiles \/ x.endSent)
  <2> DEFINE z == [x EXCEPT !.credits = x.credits - 1, !.pending = FALSE, !.due = FALSE,
                            !.endSent = TRUE]
             m == Put(<<>>, TRUE)
             t == SendIrdaBeamInformation(z, m)
  <2>1. SendAfterBody(x) = t
    <3>1. x.credits # 0
      BY <1>1
    <3> QED BY <1>3, <3>1 DEF SendAfterBody
  <2>2. x.credits - 1 \in Nat /\ FALSE \in BOOLEAN /\ TRUE \in BOOLEAN
    BY <1>1
  <2>3. z \in Senders
    BY <2>2, Zenon DEF Senders
  <2>4. /\ z.state = x.state /\ z.file = x.file /\ z.offset = x.offset
        /\ z.receiveNext = x.receiveNext /\ z.transmitNext = x.transmitNext
        /\ z.serial = x.serial /\ z.pending = FALSE
    BY DEF Senders
  <2>5. m \in Messages
    <3>1. <<>> \in Seq(Parts) /\ TRUE \in BOOLEAN
      OBVIOUS
    <3> QED BY <3>1, PutType
  <2> HIDE DEF z, m
  <2>6. Asks(z, t, m) /\ SamePlace(z, t)
    BY <2>3, <2>5, SendsInformation
  <2>7. Asks(x, t, m) /\ ~t.pending /\ t.state = "ObexPutBody" /\ t.offset = x.offset
    BY <2>4, <2>6 DEF Asks, SamePlace
  <2> QED BY <1>3, <2>1, <2>5, <2>7 DEF AfterChunk, m
<1> QED BY <1>2, <1>3

\* With a credit, the next chunk is sent, or waits for the frame before or for its time.
LEMMA NextChunk ==
    ASSUME NEW x \in Senders, x.file \in Files, x.credits > 0, x.state = "ObexPutBody",
           x.offset \in 0 .. Units[x.file], x.pending => x.offset < Units[x.file]
    PROVE  LET t == SendIrdaBeamNextBodyChunk(x)
           IN  \/ /\ t \in Senders /\ t.state = x.state /\ t.file = x.file
                  /\ t.offset = x.offset /\ t.endSent = x.endSent /\ t.credits = x.credits
                  /\ t.receiveNext = x.receiveNext /\ t.transmitNext = x.transmitNext
                  /\ t.last = x.last /\ t.serial = x.serial
                  /\ t.paced = x.paced
                  /\ t.pending # x.pending => x.last = None /\ x.paced
                  /\ x.pending => t.pending
                  /\ x.last # None \/ x.paced
               \/ x.last = None /\ AfterChunk(x, t)
<1> DEFINE t == SendIrdaBeamNextBodyChunk(x)
<1>1. CASE x.last # None
  <2>1. t = x
    BY <1>1 DEF SendIrdaBeamNextBodyChunk
  <2> QED BY <1>1, <2>1
<1>2. CASE x.last = None /\ x.paced /\ ~x.due
  <2>1. t = [x EXCEPT !.due = TRUE, !.pending = TRUE]
    BY <1>2 DEF SendIrdaBeamNextBodyChunk
  <2>2. TRUE \in BOOLEAN
    OBVIOUS
  <2> HIDE DEF t
  <2>3. t \in Senders
    BY <2>1, <2>2, Zenon DEF Senders
  <2>4. /\ t.state = x.state /\ t.file = x.file
        /\ t.offset = x.offset /\ t.endSent = x.endSent /\ t.credits = x.credits
        /\ t.receiveNext = x.receiveNext /\ t.transmitNext = x.transmitNext
        /\ t.last = x.last /\ t.serial = x.serial /\ t.paced = x.paced
        /\ t.pending = TRUE
    BY <2>1 DEF Senders
  <2> QED BY <1>2, <2>3, <2>4 DEF t
<1>3. CASE x.last = None /\ ~(x.paced /\ ~x.due)
  <2> DEFINE z == [x EXCEPT !.due = FALSE]
  <2>1. FALSE \in BOOLEAN
    OBVIOUS
  <2>2. z \in Senders
    BY <2>1, Zenon DEF Senders
  <2>3. /\ z.state = x.state /\ z.file = x.file /\ z.credits = x.credits
        /\ z.offset = x.offset /\ z.endSent = x.endSent /\ z.pending = x.pending
        /\ z.receiveNext = x.receiveNext /\ z.transmitNext = x.transmitNext
        /\ z.serial = x.serial
    BY DEF Senders
  <2>4. t = IF x.offset >= Units[x.file] THEN SendAfterBody(z) ELSE SendChunk(z)
    <3>1. t = IF z.offset >= Units[z.file] THEN SendAfterBody(z) ELSE SendChunk(z)
      BY <1>3, <2>3 DEF SendIrdaBeamNextBodyChunk
    <3> QED BY <2>3, <3>1
  <2> HIDE DEF z, t
  <2>5. Units[x.file] \in Nat /\ x.offset \in Nat
    BY UnitsType DEF Senders
  <2>6. AfterChunk(z, t)
    <3>1. CASE x.offset >= Units[x.file]
      <4>1. x.offset = Units[x.file] /\ ~x.pending
        BY <2>5, <3>1
      <4> QED BY <2>2, <2>3, <2>4, <3>1, <4>1, SendsAfterBody
    <3>2. CASE ~(x.offset >= Units[x.file])
      <4>1. x.offset < Units[x.file]
        BY <2>5, <3>2
      <4> QED BY <2>2, <2>3, <2>4, <3>2, <4>1, SendsChunk
    <3> QED BY <3>1, <3>2
  <2>7. AfterChunk(x, t)
    BY <2>3, <2>6 DEF AfterChunk, Asks, Begun
  <2> QED BY <1>3, <2>7 DEF t
<1> QED BY <1>1, <1>2, <1>3

----------------------------------------------------------------------------
(* The link in step *)

\* A request that is sent when all is quiet but for repeats is what the link waits for.
LEMMA RequestSent ==
    ASSUME NEW x \in Senders, NEW t \in Senders, NEW y \in Receivers, NEW back \in Seq(Frames),
           NEW m \in Messages, InNumbers(t, y),
           y.connected, y.transmitNext = y.receiveNext,
           t.receiveNext = y.receiveNext, t.transmitNext = NextSeq(y.receiveNext),
           t.last = Frame("I", y.receiveNext, y.receiveNext, m),
           t.serial = Append(x.serial, t.last),
           On(x.serial) \subseteq Kind({"Xid", "I", "RR"}) \ AnswerXids,
           InStep(x.serial, y.receiveNext), On(x.serial) \intersect Info(y.receiveNext) = {},
           On(back) \subseteq Kind({"I"}), InStep(back, y.receiveNext),
           On(back) \intersect Info(y.receiveNext) = {},
           y.last # None => y.last.ns \in Numbers /\ NextSeq(y.last.ns) = y.transmitNext,
           y.last = None =>
               /\ back = <<>>
               /\ On(x.serial) \intersect (Kind({"RR"}) \union Before(y.receiveNext)) = {},
           t.state \in LinkStates, Asked(t, y, m), ~t.pending, SenderPlace(t)
    PROVE  InLink(t, y, back)
<1> DEFINE n == y.receiveNext
           g == Frame("I", n, n, m)
<1>1. n \in Numbers /\ n \in Nat /\ NextSeq(n) # n /\ NextSeq(n) \in Numbers
  BY NextNumber DEF InNumbers, Numbers
<1>2. g \in Frames /\ g.kind = "I" /\ g.ns = n /\ g.nr = n /\ g.data = m /\ g # None
  BY <1>1, FrameType, NoneAssumption DEF FrameKinds
<1>3. t.last = g /\ x.serial \in Seq(Frames) /\ t.serial = Append(x.serial, g)
  BY DEF Senders
<1> HIDE DEF g
<1>4. On(t.serial) = On(x.serial) \union {g} /\ t.serial \in Seq(Frames)
  BY <1>2, <1>3, OnAppend
<1>5. g \in Info(n) /\ g \in Kind({"Xid", "I", "RR"}) \ AnswerXids /\ g \notin Kind({"RR"})
  BY <1>2 DEF Info, Kind, AnswerXids
<1>6. InStep(t.serial, n)
  BY <1>1, <1>2, <1>3, <1>5, InStepAppend
<1>7. Asking(t, y) /\ ~Answering(t, y) /\ ~Pausing(t, y)
  BY <1>1 DEF Asking, Answering, Pausing
<1>8. g \in Before(t.transmitNext) /\ g \notin Before(n)
  BY <1>1, <1>2 DEF Before
<1>9. RequestsInStep(t, y)
  BY <1>2, <1>4, <1>6 DEF RequestsInStep
<1>10. \A f \in On(t.serial) \intersect Info(n) : f = g
  BY <1>4
<1>11. SenderInLink(t, y)
  BY <1>2, <1>3, <1>4, <1>5, <1>7, <1>8, <1>9, <1>10 DEF SenderInLink
<1>12. AnswersInStep(t, y, back)
  BY DEF AnswersInStep
<1>13. ReceiverInLink(t, y, back)
  BY <1>4, <1>5, <1>7, <1>8, <1>12 DEF ReceiverInLink
<1> QED BY <1>7, <1>11, <1>13 DEF InLink

\* In a link exactly one side has the turn.
LEMMA OneTurn ==
    ASSUME NEW x \in Senders, NEW y \in Receivers, InNumbers(x, y)
    PROVE  /\ Asking(x, y) => ~Answering(x, y) /\ ~Pausing(x, y)
           /\ Answering(x, y) => ~Pausing(x, y)
  BY NextNumber DEF InNumbers, Asking, Answering, Pausing

\* A state of the link, once the turn is not with the sender's request, has none on the way.
LEMMA NoRequest ==
    ASSUME NEW x, NEW y, SenderInLink(x, y), ~Asking(x, y)
    PROVE  On(x.serial) \intersect Info(y.receiveNext) = {}
  BY DEF SenderInLink

\* After the answer that is waited for has come the numbers of the link are the next ones.
LEMMA AnswerTaken ==
    ASSUME NEW x \in Senders, NEW y \in Receivers, NEW back \in Seq(Frames), back # <<>>,
           InNumbers(x, y), InLink(x, y, back), Head(back) \in Info(x.receiveNext)
    PROVE  /\ Answering(x, y) /\ Answered(x, y, Head(back).data) /\ y.last # None
           /\ Head(back).nr = x.transmitNext
           /\ ~x.pending /\ Tail(back) \in Seq(Frames)
           /\ y.receiveNext = NextSeq(x.receiveNext) /\ x.transmitNext = y.receiveNext
           /\ On(x.serial) \intersect Info(y.receiveNext) = {}
           /\ On(Tail(back)) \subseteq Kind({"I"}) /\ InStep(Tail(back), y.receiveNext)
           /\ On(Tail(back)) \intersect Info(y.receiveNext) = {}
<1>1. Head(back) \in On(back) /\ On(Tail(back)) \subseteq On(back) /\ Tail(back) \in Seq(Frames)
  BY OnTail
<1>2. Answering(x, y) /\ Answered(x, y, Head(back).data) /\ Head(back).nr = y.receiveNext
  BY <1>1 DEF InLink, ReceiverInLink, AnswersInStep
<1>3. ~Asking(x, y) /\ ~Pausing(x, y)
  BY <1>2, OneTurn
<1>4. y.receiveNext = NextSeq(x.receiveNext) /\ x.transmitNext = y.receiveNext
  BY <1>2 DEF Answering
<1>5. InStep(Tail(back), y.receiveNext) /\ On(Tail(back)) \intersect Info(y.receiveNext) = {}
  BY <1>4, InStepNext DEF InLink, ReceiverInLink, AnswersInStep, InNumbers
<1>6. y.last # None /\ ~x.pending
  BY <1>3 DEF InLink, ReceiverInLink, SenderInLink
<1>7. On(x.serial) \intersect Info(y.receiveNext) = {}
  BY <1>3, NoRequest DEF InLink
<1> QED BY <1>1, <1>2, <1>4, <1>5, <1>6, <1>7 DEF InLink, ReceiverInLink, AnswersInStep

\* A request that sets up or describes the transfer is numbered, kept and sent.
LEMMA SendsRequest ==
    ASSUME NEW x \in Senders, NEW st \in LinkStates, NEW m \in Messages
    PROVE  LET t == Request(x, st, m)
           IN  /\ Asks(x, t, m) /\ t.state = st /\ t.offset = x.offset /\ t.paced = x.paced
               /\ t.endSent = x.endSent /\ t.pending = x.pending
<1> DEFINE z == [x EXCEPT !.state = st]
           t == SendIrdaBeamInformation(z, m)
<1>1. Request(x, st, m) = t
  BY DEF Request
<1>2. st \in SendStates
  BY DEF LinkStates, SendStates
<1>3. z \in Senders
  BY <1>2, Zenon DEF Senders
<1>4. /\ z.state = st /\ z.offset = x.offset /\ z.paced = x.paced /\ z.file = x.file
      /\ z.endSent = x.endSent /\ z.pending = x.pending /\ z.serial = x.serial
      /\ z.receiveNext = x.receiveNext /\ z.transmitNext = x.transmitNext
  BY DEF Senders
<1> HIDE DEF z
<1>5. Asks(z, t, m) /\ SamePlace(z, t)
  BY <1>3, SendsInformation
<1> QED BY <1>1, <1>4, <1>5 DEF Asks, SamePlace

\* The sender as it is when it looks at the message of an answer.
Heard(x, c) ==
    /\ c \in Senders /\ c.state = x.state /\ c.file = x.file /\ c.offset = x.offset
    /\ c.pending = x.pending /\ c.endSent = x.endSent /\ c.paced = x.paced
    /\ c.receiveNext = NextSeq(x.receiveNext) /\ c.transmitNext = x.transmitNext
    /\ c.last \in {x.last, None} /\ c.serial = x.serial

\* An answer with the number that is waited for is acknowledged, credited and then looked
\* at.
LEMMA HearsMessage ==
    ASSUME NEW x \in Senders, NEW f \in Frames, f.kind = "I", f.ns = x.receiveNext,
           x.state \notin {"Idle"}
    PROVE  \E a \in Senders :
               LET c == AddIrdaBeamTinyTpCredit(a, f.data)
               IN  /\ HandleIrdaBeamSenderFrame(x, f) = HandleIrdaBeamSenderPayload(a, f.data)
                   /\ Heard(x, c) /\ (x.last = None \/ f.nr = x.transmitNext => c.last = None)
                   /\ f.data.obex /\ f.data.kind # "LmpConfirm" => c.credits > 0
<1> DEFINE b == Acknowledged(x, f.nr)
           a == [b EXCEPT !.receiveNext = NextSeq(b.receiveNext)]
           c == AddIrdaBeamTinyTpCredit(a, f.data)
<1>1. SameTurn(x, b) /\ b.serial = x.serial /\ b.last \in {x.last, None}
      /\ (x.last = None \/ f.nr = x.transmitNext => b.last = None)
  BY Acknowledges
<1>2. HandleIrdaBeamSenderFrame(x, f) = HandleIrdaBeamSenderPayload(a, f.data)
  <2>1. HandleIrdaBeamSenderFrame(x, f) = HandleInformation(x, f)
    BY DEF HandleIrdaBeamSenderFrame
  <2>2. HandleInformation(x, f) = HandleIrdaBeamSenderPayload(a, f.data)
    BY DEF HandleInformation
  <2> QED BY <2>1, <2>2
<1> HIDE DEF b
<1>3. b \in Senders /\ NextSeq(b.receiveNext) \in Nat
  BY <1>1, NextNat DEF SameTurn, Senders
<1>4. a \in Senders
  BY <1>3, Zenon DEF Senders
<1>5. /\ a.state = b.state /\ a.file = b.file /\ a.offset = b.offset
      /\ a.pending = b.pending /\ a.endSent = b.endSent /\ a.paced = b.paced
      /\ a.receiveNext = NextSeq(b.receiveNext) /\ a.transmitNext = b.transmitNext
      /\ a.last = b.last /\ a.serial = b.serial
  BY <1>3 DEF Senders
<1>6. f.data \in Messages
  BY DEF Frames
<1> HIDE DEF a
<1>7. Heard(x, c) /\ (x.last = None \/ f.nr = x.transmitNext => c.last = None)
  BY <1>1, <1>4, <1>5, <1>6, AddsCredit DEF SameTurn, SamePlace, Heard
<1>8. f.data.obex /\ f.data.kind # "LmpConfirm" => c.credits > 0
  BY <1>4, <1>6, AddsCredit
<1> QED BY <1>2, <1>4, <1>7, <1>8

\* What the sender asks next keeps the link in step.
LEMMA AsksNext ==
    ASSUME NEW x \in Senders, NEW y \in Receivers, NEW back \in Seq(Frames), back # <<>>,
           InNumbers(x, y), InLink(x, y, back), Head(back) \in Info(x.receiveNext),
           NEW c, Heard(x, c), NEW t, NEW m \in Messages, Asks(c, t, m),
           t.state \in LinkStates, Asked(t, y, m), ~t.pending, SenderPlace(t)
    PROVE  InLink(t, y, Tail(back))
<1>1. /\ y.last # None /\ Tail(back) \in Seq(Frames)
      /\ y.receiveNext = NextSeq(x.receiveNext) /\ x.transmitNext = y.receiveNext
      /\ On(x.serial) \intersect Info(y.receiveNext) = {}
      /\ On(Tail(back)) \subseteq Kind({"I"}) /\ InStep(Tail(back), y.receiveNext)
      /\ On(Tail(back)) \intersect Info(y.receiveNext) = {}
  BY AnswerTaken
<1>2. /\ y.connected /\ y.transmitNext = y.receiveNext
      /\ y.last # None => y.last.ns \in Numbers /\ NextSeq(y.last.ns) = y.transmitNext
      /\ On(x.serial) \subseteq Kind({"Xid", "I", "RR"}) \ AnswerXids
      /\ InStep(x.serial, y.receiveNext)
  BY DEF InLink, ReceiverInLink, SenderInLink, RequestsInStep
<1>3. /\ t \in Senders /\ t.receiveNext = y.receiveNext
      /\ t.transmitNext = NextSeq(y.receiveNext)
      /\ t.last = Frame("I", y.receiveNext, y.receiveNext, m)
      /\ t.serial = Append(x.serial, t.last)
  BY <1>1 DEF Heard, Asks
<1>4. InNumbers(t, y)
  BY <1>3, NextNumber DEF InNumbers
<1> QED BY <1>1, <1>2, <1>3, <1>4, RequestSent

\* What may become of the sender when it hears the answer that it waits for: it asks the
\* next, waits to send the next chunk, or ends the link.
GoesOn(x, y, t, back) ==
    /\ t.state \in LinkStates /\ t.file = x.file /\ InLink(t, y, back)
    /\ HasSaved(x, y) => HasSaved(t, y)
    /\ HasSaved(t, y) => HasSaved(x, y) \/ x.file \in EmptyFiles
    /\ \/ t.serial = Append(x.serial, t.last) /\ t.last \in Info(y.receiveNext) /\ ~t.pending
       \/ t.serial = x.serial /\ Pausing(t, y)

Ends(x, y, t, back) ==
    /\ x.state = "ObexDisconnect" /\ t.state = "Idle" /\ t.file = None
    /\ t.last = None /\ ~t.pending /\ t.receiveNext = 0 /\ t.transmitNext = 0
    /\ ~t.endSent /\ t.offset = 0
    /\ t.serial = Append(x.serial, Control("Disc"))
    /\ \A n : Leftover(t, y, back, n)

\* A request other than that of the body.
LEMMA AsksOther ==
    ASSUME NEW x \in Senders, NEW y \in Receivers, NEW back \in Seq(Frames), back # <<>>,
           InNumbers(x, y), InLink(x, y, back), Head(back) \in Info(x.receiveNext),
           NEW c, Heard(x, c), NEW st \in LinkStates \ {"ObexPutBody"}, NEW m \in Messages,
           x.state \notin {"ObexPutBody", "ObexDisconnect"} \/ st = "ObexDisconnect",
           HasSaved(x, y) \/ st # "ObexDisconnect" \/ x.file \in EmptyFiles,
           x.state # "ObexDisconnect",
           \A t : t.state = st => Asked(t, y, m)
    PROVE  Request(c, st, m) \in Senders /\ GoesOn(x, y, Request(c, st, m), Tail(back))
<1> DEFINE t == Request(c, st, m)
<1>1. ~x.pending /\ y.receiveNext = x.transmitNext /\ Answering(x, y)
  BY AnswerTaken
<1>2. /\ Asks(c, t, m) /\ t.state = st /\ t.offset = x.offset /\ t.paced = x.paced
      /\ t.endSent = x.endSent /\ ~t.pending /\ t.file = x.file
  BY <1>1, SendsRequest DEF Heard, Asks
<1> HIDE DEF t
<1>3. SenderPlace(t)
  BY <1>2 DEF InLink, SenderInLink, SenderPlace
<1>4. t.state \in LinkStates /\ Asked(t, y, m)
  BY <1>2
<1>5. InLink(t, y, Tail(back))
  BY <1>2, <1>3, <1>4, AsksNext
<1>6. x.transmitNext \in Nat /\ x.receiveNext \in Nat /\ c.receiveNext \in Nat
  BY DEF Senders, Heard
<1>7. t.last = Frame("I", y.receiveNext, c.receiveNext, m) /\ t.serial = Append(x.serial, t.last)
  BY <1>1, <1>2 DEF Asks, Heard
<1>8. t.last \in Info(y.receiveNext)
  BY <1>1, <1>6, <1>7, FrameType DEF Info, FrameKinds
<1>9. HasSaved(x, y) => st = "ObexDisconnect"
  BY DEF HasSaved
<1> QED BY <1>2, <1>4, <1>5, <1>7, <1>8, <1>9 DEF GoesOn, HasSaved, Asks, t

\* The chunk after the first, the first, or what there is instead of it.
LEMMA AsksChunk ==
    ASSUME NEW x \in Senders, NEW y \in Receivers, NEW back \in Seq(Frames), back # <<>>,
           InNumbers(x, y), InLink(x, y, back), Head(back) \in Info(x.receiveNext),
           x.file \in Files, NEW c, NEW t, AfterChunk(c, t),
           c.receiveNext = NextSeq(x.receiveNext), c.transmitNext = x.transmitNext,
           c.serial = x.serial, c.file = x.file, c.offset = x.offset, c.endSent = x.endSent,
           \/ x.state = "ObexPutMeta" /\ y.body = <<>>
           \/ x.state = "ObexPutBody" /\ x.offset < Units[x.file] /\ y.body = Begun(x)
    PROVE  t \in Senders /\ GoesOn(x, y, t, Tail(back))
<1> DEFINE n == Units[x.file]
<1>1. PICK m \in Messages :
          /\ Asks(c, t, m) /\ ~t.pending
          /\ \/ /\ t.state = "ObexPutBody" /\ t.offset \in 0 .. n
                /\ x.offset < n /\ t.endSent = x.endSent
                /\ m = Put(m.units, t.offset = n) /\ Begun(c) \o m.units = Begun(t)
             \/ /\ t.state = "ObexPutBody" /\ t.offset = x.offset
                /\ x.offset = n /\ x.file \in TextFiles /\ m = Put(<<>>, TRUE)
             \/ /\ t.state = "ObexDisconnect" /\ t.offset = x.offset
                /\ x.offset = n /\ (x.file \notin TextFiles \/ x.endSent)
                /\ m = ToObex("ObexDisconnect")
  BY DEF AfterChunk
<1>2. n \in Nat /\ x.offset \in Nat /\ y.receiveNext = x.transmitNext
      /\ y.receiveNext = NextSeq(x.receiveNext) /\ y.receiveNext \in Nat
  BY UnitsType, AnswerTaken DEF Senders, Receivers
<1>3. /\ t \in Senders /\ t.file = x.file /\ t.receiveNext = y.receiveNext
      /\ t.transmitNext = NextSeq(y.receiveNext)
      /\ t.last = Frame("I", y.receiveNext, y.receiveNext, m)
      /\ t.serial = Append(x.serial, t.last)
  BY <1>1, <1>2 DEF Asks
<1>4. y.body = Begun(c) /\ Begun(c) = Begun(x) /\ y.body \in Seq(Parts)
  <2>1. Begun(c) = Begun(x)
    BY DEF Begun
  <2>2. CASE x.state = "ObexPutMeta"
    <3>1. x.offset = 0 /\ y.body = <<>>
      BY <2>2 DEF InLink, SenderInLink, SenderPlace
    <3>2. UnitsOf(x.file) \in Seq(Parts)
      BY UnitsType
    <3>3. SubSeq(UnitsOf(x.file), 1, 0) = <<>>
      BY <3>2
    <3> QED BY <2>1, <3>1, <3>3 DEF Begun, Receivers
  <2>3. CASE x.state # "ObexPutMeta"
    BY <2>1, <2>3 DEF Receivers
  <2> QED BY <2>2, <2>3
<1>5. t.state \in LinkStates /\ Asked(t, y, m) /\ SenderPlace(t)
  <2>1. CASE t.state = "ObexPutBody" /\ x.offset < n
    <3>0. x.offset # n
      BY <1>2, <2>1
    <3>1. /\ t.offset \in 0 .. n /\ m = Put(m.units, t.offset = n) /\ y.body \o m.units = Begun(t)
      BY <1>1, <1>4, <2>1, <3>0, Zenon
    <3>2. n > 0
      BY <1>2, <2>1
    <3> QED BY <1>3, <2>1, <3>1, <3>2 DEF Asked, SenderPlace, LinkStates
  <2>2. CASE t.state = "ObexPutBody" /\ ~(x.offset < n)
    <3>0. t.offset = x.offset /\ x.offset = n /\ x.file \in TextFiles /\ m = Put(<<>>, TRUE)
      BY <1>1, <2>2, Zenon
    <3>1. t.offset = x.offset /\ x.offset = n /\ x.file \in TextFiles /\ m = Put(<<>>, TRUE)
          /\ t.offset \in 0 .. n
      BY <1>2, <3>0
    <3>2. <<>> \in Seq(Parts) /\ TRUE \in BOOLEAN
      OBVIOUS
    <3>3. m.units = <<>> /\ (t.offset = n) = TRUE
      BY <3>1, <3>2, PutType
    <3>4. m = Put(m.units, t.offset = n)
      BY <3>1, <3>3
    <3>5. Begun(t) = Begun(x)
      BY <1>3, <3>1 DEF Begun
    <3>6. y.body \o <<>> = y.body
      BY <1>4, ConcatEmptySeq
    <3> QED BY <1>3, <1>4, <2>2, <3>1, <3>3, <3>4, <3>5, <3>6 DEF Asked, SenderPlace, LinkStates
  <2>3. CASE t.state = "ObexDisconnect"
    <3>1. m = ToObex("ObexDisconnect")
      BY <1>1, <2>3
    <3> QED BY <2>3, <3>1 DEF Asked, SenderPlace, LinkStates
  <2> QED BY <1>1, <2>1, <2>2, <2>3
<1>6. InLink(t, y, Tail(back))
  <2>1. /\ y.last # None /\ Tail(back) \in Seq(Frames)
        /\ On(x.serial) \intersect Info(y.receiveNext) = {}
        /\ On(Tail(back)) \subseteq Kind({"I"}) /\ InStep(Tail(back), y.receiveNext)
        /\ On(Tail(back)) \intersect Info(y.receiveNext) = {}
    BY AnswerTaken
  <2>2. /\ y.connected /\ y.transmitNext = y.receiveNext
        /\ y.last # None => y.last.ns \in Numbers /\ NextSeq(y.last.ns) = y.transmitNext
        /\ On(x.serial) \subseteq Kind({"Xid", "I", "RR"}) \ AnswerXids
        /\ InStep(x.serial, y.receiveNext)
    BY DEF InLink, ReceiverInLink, SenderInLink, RequestsInStep
  <2>3. InNumbers(t, y)
    BY <1>3, NextNumber DEF InNumbers
  <2> QED BY <1>1, <1>3, <1>5, <2>1, <2>2, <2>3, RequestSent
<1>7. t.last \in Info(y.receiveNext)
  BY <1>2, <1>3, FrameType DEF Info, FrameKinds
<1>8. Asking(t, y) /\ ~Answering(t, y)
  BY <1>2, <1>3, NextNumber DEF Asking, Answering, InNumbers
<1>9. ~HasSaved(x, y)
  BY <1>2 DEF HasSaved
<1>10. HasSaved(t, y) => x.file \in EmptyFiles
  <2>1. ASSUME HasSaved(t, y) PROVE x.offset = n /\ (x.file \notin TextFiles \/ x.endSent)
    BY <1>1, <1>8, <2>1 DEF HasSaved
  <2>2. ASSUME x.offset = n PROVE x.offset = 0 /\ ~x.endSent
    BY <1>2, <2>2 DEF InLink, SenderInLink, SenderPlace
  <2> QED BY <2>1, <2>2 DEF EmptyFiles
<1> QED BY <1>1, <1>3, <1>5, <1>6, <1>7, <1>9, <1>10 DEF GoesOn

\* Waiting for the time of the next chunk, nobody has the turn.
LEMMA Waits ==
    ASSUME NEW x \in Senders, NEW y \in Receivers, NEW back \in Seq(Frames), back # <<>>,
           InNumbers(x, y), InLink(x, y, back), Head(back) \in Info(x.receiveNext),
           x.state = "ObexPutBody", x.offset < Units[x.file], y.body = Begun(x),
           NEW t \in Senders, t.state = x.state, t.file = x.file, t.offset = x.offset,
           t.receiveNext = NextSeq(x.receiveNext), t.transmitNext = x.transmitNext,
           t.last = None, t.serial = x.serial, t.credits > 0
    PROVE  GoesOn(x, y, t, Tail(back))
<1>1. /\ y.last # None /\ Tail(back) \in Seq(Frames)
      /\ y.receiveNext = NextSeq(x.receiveNext) /\ x.transmitNext = y.receiveNext
      /\ On(x.serial) \intersect Info(y.receiveNext) = {}
      /\ On(Tail(back)) \subseteq Kind({"I"}) /\ InStep(Tail(back), y.receiveNext)
      /\ On(Tail(back)) \intersect Info(y.receiveNext) = {}
  BY AnswerTaken
<1>2. Pausing(t, y) /\ ~Asking(t, y) /\ ~Answering(t, y)
  <2>1. Pausing(t, y) /\ InNumbers(t, y)
    BY <1>1 DEF Pausing, InNumbers
  <2> QED BY <2>1, OneTurn
<1>3. SenderInLink(t, y)
  BY <1>1, <1>2 DEF InLink, SenderInLink, SenderPlace, RequestsInStep
<1>4. AnswersInStep(t, y, Tail(back))
  BY <1>1 DEF AnswersInStep
<1>5. ReceiverInLink(t, y, Tail(back))
  BY <1>1, <1>2, <1>4 DEF InLink, ReceiverInLink, Begun
<1>6. InLink(t, y, Tail(back)) /\ t.state \in LinkStates
  BY <1>2, <1>3, <1>5 DEF InLink
<1>7. ~HasSaved(x, y) /\ ~HasSaved(t, y)
  <2>1. x.offset # Units[x.file]
    BY DEF Senders
  <2> QED BY <2>1 DEF HasSaved
<1> QED BY <1>2, <1>6, <1>7 DEF GoesOn

\* The end of the link is the last frame of it.
LEMMA EndsLink ==
    ASSUME NEW x \in Senders, NEW y \in Receivers, NEW back \in Seq(Frames), back # <<>>,
           InNumbers(x, y), InLink(x, y, back), Head(back) \in Info(x.receiveNext),
           x.state = "ObexDisconnect", NEW c, Heard(x, c)
    PROVE  SendDisc(c) \in Senders /\ Ends(x, y, SendDisc(c), Tail(back))
<1> DEFINE f == Control("Disc")
           line == Append(x.serial, f)
           t == SendDisc(c)
<1>1. f \in Frames /\ f.kind = "Disc" /\ f # None
  BY ControlType DEF FrameKinds
<1> HIDE DEF f
<1>2. c \in Senders /\ c.serial = x.serial
  BY DEF Heard
<1>3. Write(c, f).serial = line /\ line \in Seq(Frames) /\ On(line) = On(x.serial) \union {f}
  BY <1>1, <1>2, WritesFrame, OnAppend DEF Senders
<1>4. t = SenderReset(line)
  BY <1>3 DEF SendDisc, f
<1> HIDE DEF line
<1>5. /\ t \in Senders /\ t.serial = line /\ t.state = "Idle" /\ t.file = None
      /\ t.last = None /\ ~t.pending /\ t.receiveNext = 0 /\ t.transmitNext = 0
      /\ ~t.endSent /\ t.offset = 0
  <2>1. /\ SenderReset(line) \in Senders /\ SenderReset(line).serial = line
        /\ SenderReset(line).state = "Idle" /\ SenderReset(line).file = None
        /\ SenderReset(line).last = None /\ SenderReset(line).pending = FALSE
        /\ SenderReset(line).receiveNext = 0 /\ SenderReset(line).transmitNext = 0
        /\ SenderReset(line).endSent = FALSE /\ SenderReset(line).offset = 0
    BY <1>3, ResetSender
  <2> QED BY <1>4, <2>1
<1> HIDE DEF t
<1>6. /\ On(x.serial) \intersect Info(y.receiveNext) = {}
      /\ On(Tail(back)) \subseteq Kind({"I"})
  BY AnswerTaken
<1>7. y.receiveNext \in Numbers /\ InStep(x.serial, y.receiveNext)
      /\ On(x.serial) \subseteq Kind({"Xid", "I", "RR"}) \ AnswerXids /\ x.serial \in Seq(Frames)
  BY DEF InNumbers, InLink, SenderInLink, RequestsInStep, Senders
<1>8. InStep(line, y.receiveNext)
  BY <1>1, <1>7, InStepAppend DEF line
<1>9. On(line) \intersect Info(y.receiveNext) = {}
  BY <1>1, <1>3, <1>6 DEF Info
<1>10. On(line) \subseteq Kind({"Xid", "I", "RR", "Disc"}) \ AnswerXids
  BY <1>1, <1>3, <1>7 DEF Kind, AnswerXids
<1>11. On(Tail(back)) \subseteq Kind({"I", "RR", "Ua"})
  BY <1>6 DEF Kind
<1>12. RequestsInStep(t, y)
  BY <1>5, <1>8, <1>9 DEF RequestsInStep
<1>13. ASSUME NEW n PROVE Leftover(t, y, Tail(back), n)
  BY <1>5, <1>9, <1>10, <1>11, <1>12 DEF Leftover
<1> QED BY <1>5, <1>13 DEF Ends, line, f, t

\* The answer that is waited for.
LEMMA HearsAnswer ==
    ASSUME NEW x \in Senders, NEW y \in Receivers, NEW back \in Seq(Frames), back # <<>>,
           InNumbers(x, y), InLink(x, y, back), Head(back) \in Info(x.receiveNext),
           x.file \in Files
    PROVE  LET t == HandleIrdaBeamSenderFrame(x, Head(back))
           IN  t \in Senders /\ (GoesOn(x, y, t, Tail(back)) \/ Ends(x, y, t, Tail(back)))
<1> DEFINE f == Head(back)
           t == HandleIrdaBeamSenderFrame(x, f)
<1>1. f \in Frames /\ f.kind = "I" /\ f.ns = x.receiveNext /\ f.data \in Messages
  BY DEF Info, Frames
<1>2. Answered(x, y, f.data) /\ f.nr = x.transmitNext /\ ~x.pending /\ Answering(x, y)
  BY AnswerTaken
<1> HIDE DEF f
<1>3. x.state \in LinkStates /\ x.state # "Idle"
  BY DEF InLink, LinkStates
<1>4. PICK a \in Senders :
          /\ t = HandleIrdaBeamSenderPayload(a, f.data)
          /\ Heard(x, AddIrdaBeamTinyTpCredit(a, f.data))
          /\ AddIrdaBeamTinyTpCredit(a, f.data).last = None
          /\ f.data.obex /\ f.data.kind # "LmpConfirm"
                => AddIrdaBeamTinyTpCredit(a, f.data).credits > 0
  BY <1>1, <1>2, <1>3, HearsMessage
<1> DEFINE c == AddIrdaBeamTinyTpCredit(a, f.data)
<1>5. /\ Heard(x, c) /\ c.state = x.state /\ c \in Senders /\ c.last = None
      /\ f.data.obex /\ f.data.kind # "LmpConfirm" => c.credits > 0
  BY <1>4 DEF Heard
<1> DEFINE Good == t \in Senders /\ (GoesOn(x, y, t, Tail(back)) \/ Ends(x, y, t, Tail(back)))
<1>6. CASE x.state = "IasConnect"
  <2>1. f.data.kind = "LmpConfirm" /\ ~f.data.obex
    BY <1>2, <1>6, MessageType DEF Answered, MessageKinds
  <2>2. t = Request(c, "IasQuery", Message("IasQuery"))
    BY <1>4, <1>5, <1>6, <2>1 DEF HandleIrdaBeamSenderPayload
  <2>3. /\ "IasQuery" \in LinkStates \ {"ObexPutBody"} /\ Message("IasQuery") \in Messages
        /\ \A z : z.state = "IasQuery" => Asked(z, y, Message("IasQuery"))
    BY MessageType DEF LinkStates, MessageKinds, Asked
  <2> HIDE DEF c
  <2> QED BY <1>1, <1>5, <1>6, <2>2, <2>3, AsksOther DEF f
<1>7. CASE x.state = "IasQuery"
  <2>1. f.data.kind = "IasLsap"
    BY <1>2, <1>7, MessageType DEF Answered, MessageKinds
  <2>2. t = Request(c, "ObexLmpConnect", ToObex("LmpConnect"))
    BY <1>4, <1>5, <1>7, <2>1 DEF HandleIrdaBeamSenderPayload
  <2>3. /\ "ObexLmpConnect" \in LinkStates \ {"ObexPutBody"} /\ ToObex("LmpConnect") \in Messages
        /\ \A z : z.state = "ObexLmpConnect" => Asked(z, y, ToObex("LmpConnect"))
    BY MessageType DEF LinkStates, MessageKinds, Asked
  <2> HIDE DEF c
  <2> QED BY <1>1, <1>5, <1>7, <2>2, <2>3, AsksOther DEF f
<1>8. CASE x.state = "ObexLmpConnect"
  <2> DEFINE d == [c EXCEPT !.credits = IF f.data.obex THEN Grant ELSE 0]
  <2>1. f.data.kind = "LmpConfirm"
    BY <1>2, <1>8, MessageType DEF Answered, MessageKinds
  <2>2. t = Request(d, "ObexConnect", ToObex("ObexConnect"))
    BY <1>4, <1>5, <1>8, <2>1 DEF HandleIrdaBeamSenderPayload
  <2>3. /\ "ObexConnect" \in LinkStates \ {"ObexPutBody"} /\ ToObex("ObexConnect") \in Messages
        /\ \A z : z.state = "ObexConnect" => Asked(z, y, ToObex("ObexConnect"))
    BY MessageType DEF LinkStates, MessageKinds, Asked
  <2>4. (IF f.data.obex THEN Grant ELSE 0) \in Nat
    BY BeamAssumption
  <2> HIDE DEF c
  <2>5. d \in Senders
    BY <1>5, <2>4, Zenon DEF Senders
  <2>6. /\ d.state = c.state /\ d.file = c.file /\ d.offset = c.offset
        /\ d.pending = c.pending /\ d.endSent = c.endSent /\ d.paced = c.paced
        /\ d.receiveNext = c.receiveNext /\ d.transmitNext = c.transmitNext
        /\ d.last = c.last /\ d.serial = c.serial
    BY <1>5 DEF Senders
  <2> HIDE DEF d
  <2>7. Heard(x, d)
    BY <1>5, <2>5, <2>6 DEF Heard
  <2> QED BY <1>1, <1>8, <2>2, <2>3, <2>7, AsksOther DEF f
<1>9. CASE x.state = "ObexConnect"
  <2>1. f.data.kind = "ObexOk" /\ y.body = <<>>
    BY <1>2, <1>9, MessageType DEF Answered, MessageKinds
  <2>2. t = Request(c, "ObexPutMeta", ToObex("PutMeta"))
    BY <1>4, <1>5, <1>9, <2>1 DEF HandleIrdaBeamSenderPayload
  <2>3. /\ "ObexPutMeta" \in LinkStates \ {"ObexPutBody"} /\ ToObex("PutMeta") \in Messages
        /\ \A z : z.state = "ObexPutMeta" => Asked(z, y, ToObex("PutMeta"))
    BY <2>1, MessageType DEF LinkStates, MessageKinds, Asked
  <2> HIDE DEF c
  <2> QED BY <1>1, <1>5, <1>9, <2>2, <2>3, AsksOther DEF f
<1>10. CASE x.state = "ObexPutMeta"
  <2> DEFINE d == [c EXCEPT !.state = "ObexPutBody"]
  <2>1. f.data = ToObex("ObexContinue") /\ y.body = <<>>
    BY <1>2, <1>10 DEF Answered
  <2>2. f.data.kind = "ObexContinue" /\ f.data.obex = TRUE
    BY <2>1, MessageType DEF MessageKinds
  <2>3. t = SendIrdaBeamNextBodyChunk(d)
    BY <1>4, <1>5, <1>10, <2>2 DEF HandleIrdaBeamSenderPayload
  <2>4. c.credits > 0
    BY <1>5, <2>2
  <2>5. "ObexPutBody" \in SendStates
    BY DEF SendStates
  <2> HIDE DEF c
  <2>6. d \in Senders
    BY <1>5, <2>5, Zenon DEF Senders
  <2>7. /\ d.state = "ObexPutBody" /\ d.file = c.file /\ d.offset = c.offset
        /\ d.pending = c.pending /\ d.endSent = c.endSent /\ d.paced = c.paced
        /\ d.receiveNext = c.receiveNext /\ d.transmitNext = c.transmitNext
        /\ d.last = c.last /\ d.serial = c.serial /\ d.credits = c.credits
    BY <1>5 DEF Senders
  <2> HIDE DEF d
  <2>8. x.offset = 0 /\ ~x.paced /\ 0 \in 0 .. Units[x.file]
    BY <1>10, UnitsType DEF InLink, SenderInLink, SenderPlace
  <2>9. AfterChunk(d, t)
    BY <1>2, <1>5, <2>3, <2>4, <2>6, <2>7, <2>8, NextChunk DEF Heard
  <2> QED BY <1>1, <1>5, <1>10, <2>1, <2>7, <2>9, AsksChunk DEF f, Heard
<1>11. CASE x.state = "ObexPutBody" /\ x.offset # Units[x.file]
  <2>1. f.data = ToObex("ObexContinue") /\ y.body = Begun(x)
    BY <1>2, <1>11 DEF Answered
  <2>2. f.data.kind = "ObexContinue" /\ f.data.obex = TRUE
    BY <2>1, MessageType DEF MessageKinds
  <2>3. t = SendIrdaBeamNextBodyChunk(c)
    BY <1>4, <1>5, <1>11, <2>2 DEF HandleIrdaBeamSenderPayload
  <2>4. c.credits > 0
    BY <1>5, <2>2
  <2>5. x.offset \in 0 .. Units[x.file] /\ x.offset < Units[x.file]
    BY <1>11, UnitsType DEF InLink, SenderInLink, SenderPlace
  <2> HIDE DEF c
  <2>6. \/ /\ t \in Senders /\ t.state = c.state /\ t.file = c.file
           /\ t.offset = c.offset /\ t.endSent = c.endSent /\ t.credits = c.credits
           /\ t.receiveNext = c.receiveNext /\ t.transmitNext = c.transmitNext
           /\ t.last = c.last /\ t.serial = c.serial
        \/ AfterChunk(c, t)
    BY <1>5, <1>11, <2>3, <2>4, <2>5, NextChunk DEF Heard
  <2>7. CASE AfterChunk(c, t)
    BY <1>1, <1>5, <1>11, <2>1, <2>5, <2>7, AsksChunk DEF f, Heard
  <2>8. CASE ~AfterChunk(c, t)
    BY <1>1, <1>5, <1>11, <2>1, <2>4, <2>5, <2>6, <2>8, Waits DEF f, Heard
  <2> QED BY <2>7, <2>8
<1>12. CASE x.state = "ObexPutBody" /\ x.offset = Units[x.file]
  <2>1. f.data.kind = "ObexOk"
    BY <1>2, <1>12, MessageType DEF Answered, MessageKinds
  <2>2. t = Request(c, "ObexDisconnect", ToObex("ObexDisconnect"))
    BY <1>4, <1>5, <1>12, <2>1 DEF HandleIrdaBeamSenderPayload
  <2>3. /\ "ObexDisconnect" \in LinkStates \ {"ObexPutBody"} /\ ToObex("ObexDisconnect") \in Messages
        /\ \A z : z.state = "ObexDisconnect" => Asked(z, y, ToObex("ObexDisconnect"))
    BY MessageType DEF LinkStates, MessageKinds, Asked
  <2>4. HasSaved(x, y)
    BY <1>2, <1>12 DEF HasSaved
  <2> HIDE DEF c
  <2> QED BY <1>1, <1>5, <1>12, <2>2, <2>3, <2>4, AsksOther DEF f
<1>13. CASE x.state = "ObexDisconnect"
  <2>1. f.data.kind = "ObexOk"
    BY <1>2, <1>13, MessageType DEF Answered, MessageKinds
  <2>2. t = SendDisc(c)
    BY <1>4, <1>5, <1>13, <2>1 DEF HandleIrdaBeamSenderPayload
  <2> HIDE DEF c
  <2> QED BY <1>1, <1>5, <1>13, <2>2, EndsLink DEF f
<1> QED BY <1>3, <1>6, <1>7, <1>8, <1>9, <1>10, <1>11, <1>12, <1>13 DEF LinkStates, f

\* Only the numbers of the sender and its place matter to the line back.
LEMMA BackStays ==
    ASSUME NEW x, NEW t, NEW y, NEW back, AnswersInStep(x, y, back),
           t.state = x.state, t.file = x.file, t.offset = x.offset,
           t.receiveNext = x.receiveNext, t.transmitNext = x.transmitNext
    PROVE  AnswersInStep(t, y, back)
  BY DEF AnswersInStep, Answering, Answered, Begun

\* Nor do the turn and what is asked and answered depend on more.
LEMMA PhaseStays ==
    ASSUME NEW x, NEW t, NEW y,
           t.state = x.state, t.file = x.file, t.offset = x.offset,
           t.receiveNext = x.receiveNext, t.transmitNext = x.transmitNext
    PROVE  /\ Asking(t, y) <=> Asking(x, y)
           /\ Answering(t, y) <=> Answering(x, y)
           /\ Pausing(t, y) <=> Pausing(x, y)
           /\ \A m : Asked(t, y, m) <=> Asked(x, y, m)
           /\ \A m : Answered(t, y, m) <=> Answered(x, y, m)
           /\ Begun(t) = Begun(x)
<1>1. /\ Asking(t, y) <=> Asking(x, y)
      /\ Answering(t, y) <=> Answering(x, y)
      /\ Pausing(t, y) <=> Pausing(x, y)
  BY DEF Asking, Answering, Pausing
<1>2. Begun(t) = Begun(x)
  BY DEF Begun
<1>3. ASSUME NEW m PROVE Asked(t, y, m) <=> Asked(x, y, m)
  BY <1>2 DEF Asked
<1>4. ASSUME NEW m PROVE Answered(t, y, m) <=> Answered(x, y, m)
  BY <1>2 DEF Answered
<1> QED BY <1>1, <1>2, <1>3, <1>4

\* A frame more from the sender: an acknowledgement, or the last request again.
LEMMA SenderRepeats ==
    ASSUME NEW x \in Senders, NEW t \in Senders, NEW y \in Receivers,
           NEW back \in Seq(Frames), InNumbers(x, y), InLink(x, y, back),
           t.state = x.state, t.file = x.file, t.offset = x.offset, t.pending = x.pending,
           t.credits = x.credits, t.endSent = x.endSent, t.receiveNext = x.receiveNext,
           t.transmitNext = x.transmitNext, t.last \in {x.last, None},
           t.paced = x.paced \/ x.state = "ObexPutBody",
           \/ t.serial = x.serial
           \/ \E f \in Frames : /\ t.serial = Append(x.serial, f)
                                /\ \/ f.kind = "RR" /\ y.last # None
                                   \/ f = x.last /\ x.last # None
    PROVE  InLink(t, y, back)
<1> DEFINE n == y.receiveNext
<1>1. SenderInLink(x, y) /\ ReceiverInLink(x, y, back) /\ x.serial \in Seq(Frames) /\ n \in Numbers
  BY DEF InLink, Senders, InNumbers
<1>2. /\ Asking(t, y) <=> Asking(x, y)
      /\ Answering(t, y) <=> Answering(x, y)
      /\ Pausing(t, y) <=> Pausing(x, y)
      /\ \A m : Asked(t, y, m) <=> Asked(x, y, m)
      /\ \A m : Answered(t, y, m) <=> Answered(x, y, m)
      /\ Begun(t) = Begun(x)
  BY PhaseStays
<1>8. SenderPlace(x) => SenderPlace(t)
  BY DEF SenderPlace
<1>3. ASSUME NEW f \in Frames, t.serial = Append(x.serial, f),
             (f.kind = "RR" /\ y.last # None) \/ (f = x.last /\ x.last # None)
      PROVE  /\ On(t.serial) \subseteq Kind({"Xid", "I", "RR"}) \ AnswerXids
             /\ RequestsInStep(t, y)
             /\ \A g \in On(t.serial) \intersect Info(n) : Asking(x, y) /\ Asked(x, y, g.data)
             /\ y.last = None =>
                  On(t.serial) \intersect (Kind({"RR"}) \union Before(n)) = {}
  <2>1. On(t.serial) = On(x.serial) \union {f}
    BY <1>1, <1>3, OnAppend
  <2>2. CASE f.kind = "RR" /\ y.last # None
    <3>1. InStep(t.serial, n)
      BY <1>1, <1>3, <2>2, InStepAppend DEF SenderInLink, RequestsInStep
    <3>2. f \notin Info(n) /\ f \in Kind({"Xid", "I", "RR"}) \ AnswerXids
      BY <2>2 DEF Info, Kind, AnswerXids
    <3> QED BY <1>1, <2>1, <2>2, <3>1, <3>2 DEF SenderInLink, RequestsInStep
  <2>3. CASE f = x.last /\ x.last # None
    <3>1. f \in Before(x.transmitNext) /\ f.kind = "I"
          /\ (Asking(x, y) => Asked(x, y, f.data) /\ f.nr = y.transmitNext)
      BY <1>1, <2>3 DEF SenderInLink, Before
    <3>2. f \in Kind({"Xid", "I", "RR"}) \ AnswerXids /\ f \notin Kind({"RR"})
      BY <3>1 DEF Kind, AnswerXids
    <3>3. CASE Asking(x, y)
      <4>1. f.ns \in Numbers /\ NextSeq(f.ns) = NextSeq(n)
        BY <3>1, <3>3 DEF Before, Asking
      <4>2. f.ns = n
        BY <1>1, <4>1, NextNumber
      <4>3. f \in Info(n) /\ f \notin Before(n)
        BY <1>1, <3>1, <4>2, NextNumber DEF Info, Before
      <4>4. InStep(t.serial, n)
        BY <1>1, <1>3, <4>3, InStepAppend DEF SenderInLink, RequestsInStep
      <4> QED BY <1>1, <2>1, <3>1, <3>2, <3>3, <4>3, <4>4 DEF SenderInLink, RequestsInStep, ReceiverInLink
    <3>4. CASE ~Asking(x, y)
      <4>1. On(x.serial) \intersect Info(n) = {} /\ x.transmitNext = n /\ y.last # None
        BY <1>1, <3>4, NoRequest DEF InLink, Answering, Pausing, ReceiverInLink
      <4>2. f \in Before(n) /\ f \notin Info(n)
        BY <1>1, <3>1, <4>1, NextNumber DEF Info, Before
      <4>3. InStep(t.serial, n)
        BY <1>1, <1>3, <4>1, <4>2, InStepAppend DEF SenderInLink, RequestsInStep
      <4>4. On(t.serial) \intersect Info(n) = {}
        BY <2>1, <4>1, <4>2
      <4> QED BY <1>1, <2>1, <3>2, <4>1, <4>3, <4>4 DEF SenderInLink, RequestsInStep
    <3> QED BY <3>3, <3>4
  <2> QED BY <1>3, <2>2, <2>3
<1>4. ASSUME t.serial = x.serial
      PROVE  /\ On(t.serial) \subseteq Kind({"Xid", "I", "RR"}) \ AnswerXids
             /\ RequestsInStep(t, y)
             /\ \A g \in On(t.serial) \intersect Info(n) : Asking(x, y) /\ Asked(x, y, g.data)
             /\ y.last = None =>
                  On(t.serial) \intersect (Kind({"RR"}) \union Before(n)) = {}
  BY <1>1, <1>4 DEF SenderInLink, RequestsInStep, ReceiverInLink
<1>5. /\ On(t.serial) \subseteq Kind({"Xid", "I", "RR"}) \ AnswerXids
      /\ RequestsInStep(t, y)
      /\ \A g \in On(t.serial) \intersect Info(n) : Asking(x, y) /\ Asked(x, y, g.data)
      /\ y.last = None => On(t.serial) \intersect (Kind({"RR"}) \union Before(n)) = {}
  BY <1>3, <1>4
<1>6. SenderInLink(t, y)
  BY <1>1, <1>2, <1>5, <1>8 DEF SenderInLink
<1>7. ReceiverInLink(t, y, back)
  BY <1>1, <1>2, <1>5, BackStays DEF ReceiverInLink
<1> QED BY <1>2, <1>6, <1>7 DEF InLink

\* A frame less on a line leaves the link in step.
LEMMA BackLoses ==
    ASSUME NEW x \in Senders, NEW y \in Receivers, NEW back \in Seq(Frames), back # <<>>,
           InLink(x, y, back)
    PROVE  InLink(x, y, Tail(back))
<1>1. On(Tail(back)) \subseteq On(back) /\ InStep(Tail(back), x.receiveNext)
  BY OnTail, InStepTail DEF InLink, ReceiverInLink, AnswersInStep
<1>2. AnswersInStep(x, y, Tail(back))
  BY <1>1 DEF InLink, ReceiverInLink, AnswersInStep
<1>3. y.last # None
  BY DEF InLink, ReceiverInLink
<1> QED BY <1>2, <1>3 DEF InLink, ReceiverInLink

\* A sender with another line to the receiver.
SameSender(x, t) ==
    /\ t \in Senders /\ SamePlace(x, t)
    /\ t.receiveNext = x.receiveNext /\ t.transmitNext = x.transmitNext
    /\ t.last = x.last

\* The receiver takes the first frame off the line; the sender is not concerned.
LEMMA TakesFrame ==
    ASSUME NEW x \in Senders, x.serial # <<>>
    PROVE  LET t == [x EXCEPT !.serial = Tail(x.serial)]
           IN  SameSender(x, t) /\ t.serial = Tail(x.serial) /\ x.serial \in Seq(Frames)
<1>1. x.serial \in Seq(Frames) /\ Tail(x.serial) \in Seq(Frames)
  BY HeadTailProperties DEF Senders
<1>2. [x EXCEPT !.serial = Tail(x.serial)] \in Senders
  BY <1>1, Zenon DEF Senders
<1> QED BY <1>1, <1>2 DEF Senders, SameSender, SamePlace

\* A link stays in step when a request is lost.
LEMMA LineLosesRequest ==
    ASSUME NEW x \in Senders, NEW y \in Receivers, NEW back \in Seq(Frames), x.serial # <<>>,
           NEW t, SameSender(x, t), t.serial = Tail(x.serial), InLink(x, y, back)
    PROVE  InLink(t, y, back)
<1>0. x.serial \in Seq(Frames)
  BY DEF Senders
<1>1. On(t.serial) \subseteq On(x.serial) /\ InStep(t.serial, y.receiveNext)
  BY <1>0, OnTail, InStepTail DEF InLink, SenderInLink, RequestsInStep
<1>2. /\ Asking(t, y) <=> Asking(x, y)
      /\ Answering(t, y) <=> Answering(x, y)
      /\ Pausing(t, y) <=> Pausing(x, y)
      /\ \A m : Asked(t, y, m) <=> Asked(x, y, m)
      /\ \A m : Answered(t, y, m) <=> Answered(x, y, m)
      /\ Begun(t) = Begun(x)
  BY PhaseStays DEF SameSender, SamePlace
<1>8. SenderPlace(x) => SenderPlace(t)
  BY DEF SenderPlace, SameSender, SamePlace
<1>3. SenderInLink(t, y)
  BY <1>1, <1>2, <1>8 DEF InLink, SenderInLink, RequestsInStep, SameSender, SamePlace
<1>4. AnswersInStep(t, y, back)
  BY BackStays DEF InLink, ReceiverInLink, SameSender, SamePlace
<1>5. ReceiverInLink(t, y, back)
  BY <1>1, <1>2, <1>4 DEF InLink, ReceiverInLink, SameSender, SamePlace
<1> QED BY <1>2, <1>3, <1>5 DEF InLink, SameSender, SamePlace

\* An answer again: it is acknowledged, and nothing else happens.
LEMMA HearsRepeat ==
    ASSUME NEW x \in Senders, NEW y \in Receivers, NEW back \in Seq(Frames), back # <<>>,
           InNumbers(x, y), InLink(x, y, back), Head(back) \notin Info(x.receiveNext)
    PROVE  LET t == HandleIrdaBeamSenderFrame(x, Head(back))
           IN  /\ SameTurn(x, t) /\ InLink(t, y, Tail(back))
               /\ \E f \in Kind({"RR"}) : t.serial = Append(x.serial, f)
<1> DEFINE f == Head(back)
           t == HandleIrdaBeamSenderFrame(x, f)
           b == Acknowledged(x, f.nr)
           g == Frame("RR", 0, x.receiveNext, Message("none"))
<1>1. f \in On(back) /\ f \in Frames
  BY OnTail
<1>2. f.kind = "I" /\ f.ns # x.receiveNext
  <2>1. f.kind = "I"
    BY <1>1 DEF InLink, ReceiverInLink, AnswersInStep, Kind
  <2> QED BY <1>1, <2>1 DEF Info
<1> HIDE DEF f
<1>3. x.state \in LinkStates /\ x.state # "Idle" /\ y.last # None
  BY DEF InLink, LinkStates, ReceiverInLink
<1>4. t = SendIrdaBeamReceiveReady(b)
  <2>1. t = HandleInformation(x, f)
    BY <1>2, <1>3 DEF HandleIrdaBeamSenderFrame, LinkStates
  <2> QED BY <1>2, <2>1 DEF HandleInformation
<1>5. SameTurn(x, b) /\ b.serial = x.serial /\ b.last \in {x.last, None}
  BY Acknowledges
<1>6. t = Write(b, g)
  BY <1>4, <1>5 DEF SendIrdaBeamReceiveReady, SameTurn
<1>7. g \in Frames /\ g.kind = "RR" /\ g \in Kind({"RR"})
  <2>1. x.receiveNext \in Nat /\ Message("none") \in Messages /\ "RR" \in FrameKinds
    BY MessageType DEF Senders, MessageKinds, FrameKinds
  <2>2. g \in Frames /\ g.kind = "RR"
    BY <2>1, FrameType
  <2> QED BY <2>2 DEF Kind
<1> HIDE DEF b, g
<1>8. SameTurn(b, t) /\ t.last = b.last /\ t.serial = Append(b.serial, g)
  <2>1. b \in Senders
    BY <1>5 DEF SameTurn
  <2> QED BY <1>6, <1>7, <2>1, WritesFrame
<1>9. SameTurn(x, t) /\ t.last \in {x.last, None} /\ t.serial = Append(x.serial, g)
  BY <1>5, <1>8 DEF SameTurn, SamePlace
<1> HIDE DEF t
<1>10. InLink(x, y, Tail(back)) /\ Tail(back) \in Seq(Frames)
  BY BackLoses, OnTail
<1>11. InLink(t, y, Tail(back))
  BY <1>3, <1>7, <1>9, <1>10, SenderRepeats DEF SameTurn, SamePlace
<1> QED BY <1>7, <1>9, <1>11 DEF t, f

----------------------------------------------------------------------------
(* What the calls of the receiver leave behind *)

\* SendIrdaInformationResponse numbers an answer, keeps it to repeat, and queues it behind
\* the others.
LEMMA Responds ==
    ASSUME NEW z \in Receivers, NEW d \in Messages, NEW line \in Seq(Frames)
    PROVE  LET u == SendIrdaInformationResponse(z, d)
               g == Frame("I", z.transmitNext, z.receiveNext, d)
           IN  /\ u \in Receivers /\ u.connected = z.connected /\ u.receiveNext = z.receiveNext
               /\ u.transmitNext = NextSeq(z.transmitNext) /\ u.body = z.body
               /\ u.saved = z.saved /\ u.last = [data |-> d, ns |-> z.transmitNext]
               /\ g \in Frames /\ line \o Answers(u) = Append(line \o Answers(z), g)
<1> DEFINE g == Frame("I", z.transmitNext, z.receiveNext, d)
           q == QueueIrdaResponse(z, g)
           l == [data |-> d, ns |-> z.transmitNext]
           u == [q EXCEPT !.last = l, !.transmitNext = NextSeq(q.transmitNext)]
<1>1. SendIrdaInformationResponse(z, d) = u
  BY DEF SendIrdaInformationResponse
<1>2. g \in Frames
  <2>1. z.transmitNext \in Nat /\ z.receiveNext \in Nat /\ "I" \in FrameKinds
    BY DEF Receivers, FrameKinds
  <2> QED BY <2>1, FrameType
<1> HIDE DEF g
<1>3. SameLink(z, q) /\ line \o Answers(q) = Append(line \o Answers(z), g)
  BY <1>2, AnswerQueued
<1>4. q \in Receivers /\ NextSeq(q.transmitNext) \in Nat
      /\ l \in [data : Messages, ns : Nat] \union {None}
  BY <1>3, NextNat DEF SameLink, Receivers
<1> HIDE DEF l, q
<1>5. u \in Receivers
  BY <1>4, Zenon DEF Receivers
<1>6. /\ u.connected = q.connected /\ u.receiveNext = q.receiveNext
      /\ u.transmitNext = NextSeq(q.transmitNext) /\ u.body = q.body
      /\ u.saved = q.saved /\ u.last = l /\ u.slot = q.slot /\ u.queue = q.queue
  BY <1>4 DEF Receivers
<1> HIDE DEF u
<1>7. Answers(u) = Answers(q)
  BY <1>6 DEF Answers
<1>8. /\ u.connected = z.connected /\ u.receiveNext = z.receiveNext
      /\ u.transmitNext = NextSeq(z.transmitNext) /\ u.body = z.body /\ u.saved = z.saved
  BY <1>3, <1>6 DEF SameLink
<1> QED BY <1>1, <1>2, <1>3, <1>5, <1>6, <1>7, <1>8 DEF l, g, u

\* A repeated answer has its old number and asks for the next request.
LEMMA QueuesRepeat ==
    ASSUME NEW y \in Receivers, y.last # None, NEW line \in Seq(Frames)
    PROVE  LET u == QueueIrdaInformationRetransmit(y)
               g == Frame("I", y.last.ns, y.receiveNext, y.last.data)
           IN  /\ SameLink(y, u) /\ g \in Frames /\ g.kind = "I" /\ g.ns = y.last.ns
               /\ g.nr = y.receiveNext /\ g.data = y.last.data
               /\ line \o Answers(u) = Append(line \o Answers(y), g)
<1> DEFINE g == Frame("I", y.last.ns, y.receiveNext, y.last.data)
<1>1. y.last.ns \in Nat /\ y.receiveNext \in Nat /\ y.last.data \in Messages /\ "I" \in FrameKinds
  BY DEF Receivers, FrameKinds
<1>2. /\ g \in Frames /\ g.kind = "I" /\ g.ns = y.last.ns
      /\ g.nr = y.receiveNext /\ g.data = y.last.data
  BY <1>1, FrameType
<1>3. QueueIrdaInformationRetransmit(y) = QueueIrdaResponse(y, g)
  BY DEF QueueIrdaInformationRetransmit
<1> HIDE DEF g
<1> QED BY <1>2, <1>3, AnswerQueued DEF g

\* A receiver without an answer to repeat says that it is ready.
LEMMA QueuesReady ==
    ASSUME NEW y \in Receivers, NEW line \in Seq(Frames)
    PROVE  LET u == SendIrdaReceiveReady(y)
           IN  /\ SameLink(y, u)
               /\ \E g \in Frames : /\ g.kind = "RR" /\ Credits(g.data)
                                    /\ line \o Answers(u) = Append(line \o Answers(y), g)
<1> DEFINE g == Frame("RR", 0, y.receiveNext, Message("none"))
<1>1. y.receiveNext \in Nat /\ Message("none") \in Messages /\ "RR" \in FrameKinds
  BY MessageType DEF Receivers, FrameKinds, MessageKinds
<1>2. g \in Frames /\ g.kind = "RR" /\ Credits(g.data)
  <2>1. g \in Frames /\ g.kind = "RR" /\ g.data = Message("none")
    BY <1>1, FrameType
  <2> QED BY <2>1, MessageType DEF Credits, MessageKinds
<1>3. SendIrdaReceiveReady(y) = QueueIrdaResponse(y, g)
  BY DEF SendIrdaReceiveReady
<1> HIDE DEF g
<1> QED BY <1>2, <1>3, AnswerQueued

----------------------------------------------------------------------------
(* The receiver in the link *)

\* What a link is depends on the receiver's connection, numbers, body and saved objects
\* only.
LEMMA SameReceiver ==
    ASSUME NEW x, NEW y, NEW z, NEW back, SameLink(y, z)
    PROVE  /\ InLink(x, y, back) => InLink(x, z, back)
           /\ RequestsInStep(x, y) => RequestsInStep(x, z)
           /\ HasSaved(x, z) <=> HasSaved(x, y)
           /\ \A n : Leftover(x, y, back, n) => Leftover(x, z, back, n)
           /\ SettingUp(x, y, back) => SettingUp(x, z, back)
<1>1. /\ Asking(x, z) <=> Asking(x, y)
      /\ Answering(x, z) <=> Answering(x, y)
      /\ Pausing(x, z) <=> Pausing(x, y)
      /\ \A m : Asked(x, z, m) <=> Asked(x, y, m)
      /\ \A m : Answered(x, z, m) <=> Answered(x, y, m)
  BY DEF Asking, Answering, Pausing, Asked, Answered, SameLink
<1>2. RequestsInStep(x, y) => RequestsInStep(x, z)
  BY DEF RequestsInStep, SameLink
<1>3. SenderInLink(x, y) => SenderInLink(x, z)
  BY <1>1, <1>2 DEF SenderInLink, SameLink
<1>4. ReceiverInLink(x, y, back) => ReceiverInLink(x, z, back)
  BY <1>1 DEF ReceiverInLink, AnswersInStep, SameLink
<1>5. InLink(x, y, back) => InLink(x, z, back)
  BY <1>1, <1>3, <1>4 DEF InLink
<1>6. HasSaved(x, z) <=> HasSaved(x, y)
  BY <1>1 DEF HasSaved
<1>7. ASSUME NEW n, Leftover(x, y, back, n) PROVE Leftover(x, z, back, n)
  <2>1. \A g : SavedTimes(z, g) = SavedTimes(y, g)
    BY DEF SavedTimes, SameLink
  <2> QED BY <1>2, <1>7, <2>1 DEF Leftover, SameLink
<1>8. SettingUp(x, y, back) => SettingUp(x, z, back)
  BY DEF SettingUp, SameLink
<1> QED BY <1>2, <1>5, <1>6, <1>7, <1>8

\* The last answer may be repeated at any time.
LEMMA RepeatInStep ==
    ASSUME NEW x \in Senders, NEW y \in Receivers, NEW back \in Seq(Frames),
           InNumbers(x, y), InLink(x, y, back), y.last # None,
           NEW g \in Frames, g.kind = "I", g.ns = y.last.ns, g.nr = y.receiveNext,
           g.data = y.last.data
    PROVE  InLink(x, y, Append(back, g))
<1> DEFINE n == x.receiveNext
           line == Append(back, g)
<1>1. n \in Numbers /\ y.last.ns \in Numbers /\ NextSeq(y.last.ns) = y.receiveNext
  BY DEF InLink, ReceiverInLink, InNumbers
<1>2. On(line) = On(back) \union {g}
  BY OnAppend
<1>3. On(back) \subseteq Kind({"I"}) /\ InStep(back, n)
      /\ \A f \in On(back) \intersect Info(n) :
             Answering(x, y) /\ Answered(x, y, f.data) /\ f.nr = y.receiveNext
  BY DEF InLink, ReceiverInLink, AnswersInStep
<1>4. g \in Kind({"I"})
  BY DEF Kind
<1>5. CASE Answering(x, y)
  <2>1. y.last.ns = n
    BY <1>1, <1>5, NextNumber DEF Answering
  <2>2. g \in Info(n) /\ Answered(x, y, g.data)
    BY <1>5, <2>1 DEF Info, InLink, ReceiverInLink
  <2>3. InStep(line, n)
    BY <1>1, <1>3, <2>2, InStepAppend
  <2> QED BY <1>2, <1>3, <1>4, <1>5, <2>2, <2>3 DEF InLink, ReceiverInLink, AnswersInStep
<1>6. CASE ~Answering(x, y)
  <2>1. y.receiveNext = n
    BY <1>6 DEF InLink, Asking, Pausing
  <2>2. g \in Before(n) /\ g \notin Info(n)
    BY <1>1, <2>1, NextNumber DEF Before, Info
  <2>3. On(back) \intersect Info(n) = {}
    BY <1>3, <1>6
  <2>4. InStep(line, n)
    BY <1>1, <1>3, <2>2, <2>3, InStepAppend
  <2> QED BY <1>2, <1>3, <1>4, <2>2, <2>4 DEF InLink, ReceiverInLink, AnswersInStep
<1> QED BY <1>5, <1>6

\* The turn goes to the answers when the receiver takes the request that is waited for.
LEMMA TakesRequest ==
    ASSUME NEW x \in Senders, NEW y \in Receivers, NEW back \in Seq(Frames),
           InNumbers(x, y), InLink(x, y, back), x.serial # <<>>,
           Head(x.serial) \in Info(y.receiveNext),
           NEW t, SameSender(x, t), t.serial = Tail(x.serial),
           NEW u \in Receivers, NEW d \in Messages, u.connected,
           u.receiveNext = NextSeq(y.receiveNext), u.transmitNext = NextSeq(y.transmitNext),
           u.last = [data |-> d, ns |-> y.transmitNext], Answered(t, u, d),
           NEW g, g = Frame("I", y.transmitNext, u.receiveNext, d)
    PROVE  InLink(t, u, Append(back, g))
<1> DEFINE n == y.receiveNext
           k == u.receiveNext
           line == Append(back, g)
<1>1. /\ x.serial \in Seq(Frames) /\ Head(x.serial) \in On(x.serial)
      /\ On(t.serial) \subseteq On(x.serial)
  BY OnTail DEF Senders
<1>2. Asking(x, y) /\ y.transmitNext = n
  BY <1>1 DEF InLink, SenderInLink, ReceiverInLink
<1>3. n \in Numbers /\ k \in Numbers /\ n \in Nat /\ k \in Nat /\ k # n /\ x.receiveNext = n
      /\ x.transmitNext = k /\ u.transmitNext = k /\ t.receiveNext = n /\ t.transmitNext = k
  <2>1. n \in Numbers /\ k = NextSeq(n) /\ k \in Numbers /\ k # n
    BY NextNumber DEF InNumbers
  <2>2. n \in Nat /\ k \in Nat
    BY <2>1 DEF Numbers
  <2> QED BY <1>2, <2>1, <2>2 DEF Asking, SameSender
<1>4. ~Answering(x, y) /\ ~Pausing(x, y)
  BY <1>2, OneTurn
<1>5. Answering(t, u) /\ ~Asking(t, u) /\ ~Pausing(t, u)
  BY <1>3 DEF Answering, Asking, Pausing
<1>6. InStep(t.serial, k) /\ On(t.serial) \intersect Info(k) = {}
  BY <1>1, <1>3, InStepNext DEF InLink, SenderInLink, RequestsInStep
<1>7. /\ g \in Frames /\ g.kind = "I" /\ g.ns = n /\ g.nr = k /\ g.data = d
      /\ g \in Info(n) /\ g \in Kind({"I"})
  <2>1. g \in Frames /\ g.kind = "I" /\ g.ns = n /\ g.nr = k /\ g.data = d
    BY <1>2, <1>3, FrameType DEF FrameKinds
  <2> QED BY <2>1 DEF Info, Kind
<1>8. On(back) \subseteq Kind({"I"}) /\ InStep(back, n) /\ On(back) \intersect Info(n) = {}
  BY <1>3, <1>4 DEF InLink, ReceiverInLink, AnswersInStep
<1>9. On(line) = On(back) \union {g} /\ InStep(line, n)
  BY <1>3, <1>7, <1>8, OnAppend, InStepAppend
<1>10. AnswersInStep(t, u, line)
  BY <1>3, <1>5, <1>7, <1>8, <1>9 DEF AnswersInStep
<1>11. u.last # None /\ u.last.ns = n /\ u.last.data = d
  BY <1>2, <1>3, NoneAssumption
<1>12. ReceiverInLink(t, u, line)
  BY <1>3, <1>5, <1>10, <1>11 DEF ReceiverInLink
<1>13. SenderPlace(t) /\ ~t.pending
  BY <1>4 DEF SenderPlace, InLink, SenderInLink, SameSender, SamePlace
<1>14. t.last # None => t.last \in Before(t.transmitNext)
  BY <1>3 DEF InLink, SenderInLink, SameSender
<1>15. SenderInLink(t, u)
  BY <1>1, <1>5, <1>6, <1>13, <1>14 DEF InLink, SenderInLink, RequestsInStep
<1>16. t.state \in LinkStates
  BY DEF InLink, SameSender, SamePlace
<1> QED BY <1>5, <1>12, <1>15, <1>16 DEF InLink

\* The end of the body has the whole file.
LEMMA WholeBody ==
    ASSUME NEW x, x.file \in Files, x.offset = Units[x.file]
    PROVE  Begun(x) = UnitsOf(x.file)
<1>1. UnitsOf(x.file) \in Seq(Parts) /\ Len(UnitsOf(x.file)) = Units[x.file]
  BY UnitsType
<1> DEFINE u == UnitsOf(x.file)
<1> HIDE DEF u
<1>2. u \in Seq(Parts) => SubSeq(u, 1, Len(u)) = u
  OBVIOUS
<1> QED BY <1>1, <1>2 DEF Begun, u

\* The receiver once it has looked at the request of a link: what it answers, and that an
\* object is saved just when the body ends, as the whole file.
AnswersTo(x, y, z, u, line) ==
    \E d \in Messages :
        /\ u \in Receivers /\ u.connected = z.connected /\ u.receiveNext = z.receiveNext
        /\ u.transmitNext = NextSeq(z.transmitNext)
        /\ u.last = [data |-> d, ns |-> z.transmitNext] /\ Answered(x, u, d)
        /\ u.saved = IF x.state = "ObexPutBody" /\ x.offset = Units[x.file]
                     THEN Append(y.saved, UnitsOf(x.file)) ELSE y.saved
        /\ Frame("I", z.transmitNext, z.receiveNext, d) \in Frames
        /\ line \o Answers(u) = Append(line \o Answers(z), Frame("I", z.transmitNext, z.receiveNext, d))

\* A receiver that answers with the message the state calls for has answered.
LEMMA AnswersWith ==
    ASSUME NEW x, NEW y, NEW z, NEW w \in Receivers, NEW line \in Seq(Frames),
           NEW d \in Messages,
           w.connected = z.connected, w.receiveNext = z.receiveNext,
           w.transmitNext = z.transmitNext, w.slot = z.slot, w.queue = z.queue,
           \A u : u.body = w.body => Answered(x, u, d),
           w.saved = IF x.state = "ObexPutBody" /\ x.offset = Units[x.file]
                     THEN Append(y.saved, UnitsOf(x.file)) ELSE y.saved
    PROVE  AnswersTo(x, y, z, SendIrdaInformationResponse(w, d), line)
<1> DEFINE u == SendIrdaInformationResponse(w, d)
           g == Frame("I", w.transmitNext, w.receiveNext, d)
<1>1. /\ u \in Receivers /\ u.connected = w.connected /\ u.receiveNext = w.receiveNext
      /\ u.transmitNext = NextSeq(w.transmitNext) /\ u.body = w.body
      /\ u.saved = w.saved /\ u.last = [data |-> d, ns |-> w.transmitNext]
      /\ g \in Frames /\ line \o Answers(u) = Append(line \o Answers(w), g)
  BY Responds
<1>2. Answers(w) = Answers(z)
  BY DEF Answers
<1> QED BY <1>1, <1>2 DEF AnswersTo

\* HandleIrdaInformationPayload answers the request of each state with that state's answer,
\* and saves the object with the last part of its body.
LEMMA LooksAtRequest ==
    ASSUME NEW x \in Senders, x.state \in LinkStates, x.file \in Files, NEW y \in Receivers,
           NEW m \in Messages, Asked(x, y, m), NEW z \in Receivers,
           z.body = y.body, z.saved = y.saved, NEW line \in Seq(Frames)
    PROVE  AnswersTo(x, y, z, HandleIrdaInformationPayload(z, m), line)
<1> DEFINE u == HandleIrdaInformationPayload(z, m)
           Good == AnswersTo(x, y, z, u, line)
<1>1. CASE x.state = "IasConnect" \/ x.state = "ObexLmpConnect"
  <2> DEFINE d == [Message("LmpConfirm") EXCEPT !.obex = m.obex]
  <2>1. m.kind = "LmpConnect"
    BY <1>1, MessageType DEF Asked, MessageKinds
  <2>2. u = SendIrdaInformationResponse(z, d)
    BY <2>1 DEF HandleIrdaInformationPayload
  <2>3. CASE x.state = "IasConnect"
    <3>1. m.obex = FALSE
      BY <2>3, MessageType DEF Asked, MessageKinds
    <3>2. d = Message("LmpConfirm") /\ d \in Messages
      <4>1. d = [Message("LmpConfirm") EXCEPT !.obex = FALSE]
        BY <3>1
      <4>2. d = Message("LmpConfirm")
        <5>1. Message("LmpConfirm") \in Messages /\ Message("LmpConfirm").obex = FALSE
          BY MessageType DEF MessageKinds
        <5>2. \A k \in Messages : k.obex = FALSE => [k EXCEPT !.obex = FALSE] = k
          BY DEF Messages
        <5> HIDE DEF d
        <5> QED BY <4>1, <5>1, <5>2
      <4> QED BY <4>2, MessageType DEF MessageKinds
    <3> HIDE DEF d, u
    <3>3. \A v : v.body = z.body => Answered(x, v, d)
      BY <2>3, <3>2 DEF Answered
    <3> QED BY <2>2, <2>3, <3>2, <3>3, AnswersWith DEF u
  <2>4. CASE x.state = "ObexLmpConnect"
    <3>1. m.obex = TRUE
      BY <2>4, MessageType DEF Asked, MessageKinds
    <3>2. d = ToObex("LmpConfirm") /\ d \in Messages
      <4>1. d = ToObex("LmpConfirm")
        BY <3>1 DEF ToObex
      <4> QED BY <4>1, MessageType DEF MessageKinds
    <3> HIDE DEF d, u
    <3>3. \A v : v.body = z.body => Answered(x, v, d)
      BY <2>4, <3>2 DEF Answered
    <3> QED BY <2>2, <2>4, <3>2, <3>3, AnswersWith DEF u
  <2> QED BY <1>1, <2>3, <2>4
<1>2. CASE x.state = "IasQuery"
  <2>1. m.kind = "IasQuery"
    BY <1>2, MessageType DEF Asked, MessageKinds
  <2>2. u = SendIrdaInformationResponse(z, Message("IasLsap"))
    BY <2>1 DEF HandleIrdaInformationPayload
  <2>3. /\ Message("IasLsap") \in Messages
        /\ \A v : v.body = z.body => Answered(x, v, Message("IasLsap"))
    BY <1>2, MessageType DEF Answered, MessageKinds
  <2> HIDE DEF u
  <2> QED BY <1>2, <2>2, <2>3, AnswersWith DEF u
<1>3. CASE x.state = "ObexConnect" \/ x.state = "ObexDisconnect"
  <2> DEFINE w == [z EXCEPT !.body = <<>>]
  <2>1. m.kind \in {"ObexConnect", "ObexDisconnect"}
    BY <1>3, MessageType DEF Asked, MessageKinds
  <2>2. u = SendIrdaInformationResponse(w, ToObex("ObexOk"))
    BY <2>1 DEF HandleIrdaInformationPayload
  <2>3. <<>> \in Seq(Parts)
    OBVIOUS
  <2>4. w \in Receivers
    BY <2>3, Zenon DEF Receivers
  <2>5. /\ w.connected = z.connected /\ w.receiveNext = z.receiveNext
        /\ w.transmitNext = z.transmitNext /\ w.slot = z.slot /\ w.queue = z.queue
        /\ w.body = <<>> /\ w.saved = y.saved
    BY DEF Receivers
  <2>6. /\ ToObex("ObexOk") \in Messages
        /\ \A v : v.body = <<>> => Answered(x, v, ToObex("ObexOk"))
    BY <1>3, MessageType DEF Answered, MessageKinds
  <2> HIDE DEF u, w
  <2> QED BY <1>3, <2>2, <2>4, <2>5, <2>6, AnswersWith DEF u
<1>4. CASE x.state = "ObexPutMeta" \/ x.state = "ObexPutBody"
  <2> DEFINE w == [z EXCEPT !.body = z.body \o m.units]
  <2>0. Received(z, m) = w
    BY DEF Received
  <2>1. z.body \o m.units \in Seq(Parts)
    <3>1. z.body \in Seq(Parts) /\ m.units \in Seq(Parts)
      BY DEF Receivers, Messages
    <3> QED BY <3>1, ConcatProperties
  <2>2. w \in Receivers
    BY <2>1, Zenon DEF Receivers
  <2>3. /\ w.connected = z.connected /\ w.receiveNext = z.receiveNext
        /\ w.transmitNext = z.transmitNext /\ w.slot = z.slot /\ w.queue = z.queue
        /\ w.body = y.body \o m.units /\ w.saved = y.saved
    BY DEF Receivers
  <2> HIDE DEF w
  <2>4. CASE x.state = "ObexPutMeta"
    <3>1. m = ToObex("PutMeta") /\ y.body = <<>>
      BY <2>4 DEF Asked
    <3>2. m.kind = "PutMeta" /\ m.units = <<>>
      BY <3>1, MessageType DEF MessageKinds
    <3>3. u = SendIrdaInformationResponse(w, ToObex("ObexContinue"))
      BY <2>0, <3>2 DEF HandleIrdaInformationPayload
    <3>4. w.body = <<>>
      BY <2>3, <3>1, <3>2, ConcatEmptySeq DEF Receivers
    <3>5. /\ ToObex("ObexContinue") \in Messages
          /\ \A v : v.body = <<>> => Answered(x, v, ToObex("ObexContinue"))
      BY <2>4, MessageType DEF Answered, MessageKinds
    <3> HIDE DEF u
    <3> QED BY <2>2, <2>3, <2>4, <3>3, <3>4, <3>5, AnswersWith DEF u
  <2>5. CASE x.state = "ObexPutBody"
    <3>1. m = Put(m.units, x.offset = Units[x.file]) /\ y.body \o m.units = Begun(x)
      BY <2>5 DEF Asked
    <3>2. m.units \in Seq(Parts) /\ (x.offset = Units[x.file]) \in BOOLEAN
      BY DEF Messages
    <3>3. m.kind = "PutBody" /\ m.final = (x.offset = Units[x.file])
      BY <3>1, <3>2, PutType
    <3>4. CASE ~m.final
      <4>1. u = SendIrdaInformationResponse(w, ToObex("ObexContinue"))
        BY <2>0, <3>3, <3>4 DEF HandleIrdaInformationPayload
      <4>2. /\ ToObex("ObexContinue") \in Messages
            /\ \A v : v.body = w.body => Answered(x, v, ToObex("ObexContinue"))
        BY <2>3, <2>5, <3>1, <3>3, <3>4, MessageType DEF Answered, MessageKinds
      <4> HIDE DEF u
      <4> QED BY <2>2, <2>3, <2>5, <3>3, <3>4, <4>1, <4>2, AnswersWith DEF u
    <3>5. CASE m.final
      <4> DEFINE v == [w EXCEPT !.saved = Append(w.saved, w.body)]
      <4>1. u = SendIrdaInformationResponse(v, ToObex("ObexOk"))
        BY <2>0, <3>3, <3>5 DEF HandleIrdaInformationPayload, SaveIrdaObexObject
      <4>2. Append(w.saved, w.body) \in Seq(Seq(Parts))
        BY <2>2 DEF Receivers
      <4>3. v \in Receivers
        BY <2>2, <4>2, Zenon DEF Receivers
      <4>4. /\ v.connected = z.connected /\ v.receiveNext = z.receiveNext
            /\ v.transmitNext = z.transmitNext /\ v.slot = z.slot /\ v.queue = z.queue
            /\ v.saved = Append(y.saved, w.body)
        BY <2>2, <2>3 DEF Receivers
      <4>5. w.body = UnitsOf(x.file)
        BY <2>3, <3>1, <3>3, <3>5, WholeBody
      <4>6. /\ ToObex("ObexOk") \in Messages
            /\ \A k : k.body = v.body => Answered(x, k, ToObex("ObexOk"))
        BY <2>5, <3>3, <3>5, MessageType DEF Answered, MessageKinds
      <4> HIDE DEF u, v
      <4>7. x.offset = Units[x.file]
        BY <3>3, <3>5
      <4>8. v.saved = IF x.state = "ObexPutBody" /\ x.offset = Units[x.file]
                      THEN Append(y.saved, UnitsOf(x.file)) ELSE y.saved
        BY <2>5, <4>4, <4>5, <4>7
      <4>9. AnswersTo(x, y, z, SendIrdaInformationResponse(v, ToObex("ObexOk")), line)
        BY <4>3, <4>4, <4>6, <4>8, AnswersWith
      <4> QED BY <4>1, <4>9 DEF u
    <3> QED BY <3>3, <3>4, <3>5
  <2> QED BY <1>4, <2>4, <2>5
<1> QED BY <1>1, <1>2, <1>3, <1>4 DEF LinkStates

----------------------------------------------------------------------------
(* What a frame from the sender leaves behind *)

\* The line back with at most k answers more.
Adds(p, q, k) ==
    /\ q \in Seq(Frames) /\ On(q) \subseteq On(p) \union Kind({"I", "RR"})
    /\ Count(q, Kind({"I", "RR"})) <= Count(p, Kind({"I", "RR"})) + k

\* An information or supervisory frame more is at most one more to answer.
LEMMA AddsOne ==
    ASSUME NEW p \in Seq(Frames), NEW g \in Frames, g.kind \in {"I", "RR"}
    PROVE  Adds(p, Append(p, g), 1) /\ Adds(p, p, 0)
<1>1. On(Append(p, g)) = On(p) \union {g} /\ Append(p, g) \in Seq(Frames)
  BY OnAppend
<1>2. g \in Kind({"I", "RR"})
  BY DEF Kind
<1> DEFINE A == Kind({"I", "RR"})
<1> HIDE DEF A
<1>3. Count(Append(p, g), A) = Count(p, A) + (IF g \in A THEN 1 ELSE 0)
  BY CountAppend
<1>4. Count(p, A) \in Nat
  BY CountNat
<1>5. Count(Append(p, g), A) = Count(p, A) + 1 /\ Count(p, A) <= Count(p, A) + 0
  BY <1>2, <1>3, <1>4 DEF A
<1> QED BY <1>1, <1>2, <1>4, <1>5 DEF Adds, A

\* Nothing more is at most any number more.
LEMMA AddsNone ==
    ASSUME NEW p \in Seq(Frames)
    PROVE  Adds(p, p, 0) /\ Adds(p, p, 1) /\ Adds(p, p, 2)
<1>1. Count(p, Kind({"I", "RR"})) \in Nat
  BY CountNat
<1> QED BY <1>1 DEF Adds

\* What is added twice is added together.
LEMMA AddsMore ==
    ASSUME NEW p \in Seq(Frames), NEW q, NEW l, NEW j \in Nat, NEW k \in Nat,
           Adds(p, q, j), Adds(q, l, k)
    PROVE  Adds(p, l, j + k)
<1>1. /\ Count(p, Kind({"I", "RR"})) \in Nat /\ Count(q, Kind({"I", "RR"})) \in Nat
      /\ Count(l, Kind({"I", "RR"})) \in Nat
  BY CountNat DEF Adds
<1> QED BY <1>1 DEF Adds

\* The line back, with the answers still to be written, is a line.
LEMMA LineBack ==
    ASSUME NEW y \in Receivers, NEW line \in Seq(Frames)
    PROVE  line \o Answers(y) \in Seq(Frames)
<1>1. Answers(y) \in Seq(Frames)
  BY AnswersType
<1> QED BY <1>1, ConcatProperties

\* An answer more that credits keeps the line back so.
LEMMA CreditsMore ==
    ASSUME NEW y, NEW u, NEW p \in Seq(Frames), NEW q, NEW g \in Frames, q = Append(p, g),
           Credits(g.data), u.last = y.last \/ Credits(u.last.data), Crediting(y, p)
    PROVE  Crediting(u, q)
<1>1. On(q) = On(p) \union {g}
  BY OnAppend
<1> QED BY <1>1 DEF Crediting

\* The last answer again, on the line back.
LEMMA Repeats ==
    ASSUME NEW y \in Receivers, y.last # None, NEW line \in Seq(Frames)
    PROVE  LET u == QueueIrdaInformationRetransmit(y)
           IN  /\ SameLink(y, u) /\ Adds(line \o Answers(y), line \o Answers(u), 1)
               /\ Crediting(y, line \o Answers(y)) => Crediting(u, line \o Answers(u))
               /\ \A x \in Senders : InNumbers(x, y) /\ InLink(x, y, line \o Answers(y))
                                         => InLink(x, u, line \o Answers(u))
<1> DEFINE u == QueueIrdaInformationRetransmit(y)
           g == Frame("I", y.last.ns, y.receiveNext, y.last.data)
           b == line \o Answers(y)
           c == line \o Answers(u)
<1>1. /\ SameLink(y, u) /\ g \in Frames /\ g.kind = "I" /\ g.ns = y.last.ns
      /\ g.nr = y.receiveNext /\ g.data = y.last.data
      /\ c = Append(b, g)
  BY QueuesRepeat
<1>2. b \in Seq(Frames)
  BY LineBack
<1> HIDE DEF u, g, b, c
<1>3. Adds(b, c, 1)
  BY <1>1, <1>2, AddsOne
<1>4. ASSUME NEW x \in Senders, InNumbers(x, y), InLink(x, y, b) PROVE InLink(x, u, c)
  <2>1. InLink(x, y, c)
    BY <1>1, <1>2, <1>4, RepeatInStep
  <2> QED BY <1>1, <2>1, SameReceiver
<1>5. Crediting(y, b) => Crediting(u, c)
  <2> SUFFICES ASSUME Crediting(y, b) PROVE Crediting(u, c)
    OBVIOUS
  <2>1. Credits(g.data) /\ u.last = y.last
    BY <1>1 DEF Crediting, SameLink
  <2> QED BY <1>1, <1>2, <2>1, CreditsMore
<1> QED BY <1>1, <1>3, <1>4, <1>5 DEF u, b, c

\* An acknowledgement has the last answer repeated, or is answered if there was none.
LEMMA AcknowledgementTaken ==
    ASSUME NEW y \in Receivers, NEW line \in Seq(Frames), NEW nr, NEW idle \in BOOLEAN
    PROVE  LET u == HandleIrdaReceiveAck(y, nr, idle)
           IN  /\ SameLink(y, u) /\ Adds(line \o Answers(y), line \o Answers(u), 1)
               /\ nr = y.transmitNext /\ ~idle => u = y
               /\ Crediting(y, line \o Answers(y)) => Crediting(u, line \o Answers(u))
               /\ \A x \in Senders : InNumbers(x, y) /\ InLink(x, y, line \o Answers(y))
                                     /\ (idle => y.last # None)
                                         => InLink(x, u, line \o Answers(u))
<1> DEFINE u == HandleIrdaReceiveAck(y, nr, idle)
<1>0. SameLink(y, y) /\ Adds(line \o Answers(y), line \o Answers(y), 1)
  BY LineBack, AddsNone DEF SameLink
<1>1. CASE nr # y.transmitNext /\ y.last # None
  <2>1. u = QueueIrdaInformationRetransmit(y)
    BY <1>1 DEF HandleIrdaReceiveAck
  <2> HIDE DEF u
  <2> QED BY <1>1, <2>1, Repeats DEF u
<1>2. CASE ~(nr # y.transmitNext /\ y.last # None) /\ idle /\ y.last = None
  <2>1. u = SendIrdaReceiveReady(y)
    BY <1>2 DEF HandleIrdaReceiveAck
  <2>2. SameLink(y, SendIrdaReceiveReady(y))
    BY QueuesReady
  <2>3. PICK g \in Frames : g.kind = "RR" /\ Credits(g.data) /\
            line \o Answers(SendIrdaReceiveReady(y)) = Append(line \o Answers(y), g)
    BY QueuesReady
  <2>4. Adds(line \o Answers(y), line \o Answers(SendIrdaReceiveReady(y)), 1)
    BY <2>3, AddsOne, LineBack
  <2>5. Crediting(y, line \o Answers(y))
           => Crediting(SendIrdaReceiveReady(y), line \o Answers(SendIrdaReceiveReady(y)))
    BY <2>2, <2>3, LineBack, CreditsMore DEF SameLink
  <2> HIDE DEF u
  <2> QED BY <1>2, <2>1, <2>2, <2>4, <2>5 DEF u
<1>3. CASE ~(nr # y.transmitNext /\ y.last # None) /\ ~(idle /\ y.last = None)
  <2>1. u = y
    BY <1>3 DEF HandleIrdaReceiveAck
  <2> HIDE DEF u
  <2> QED BY <1>0, <2>1 DEF u
<1> QED BY <1>1, <1>2, <1>3

\* A frame that is not the one waited for adds two answers at most.
LEMMA OldFrameTaken ==
    ASSUME NEW y \in Receivers, NEW line \in Seq(Frames), NEW f \in Frames,
           f.ns # y.receiveNext
    PROVE  LET u == HandleIrdaInformationFrame(y, f)
           IN  /\ SameLink(y, u) /\ Adds(line \o Answers(y), line \o Answers(u), 2)
               /\ Crediting(y, line \o Answers(y)) => Crediting(u, line \o Answers(u))
               /\ \A x \in Senders : InNumbers(x, y) /\ InLink(x, y, line \o Answers(y))
                                     /\ y.last # None
                                         => InLink(x, u, line \o Answers(u))
<1> DEFINE v == HandleIrdaReceiveAck(y, f.nr, FALSE)
           u == HandleIrdaInformationFrame(y, f)
<1>1. /\ SameLink(y, v) /\ Adds(line \o Answers(y), line \o Answers(v), 1)
      /\ Crediting(y, line \o Answers(y)) => Crediting(v, line \o Answers(v))
      /\ \A x \in Senders : InNumbers(x, y) /\ InLink(x, y, line \o Answers(y))
                                         => InLink(x, v, line \o Answers(v))
  BY AcknowledgementTaken
<1>2. v \in Receivers /\ v.receiveNext = y.receiveNext /\ v.transmitNext = y.transmitNext
      /\ v.last = y.last
  BY <1>1 DEF SameLink
<1>3. CASE v.last # None
  <2>1. u = QueueIrdaInformationRetransmit(v)
    BY <1>2, <1>3 DEF HandleIrdaInformationFrame
  <2> DEFINE w == QueueIrdaInformationRetransmit(v)
  <2> HIDE DEF v
  <2>2. /\ SameLink(v, w) /\ Adds(line \o Answers(v), line \o Answers(w), 1)
        /\ Crediting(v, line \o Answers(v)) => Crediting(w, line \o Answers(w))
        /\ \A x \in Senders : InNumbers(x, v) /\ InLink(x, v, line \o Answers(v))
                                         => InLink(x, w, line \o Answers(w))
    BY <1>2, <1>3, Repeats
  <2> HIDE DEF w
  <2>3. SameLink(y, w)
    BY <1>1, <2>2 DEF SameLink
  <2>4. Adds(line \o Answers(y), line \o Answers(w), 1 + 1)
    BY <1>1, <2>2, LineBack, AddsMore
  <2>5. \A x : InNumbers(x, y) => InNumbers(x, v)
    BY <1>2 DEF InNumbers
  <2>6. u = w
    BY <2>1 DEF w
  <2> HIDE DEF u
  <2>7. Adds(line \o Answers(y), line \o Answers(u), 2)
    BY <2>4, <2>6
  <2> QED BY <1>1, <2>2, <2>3, <2>5, <2>6, <2>7 DEF u
<1>4. CASE v.last = None
  <2>1. u = SendIrdaReceiveReady(v)
    BY <1>2, <1>4 DEF HandleIrdaInformationFrame
  <2> DEFINE w == SendIrdaReceiveReady(v)
  <2> HIDE DEF v
  <2>2. SameLink(v, w)
    BY <1>2, QueuesReady
  <2>3. PICK g \in Frames : g.kind = "RR" /\ Credits(g.data)
                           /\ line \o Answers(w) = Append(line \o Answers(v), g)
    BY <1>2, QueuesReady
  <2> HIDE DEF w
  <2>9. Crediting(v, line \o Answers(v)) => Crediting(w, line \o Answers(w))
    BY <1>2, <2>2, <2>3, LineBack, CreditsMore DEF SameLink
  <2>4. Adds(line \o Answers(v), line \o Answers(w), 1)
    BY <1>2, <2>3, AddsOne, LineBack
  <2>5. SameLink(y, w)
    BY <1>1, <2>2 DEF SameLink
  <2>6. Adds(line \o Answers(y), line \o Answers(w), 1 + 1)
    BY <1>1, <2>4, LineBack, AddsMore
  <2>7. u = w
    BY <2>1 DEF w
  <2> HIDE DEF u
  <2>8. Adds(line \o Answers(y), line \o Answers(u), 2)
    BY <2>6, <2>7
  <2> QED BY <1>1, <1>2, <1>4, <2>5, <2>7, <2>8, <2>9 DEF u
<1> QED BY <1>3, <1>4

\* What is on a line is its first frame and what is on the rest.
LEMMA OnHead ==
    ASSUME NEW line \in Seq(Frames), line # <<>>
    PROVE  On(line) = On(Tail(line)) \union {Head(line)}
<1>1. /\ Tail(line) \in Seq(Frames) /\ Len(Tail(line)) = Len(line) - 1
      /\ \A i \in 1 .. Len(Tail(line)) : Tail(line)[i] = line[i + 1]
      /\ Head(line) = line[1] /\ Len(line) \in Nat \ {0}
  BY HeadTailProperties
<1>2. DOMAIN line = 1 .. Len(line) /\ DOMAIN Tail(line) = 1 .. Len(line) - 1
  BY <1>1
<1>3. ASSUME NEW i \in DOMAIN line PROVE line[i] \in On(Tail(line)) \union {Head(line)}
  <2>1. CASE i = 1
    BY <1>1, <2>1
  <2>2. CASE i # 1
    <3>1. i - 1 \in DOMAIN Tail(line) /\ Tail(line)[i - 1] = line[i]
      BY <1>1, <1>2, <2>2
    <3> QED BY <3>1 DEF On
  <2> QED BY <2>1, <2>2
<1> QED BY <1>3, OnTail DEF On

\* What is on two lines is on one or the other.
LEMMA OnJoin ==
    ASSUME NEW p \in Seq(Frames), NEW q \in Seq(Frames)
    PROVE  /\ On(p \o q) = On(p) \union On(q)
           /\ p \o q \in Seq(Frames)
<1> DEFINE l == p \o q
<1>1. /\ l \in Seq(Frames) /\ Len(l) = Len(p) + Len(q)
      /\ \A i \in 1 .. Len(p) + Len(q) : l[i] = IF i <= Len(p) THEN p[i] ELSE q[i - Len(p)]
  BY ConcatProperties
<1> HIDE DEF l
<1>2. /\ DOMAIN l = 1 .. Len(p) + Len(q) /\ DOMAIN p = 1 .. Len(p) /\ DOMAIN q = 1 .. Len(q)
      /\ Len(p) \in Nat /\ Len(q) \in Nat
  BY <1>1
<1>3. ASSUME NEW i \in DOMAIN l PROVE l[i] \in On(p) \union On(q)
  <2>1. CASE i <= Len(p)
    BY <1>1, <1>2, <2>1 DEF On
  <2>2. CASE ~(i <= Len(p))
    <3>1. i - Len(p) \in DOMAIN q /\ l[i] = q[i - Len(p)]
      BY <1>1, <1>2, <2>2
    <3> QED BY <3>1 DEF On
  <2> QED BY <2>1, <2>2
<1>4. ASSUME NEW i \in DOMAIN p PROVE p[i] \in On(l)
  <2>1. i \in DOMAIN l /\ l[i] = p[i]
    BY <1>1, <1>2
  <2> QED BY <2>1 DEF On
<1>5. ASSUME NEW i \in DOMAIN q PROVE q[i] \in On(l)
  <2>1. i + Len(p) \in DOMAIN l /\ l[i + Len(p)] = q[i]
    BY <1>1, <1>2
  <2> QED BY <2>1 DEF On
<1> QED BY <1>1, <1>3, <1>4, <1>5 DEF On, l

----------------------------------------------------------------------------
(* The request that is waited for *)

\* What its message is looked at with.
Turned(y) == [y EXCEPT !.receiveNext = NextSeq(y.receiveNext)]

\* The receiver that has taken a request in turn waits for the next number.
LEMMA TurnedType ==
    ASSUME NEW y \in Receivers
    PROVE  /\ Turned(y) \in Receivers /\ Turned(y).connected = y.connected
           /\ Turned(y).receiveNext = NextSeq(y.receiveNext)
           /\ Turned(y).transmitNext = y.transmitNext /\ Turned(y).last = y.last
           /\ Turned(y).body = y.body /\ Turned(y).saved = y.saved
           /\ Answers(Turned(y)) = Answers(y)
<1> DEFINE z == Turned(y)
<1>1. NextSeq(y.receiveNext) \in Nat
  BY NextNat DEF Receivers
<1>2. z \in Receivers
  BY <1>1, Zenon DEF Receivers, Turned
<1>3. /\ z.connected = y.connected /\ z.receiveNext = NextSeq(y.receiveNext)
      /\ z.transmitNext = y.transmitNext /\ z.last = y.last /\ z.slot = y.slot
      /\ z.queue = y.queue /\ z.body = y.body /\ z.saved = y.saved
  BY DEF Receivers, Turned
<1> HIDE DEF z
<1>4. Answers(z) = Answers(y)
  BY <1>3 DEF Answers
<1> QED BY <1>2, <1>3, <1>4 DEF z

\* A request with the number that is waited for is looked at by
\* HandleIrdaInformationPayload.
LEMMA RequestLooked ==
    ASSUME NEW y \in Receivers, NEW f \in Frames, f.ns = y.receiveNext, f.nr = y.transmitNext
    PROVE  HandleIrdaInformationFrame(y, f) = HandleIrdaInformationPayload(Turned(y), f.data)
<1>1. HandleIrdaReceiveAck(y, f.nr, FALSE) = y
  BY DEF HandleIrdaReceiveAck
<1> QED BY <1>1 DEF HandleIrdaInformationFrame, Turned

\* Whatever the message, there is one answer, and only the end of a body is saved.
Looked(z, m, u, line) ==
    /\ u \in Receivers /\ u.connected = z.connected /\ u.receiveNext = z.receiveNext
    /\ u.transmitNext \in {z.transmitNext, NextSeq(z.transmitNext)}
    /\ Adds(line \o Answers(z), line \o Answers(u), 1)
    /\ Crediting(z, line \o Answers(z)) => Crediting(u, line \o Answers(u))
    /\ \/ u.saved = z.saved
       \/ m.kind = "PutBody" /\ m.final /\ u.saved = Append(z.saved, z.body \o m.units)

\* A receiver that answers and saves at most the object of a last part has looked at the
\* request.
LEMMA LookedWith ==
    ASSUME NEW z \in Receivers, NEW w \in Receivers, NEW line \in Seq(Frames), NEW m,
           NEW d \in Messages, Credits(d),
           w.connected = z.connected, w.receiveNext = z.receiveNext,
           w.transmitNext = z.transmitNext, w.slot = z.slot, w.queue = z.queue,
           \/ w.saved = z.saved
           \/ m.kind = "PutBody" /\ m.final /\ w.saved = Append(z.saved, z.body \o m.units)
    PROVE  Looked(z, m, SendIrdaInformationResponse(w, d), line)
<1> DEFINE u == SendIrdaInformationResponse(w, d)
           g == Frame("I", w.transmitNext, w.receiveNext, d)
<1>1. /\ u \in Receivers /\ u.connected = w.connected /\ u.receiveNext = w.receiveNext
      /\ u.transmitNext = NextSeq(w.transmitNext) /\ u.body = w.body
      /\ u.saved = w.saved /\ g \in Frames /\ u.last = [data |-> d, ns |-> w.transmitNext]
      /\ line \o Answers(u) = Append(line \o Answers(w), g)
  BY Responds
<1>2. Answers(w) = Answers(z) /\ line \o Answers(z) \in Seq(Frames)
  BY LineBack DEF Answers
<1>3. g.kind = "I" /\ g.data = d
  BY DEF Frame
<1> HIDE DEF u, g
<1>4. Adds(line \o Answers(z), line \o Answers(u), 1)
  BY <1>1, <1>2, <1>3, AddsOne
<1>5. Crediting(z, line \o Answers(z)) => Crediting(u, line \o Answers(u))
  <2>1. Credits(u.last.data) /\ Credits(g.data)
    BY <1>1, <1>3
  <2> QED BY <1>1, <1>2, <2>1, CreditsMore
<1> QED BY <1>1, <1>4, <1>5 DEF Looked, u

\* HandleIrdaInformationPayload answers every message with one frame at most, and saves only
\* at the last part of a body, what it holds with that part.
LEMMA LooksAtAny ==
    ASSUME NEW z \in Receivers, NEW m \in Messages, NEW line \in Seq(Frames)
    PROVE  Looked(z, m, HandleIrdaInformationPayload(z, m), line)
<1> DEFINE u == HandleIrdaInformationPayload(z, m)
<1>0. m.kind \in MessageKinds /\ m.final \in BOOLEAN /\ m.obex \in BOOLEAN
      /\ m.units \in Seq(Parts) /\ z.body \in Seq(Parts) /\ <<>> \in Seq(Parts)
      /\ z.saved \in Seq(Seq(Parts))
  BY DEF Messages, Receivers
<1>1. CASE m.kind = "LmpConnect"
  <2> DEFINE d == [Message("LmpConfirm") EXCEPT !.obex = m.obex]
  <2>1. u = SendIrdaInformationResponse(z, d)
    BY <1>1 DEF HandleIrdaInformationPayload
  <2>2. d \in Messages /\ Credits(d)
    <3>1. Message("LmpConfirm") \in Messages /\ Message("LmpConfirm").kind = "LmpConfirm"
      BY MessageType DEF MessageKinds
    <3>2. d \in Messages
      BY <1>0, <3>1, Zenon DEF Messages
    <3>3. d.kind = "LmpConfirm"
      BY <3>1 DEF Messages
    <3> QED BY <3>2, <3>3 DEF Credits
  <2> HIDE DEF u, d
  <2> QED BY <2>1, <2>2, LookedWith DEF u
<1>2. CASE m.kind = "IasQuery"
  <2>1. u = SendIrdaInformationResponse(z, Message("IasLsap"))
    BY <1>2 DEF HandleIrdaInformationPayload
  <2>2. Message("IasLsap") \in Messages /\ Credits(Message("IasLsap"))
    BY MessageType DEF MessageKinds, Credits
  <2> HIDE DEF u
  <2> QED BY <2>1, <2>2, LookedWith DEF u
<1>3. CASE m.kind \in {"ObexConnect", "ObexDisconnect"}
  <2> DEFINE w == [z EXCEPT !.body = <<>>]
  <2>1. u = SendIrdaInformationResponse(w, ToObex("ObexOk"))
    BY <1>3 DEF HandleIrdaInformationPayload
  <2>2. w \in Receivers
    BY <1>0, Zenon DEF Receivers
  <2>3. /\ w.connected = z.connected /\ w.receiveNext = z.receiveNext
        /\ w.transmitNext = z.transmitNext /\ w.slot = z.slot /\ w.queue = z.queue
        /\ w.saved = z.saved
    BY DEF Receivers
  <2>4. ToObex("ObexOk") \in Messages /\ Credits(ToObex("ObexOk"))
    BY MessageType DEF MessageKinds, Credits
  <2> HIDE DEF u, w
  <2> QED BY <2>1, <2>2, <2>3, <2>4, LookedWith DEF u
<1>4. CASE m.kind \in {"PutMeta", "PutBody"}
  <2> DEFINE w == [z EXCEPT !.body = z.body \o m.units]
             v == [w EXCEPT !.saved = Append(w.saved, w.body)]
  <2>0. Received(z, m) = w
    BY DEF Received
  <2>1. z.body \o m.units \in Seq(Parts)
    BY <1>0, ConcatProperties
  <2>2. w \in Receivers
    BY <2>1, Zenon DEF Receivers
  <2>3. /\ w.connected = z.connected /\ w.receiveNext = z.receiveNext
        /\ w.transmitNext = z.transmitNext /\ w.slot = z.slot /\ w.queue = z.queue
        /\ w.body = z.body \o m.units /\ w.saved = z.saved
    BY DEF Receivers
  <2> HIDE DEF w
  <2>4. CASE ~(m.kind = "PutBody" /\ m.final)
    <3>1. u = SendIrdaInformationResponse(w, ToObex("ObexContinue"))
      BY <1>4, <2>0, <2>4 DEF HandleIrdaInformationPayload
    <3>2. ToObex("ObexContinue") \in Messages /\ Credits(ToObex("ObexContinue"))
      BY MessageType DEF MessageKinds, Credits
    <3> HIDE DEF u
    <3> QED BY <2>2, <2>3, <3>1, <3>2, LookedWith DEF u
  <2>5. CASE m.kind = "PutBody" /\ m.final
    <3>1. u = SendIrdaInformationResponse(v, ToObex("ObexOk"))
      BY <2>0, <2>5 DEF HandleIrdaInformationPayload, SaveIrdaObexObject
    <3>2. Append(w.saved, w.body) \in Seq(Seq(Parts))
      BY <2>2 DEF Receivers
    <3>3. v \in Receivers
      BY <2>2, <3>2, Zenon DEF Receivers
    <3>4. /\ v.connected = z.connected /\ v.receiveNext = z.receiveNext
          /\ v.transmitNext = z.transmitNext /\ v.slot = z.slot /\ v.queue = z.queue
          /\ v.saved = Append(z.saved, z.body \o m.units)
      BY <2>2, <2>3 DEF Receivers
    <3>5. ToObex("ObexOk") \in Messages /\ Credits(ToObex("ObexOk"))
      BY MessageType DEF MessageKinds, Credits
    <3> HIDE DEF u, v
    <3> QED BY <2>5, <3>1, <3>3, <3>4, <3>5, LookedWith DEF u
  <2> QED BY <2>4, <2>5
<1>5. CASE m.kind \notin {"LmpConnect", "IasQuery", "ObexConnect", "ObexDisconnect", "PutMeta",
                          "PutBody"}
  <2>1. u = SendIrdaReceiveReady(z)
    BY <1>5 DEF HandleIrdaInformationPayload
  <2> DEFINE w == SendIrdaReceiveReady(z)
  <2>2. SameLink(z, w)
    BY QueuesReady
  <2>3. PICK g \in Frames : g.kind = "RR" /\ Credits(g.data)
                           /\ line \o Answers(w) = Append(line \o Answers(z), g)
    BY QueuesReady
  <2> HIDE DEF w
  <2>6. Crediting(z, line \o Answers(z)) => Crediting(w, line \o Answers(w))
    BY <2>2, <2>3, LineBack, CreditsMore DEF SameLink
  <2>4. Adds(line \o Answers(z), line \o Answers(w), 1)
    BY <2>3, AddsOne, LineBack
  <2>5. u = w
    BY <2>1 DEF w
  <2> HIDE DEF u
  <2> QED BY <2>2, <2>4, <2>5, <2>6 DEF u, Looked, SameLink
<1> QED BY <1>1, <1>2, <1>3, <1>4, <1>5

\* A round of discovery that nobody answers changes nothing that matters.
LEMMA XidTaken ==
    ASSUME NEW y \in Receivers, NEW f \in Frames, f.kind = "Xid", f.ns # AnswerSlot
    PROVE  LET u == HandleIrdaFrame(y, f) IN SameLink(y, u) /\ Answers(u) = Answers(y)
<1> DEFINE u == HandleIrdaFrame(y, f)
           w == [y EXCEPT !.responded = FALSE]
<1>1. u = w \/ u = y
  BY DEF HandleIrdaFrame, HandleIrdaXidFrame
<1>2. SameLink(y, y)
  BY DEF SameLink
<1>3. w \in Receivers
  BY Zenon DEF Receivers
<1>4. /\ w.connected = y.connected /\ w.receiveNext = y.receiveNext
      /\ w.transmitNext = y.transmitNext /\ w.last = y.last /\ w.slot = y.slot
      /\ w.queue = y.queue /\ w.body = y.body /\ w.saved = y.saved
  BY DEF Receivers
<1> HIDE DEF w, u
<1>5. SameLink(y, w) /\ Answers(w) = Answers(y)
  BY <1>3, <1>4 DEF SameLink, Answers
<1> QED BY <1>1, <1>2, <1>5 DEF u

\* The most a frame costs.
Cost(f, y) == IF f.kind = "I" THEN (IF f.ns = y.receiveNext THEN 1 ELSE 2)
              ELSE IF f.kind = "RR" THEN 1 ELSE 0

\* The receiver in a link, after the next frame.
LinkHeard(x, y, t, v, line, f) ==
    /\ v \in Receivers /\ InLink(t, v, line \o Answers(v)) /\ v.connected
    /\ v.transmitNext \in {y.transmitNext, NextSeq(y.transmitNext)}
    /\ IF f \in Info(y.receiveNext)
       THEN /\ v.receiveNext = NextSeq(y.receiveNext)
            /\ On(t.serial) \intersect Info(v.receiveNext) = {}
       ELSE v.receiveNext = y.receiveNext
    /\ Adds(line \o Answers(y), line \o Answers(v), Cost(f, y))
    /\ \/ v.saved = y.saved /\ (HasSaved(t, v) <=> HasSaved(x, y))
       \/ /\ v.saved = Append(y.saved, UnitsOf(x.file)) /\ Whole(UnitsOf(x.file), x.file)
          /\ ~HasSaved(x, y) /\ HasSaved(t, v)

\* Whether the file was saved depends on the sender's place and the numbers only.
LEMMA HasSavedStays ==
    ASSUME NEW x, NEW t, NEW y, NEW v, SameSender(x, t), SameLink(y, v)
    PROVE  HasSaved(t, v) <=> HasSaved(x, y)
  BY DEF HasSaved, SameSender, SamePlace, SameLink, Answering

\* Frames that change nothing in the receiver but its answers.
LEMMA LinkHearsOther ==
    ASSUME NEW x \in Senders, NEW y \in Receivers, NEW line \in Seq(Frames), x.serial # <<>>,
           InNumbers(x, y), InLink(x, y, line \o Answers(y)),
           NEW t, SameSender(x, t), t.serial = Tail(x.serial),
           Head(x.serial) \notin Info(y.receiveNext)
    PROVE  LinkHeard(x, y, t, HandleIrdaFrame(y, Head(x.serial)), line, Head(x.serial))
<1> DEFINE f == Head(x.serial)
           v == HandleIrdaFrame(y, f)
           back == line \o Answers(y)
<1>1. f \in On(x.serial) /\ f \in Frames
  BY OnTail DEF Senders
<1>2. f.kind \in {"Xid", "I", "RR"} /\ (f.kind = "Xid" => f.ns # AnswerSlot)
  <2>1. f \in Kind({"Xid", "I", "RR"}) \ AnswerXids
    BY <1>1 DEF InLink, SenderInLink
  <2> QED BY <2>1 DEF Kind, AnswerXids
<1>3. f.kind = "I" => f \in Before(y.receiveNext) /\ f.ns # y.receiveNext
  <2> HIDE DEF f
  <2>1. f.kind = "I" => f \in Before(y.receiveNext) \/ f \in Info(y.receiveNext)
    BY <1>1 DEF InLink, SenderInLink, RequestsInStep, InStep
  <2> QED BY <1>1, <2>1 DEF Info, f
<1>4. f.kind \in {"I", "RR"} => y.last # None
  <2>1. f.kind = "RR" => f \in Kind({"RR"})
    BY <1>1 DEF Kind
  <2>2. y.last = None => On(x.serial) \intersect (Kind({"RR"}) \union Before(y.receiveNext)) = {}
    BY DEF InLink, ReceiverInLink
  <2> QED BY <1>1, <1>3, <2>1, <2>2
<1> HIDE DEF f
<1>5. y.connected /\ back \in Seq(Frames)
  BY LineBack DEF InLink, ReceiverInLink
<1>6. SameLink(y, v) /\ Adds(back, line \o Answers(v), Cost(f, y))
      /\ InLink(x, v, line \o Answers(v))
  <2>1. CASE f.kind = "Xid"
    <3>1. SameLink(y, v) /\ Answers(v) = Answers(y)
      BY <1>1, <1>2, <2>1, XidTaken
    <3>2. Cost(f, y) = 0
      BY <2>1 DEF Cost
    <3> HIDE DEF v
    <3> QED BY <1>5, <3>1, <3>2, AddsNone, SameReceiver
  <2>2. CASE f.kind = "RR"
    <3>1. v = HandleIrdaReceiveAck(y, f.nr, TRUE)
      BY <1>5, <2>2 DEF HandleIrdaFrame
    <3>2. Cost(f, y) = 1
      BY <2>2 DEF Cost
    <3> HIDE DEF v
    <3> QED BY <1>4, <2>2, <3>1, <3>2, AcknowledgementTaken
  <2>3. CASE f.kind = "I"
    <3>1. v = HandleIrdaInformationFrame(y, f)
      BY <1>5, <2>3 DEF HandleIrdaFrame
    <3>2. Cost(f, y) = 2
      BY <1>3, <2>3 DEF Cost
    <3> HIDE DEF v
    <3> QED BY <1>1, <1>3, <1>4, <2>3, <3>1, <3>2, OldFrameTaken
  <2> QED BY <1>2, <2>1, <2>2, <2>3
<1> HIDE DEF v
<1>7. v \in Receivers /\ v.connected = y.connected /\ v.receiveNext = y.receiveNext
      /\ v.transmitNext = y.transmitNext /\ v.saved = y.saved
  BY <1>6 DEF SameLink
<1>8. line \o Answers(v) \in Seq(Frames)
  BY <1>7, LineBack
<1>9. InLink(t, v, line \o Answers(v))
  BY <1>6, <1>7, <1>8, LineLosesRequest
<1>10. HasSaved(t, v) <=> HasSaved(x, y)
  BY <1>6, HasSavedStays
<1> QED BY <1>5, <1>6, <1>7, <1>9, <1>10 DEF LinkHeard, v, f

\* The request that is waited for.
LEMMA LinkHearsRequest ==
    ASSUME NEW x \in Senders, NEW y \in Receivers, NEW line \in Seq(Frames), x.serial # <<>>,
           x.file \in Files, InNumbers(x, y), InLink(x, y, line \o Answers(y)),
           NEW t, SameSender(x, t), t.serial = Tail(x.serial),
           Head(x.serial) \in Info(y.receiveNext)
    PROVE  LinkHeard(x, y, t, HandleIrdaFrame(y, Head(x.serial)), line, Head(x.serial))
<1> DEFINE f == Head(x.serial)
           v == HandleIrdaFrame(y, f)
           back == line \o Answers(y)
           z == Turned(y)
<1>1. f \in On(x.serial) /\ f \in Frames /\ x.serial \in Seq(Frames)
  BY OnTail DEF Senders
<1>2. f.kind = "I" /\ f.ns = y.receiveNext /\ f.data \in Messages
  BY <1>1 DEF Info, Frames
<1>3. /\ f.nr = y.transmitNext /\ Asking(x, y) /\ Asked(x, y, f.data) /\ y.connected
      /\ x.state \in LinkStates
  BY <1>1 DEF InLink, SenderInLink, RequestsInStep, ReceiverInLink
<1>4. On(t.serial) \intersect Info(NextSeq(y.receiveNext)) = {}
  BY <1>1, InStepNext DEF InNumbers, InLink, SenderInLink, RequestsInStep
<1> HIDE DEF f
<1>5. v = HandleIrdaInformationPayload(z, f.data)
  <2>1. v = HandleIrdaInformationFrame(y, f)
    BY <1>2, <1>3 DEF HandleIrdaFrame
  <2> HIDE DEF v
  <2> QED BY <1>1, <1>2, <1>3, <2>1, RequestLooked
<1>6. /\ z \in Receivers /\ z.connected = y.connected /\ z.receiveNext = NextSeq(y.receiveNext)
      /\ z.transmitNext = y.transmitNext /\ z.body = y.body /\ z.saved = y.saved
      /\ Answers(z) = Answers(y)
  BY TurnedType
<1> HIDE DEF z, v
<1>7. AnswersTo(x, y, z, v, line)
  BY <1>2, <1>3, <1>5, <1>6, LooksAtRequest
<1>8. PICK d \in Messages :
        /\ v \in Receivers /\ v.connected = z.connected /\ v.receiveNext = z.receiveNext
        /\ v.transmitNext = NextSeq(z.transmitNext)
        /\ v.last = [data |-> d, ns |-> z.transmitNext] /\ Answered(x, v, d)
        /\ v.saved = IF x.state = "ObexPutBody" /\ x.offset = Units[x.file]
                     THEN Append(y.saved, UnitsOf(x.file)) ELSE y.saved
        /\ Frame("I", z.transmitNext, z.receiveNext, d) \in Frames
        /\ line \o Answers(v) = Append(line \o Answers(z), Frame("I", z.transmitNext, z.receiveNext, d))
  BY <1>7 DEF AnswersTo
<1> DEFINE g == Frame("I", y.transmitNext, v.receiveNext, d)
<1>9. back \in Seq(Frames) /\ line \o Answers(v) = Append(back, g) /\ g \in Frames /\ g.kind = "I"
  <2>1. g.kind = "I"
    BY DEF Frame
  <2> HIDE DEF g
  <2> QED BY <1>6, <1>8, <2>1, LineBack DEF g
<1>10. Answered(t, v, d)
  BY <1>8, PhaseStays DEF SameSender, SamePlace
<1> HIDE DEF back
<1>11. InLink(t, v, Append(back, g))
  <2>1. InLink(x, y, back)
    BY DEF back
  <2>2. /\ v.connected /\ v.receiveNext = NextSeq(y.receiveNext)
        /\ v.transmitNext = NextSeq(y.transmitNext) /\ v.last = [data |-> d, ns |-> y.transmitNext]
    BY <1>3, <1>6, <1>8
  <2> QED BY <1>8, <1>9, <1>10, <2>1, <2>2, TakesRequest DEF f
<1> HIDE DEF g
<1>12. Adds(back, line \o Answers(v), Cost(f, y))
  <2>1. Cost(f, y) = 1
    BY <1>2 DEF Cost
  <2> QED BY <1>9, <2>1, AddsOne
<1>13. Answering(t, v) /\ ~Answering(x, y)
  <2>1. ~Answering(x, y)
    BY <1>3, OneTurn
  <2>2. v.receiveNext = t.transmitNext /\ t.transmitNext = NextSeq(t.receiveNext)
    BY <1>3, <1>6, <1>8 DEF Asking, SameSender
  <2> QED BY <2>1, <2>2 DEF Answering
<1>14. t.state = x.state /\ t.file = x.file /\ t.offset = x.offset
  BY DEF SameSender, SamePlace
<1>15. CASE x.state = "ObexPutBody" /\ x.offset = Units[x.file]
  <2>1. ~HasSaved(x, y) /\ HasSaved(t, v)
    BY <1>13, <1>14, <1>15 DEF HasSaved
  <2>2. v.saved = Append(y.saved, UnitsOf(x.file))
    BY <1>8, <1>15
  <2>3. Whole(UnitsOf(x.file), x.file)
    BY <1>15 DEF Whole, InLink, SenderInLink, SenderPlace
  <2>4. InLink(t, v, line \o Answers(v))
    BY <1>9, <1>11
  <2> QED BY <1>3, <1>4, <1>6, <1>8, <1>12, <2>1, <2>2, <2>3, <2>4 DEF LinkHeard, v, f, back
<1>16. CASE ~(x.state = "ObexPutBody" /\ x.offset = Units[x.file])
  <2>1. HasSaved(t, v) <=> HasSaved(x, y)
    BY <1>13, <1>14, <1>16 DEF HasSaved
  <2>2. v.saved = y.saved
    BY <1>8, <1>16
  <2>4. InLink(t, v, line \o Answers(v))
    BY <1>9, <1>11
  <2> QED BY <1>3, <1>4, <1>6, <1>8, <1>12, <2>1, <2>2, <2>4 DEF LinkHeard, v, f, back
<1> QED BY <1>15, <1>16

----------------------------------------------------------------------------
(* What is under way, and what is left to count *)

\* What a frame weighs.
LEMMA WeightTail ==
    ASSUME NEW line \in Seq(Frames), line # <<>>
    PROVE  /\ Count(line, Kind({"I"})) = Count(Tail(line), Kind({"I"}))
                                             + (IF Head(line).kind = "I" THEN 1 ELSE 0)
           /\ Count(line, Kind({"RR"})) = Count(Tail(line), Kind({"RR"}))
                                             + (IF Head(line).kind = "RR" THEN 1 ELSE 0)
           /\ Count(line, Kind({"I", "RR"})) = Count(Tail(line), Kind({"I", "RR"}))
                                             + (IF Head(line).kind \in {"I", "RR"} THEN 1 ELSE 0)
<1> DEFINE P == Kind({"I"})
           Q == Kind({"RR"})
           R == Kind({"I", "RR"})
           f == Head(line)
<1>1. f \in Frames
  BY OnTail
<1>2. /\ f \in P <=> f.kind = "I"
      /\ f \in Q <=> f.kind = "RR"
      /\ f \in R <=> f.kind \in {"I", "RR"}
  BY <1>1 DEF Kind
<1> HIDE DEF P, Q, R, f
<1>3. /\ Count(line, P) = Count(Tail(line), P) + (IF f \in P THEN 1 ELSE 0)
      /\ Count(line, Q) = Count(Tail(line), Q) + (IF f \in Q THEN 1 ELSE 0)
      /\ Count(line, R) = Count(Tail(line), R) + (IF f \in R THEN 1 ELSE 0)
  BY CountTail DEF f
<1> QED BY <1>2, <1>3 DEF P, Q, R, f

\* How a frame more changes what a line counts.
LEMMA WeightAppend ==
    ASSUME NEW line \in Seq(Frames), NEW f \in Frames
    PROVE  /\ Count(Append(line, f), Kind({"I"})) = Count(line, Kind({"I"}))
                                             + (IF f.kind = "I" THEN 1 ELSE 0)
           /\ Count(Append(line, f), Kind({"RR"})) = Count(line, Kind({"RR"}))
                                             + (IF f.kind = "RR" THEN 1 ELSE 0)
           /\ Count(Append(line, f), Kind({"I", "RR"})) = Count(line, Kind({"I", "RR"}))
                                             + (IF f.kind \in {"I", "RR"} THEN 1 ELSE 0)
<1> DEFINE P == Kind({"I"})
           Q == Kind({"RR"})
           R == Kind({"I", "RR"})
<1>2. /\ f \in P <=> f.kind = "I"
      /\ f \in Q <=> f.kind = "RR"
      /\ f \in R <=> f.kind \in {"I", "RR"}
  BY DEF Kind
<1> HIDE DEF P, Q, R
<1>3. /\ Count(Append(line, f), P) = Count(line, P) + (IF f \in P THEN 1 ELSE 0)
      /\ Count(Append(line, f), Q) = Count(line, Q) + (IF f \in Q THEN 1 ELSE 0)
      /\ Count(Append(line, f), R) = Count(line, R) + (IF f \in R THEN 1 ELSE 0)
  BY CountAppend
<1> QED BY <1>2, <1>3 DEF P, Q, R

\* What a line counts is a number.
LEMMA WeightNat ==
    ASSUME NEW line \in Seq(Frames)
    PROVE  /\ Count(line, Kind({"I"})) \in Nat /\ Count(line, Kind({"RR"})) \in Nat
           /\ Count(line, Kind({"I", "RR"})) \in Nat
  BY CountNat

\* A frame the receiver takes pays for its answers: an information frame for two, or for
\* one if it is the one waited for, an acknowledgement for one.
LEMMA ReceiverPays ==
    ASSUME NEW x \in Senders, NEW t \in Senders, NEW y, NEW v, x.serial # <<>>,
           t.serial = Tail(x.serial), t.pending = x.pending,
           NEW back \in Seq(Frames), NEW new \in Seq(Frames), NEW c \in Nat,
           Count(new, Kind({"I", "RR"})) <= Count(back, Kind({"I", "RR"})) + c,
           \/ Head(x.serial).kind = "I" /\ c <= 1
           \/ /\ Waiting(x, y) => Waiting(t, v)
              /\ c <= (IF Head(x.serial).kind = "I" THEN 2
                       ELSE IF Head(x.serial).kind = "RR" THEN 1 ELSE 0)
    PROVE  LoadOf(t, v, new) <= LoadOf(x, y, back)
<1> DEFINE A == Count(x.serial, Kind({"I"}))
           B == Count(x.serial, Kind({"RR"}))
           C == Count(back, Kind({"I", "RR"}))
           D == Count(new, Kind({"I", "RR"}))
           E == Count(t.serial, Kind({"I"}))
           F == Count(t.serial, Kind({"RR"}))
           i == IF Head(x.serial).kind = "I" THEN 1 ELSE 0
           j == IF Head(x.serial).kind = "RR" THEN 1 ELSE 0
           p == IF x.pending THEN 1 ELSE 0
           w == IF Waiting(x, y) THEN 1 ELSE 0
           u == IF Waiting(t, v) THEN 1 ELSE 0
<1>1. x.serial \in Seq(Frames) /\ t.serial \in Seq(Frames)
  BY DEF Senders
<1>2. A = E + i /\ B = F + j
  BY <1>1, WeightTail
<1>3. A \in Nat /\ B \in Nat /\ C \in Nat /\ D \in Nat /\ E \in Nat /\ F \in Nat
  BY <1>1, WeightNat
<1>4. LoadOf(x, y, back) = 2 * A + B + C + p - w /\ LoadOf(t, v, new) = 2 * E + F + D + p - u
  BY DEF LoadOf
<1>5. p \in Nat /\ w \in {0, 1} /\ u \in {0, 1} /\ i \in {0, 1} /\ j \in {0, 1}
  OBVIOUS
<1>6. \/ i = 1 /\ D <= C + 1
      \/ w <= u /\ D <= C + 2 * i + j
  <2>0. D <= C + c
    OBVIOUS
  <2>1. CASE Head(x.serial).kind = "I" /\ c <= 1
    <3>1. i = 1
      BY <2>1
    <3> HIDE DEF C, D, i
    <3> QED BY <1>3, <2>0, <2>1, <3>1
  <2>2. CASE ~(Head(x.serial).kind = "I" /\ c <= 1)
    <3>1. w <= u
      BY <2>2
    <3>2. c <= 2 * i + j
      BY <2>2
    <3> HIDE DEF C, D, i, j, w, u
    <3> QED BY <1>3, <1>5, <2>0, <3>1, <3>2
  <2> QED BY <2>1, <2>2
<1> HIDE DEF A, B, C, D, E, F, i, j, p, w, u
<1> QED BY <1>2, <1>3, <1>4, <1>5, <1>6

----------------------------------------------------------------------------
(* The receiver outside a link *)

\* Frames that are lost or taken without effect keep what a link left behind.
LEMMA LeftoverKept ==
    ASSUME NEW x \in Senders, NEW y \in Receivers, NEW t, NEW v, NEW back, NEW new, NEW n,
           Leftover(x, y, back, n), SameSender(x, t),
           \/ t.serial = x.serial
           \/ x.serial # <<>> /\ t.serial = Tail(x.serial),
           SameLink(y, v), On(new) \subseteq Kind({"I", "RR", "Ua"})
    PROVE  Leftover(t, v, new, n)
<1>1. x.serial \in Seq(Frames)
  BY DEF Senders
<1>2. On(t.serial) \subseteq On(x.serial)
      /\ (RequestsInStep(x, y) => InStep(t.serial, y.receiveNext))
  BY <1>1, OnTail, InStepTail DEF RequestsInStep
<1>3. /\ t.state = x.state /\ t.file = x.file /\ v.connected = y.connected
      /\ v.receiveNext = y.receiveNext /\ v.transmitNext = y.transmitNext /\ v.body = y.body
      /\ v.saved = y.saved
  BY DEF SameSender, SamePlace, SameLink
<1>4. \A g : SavedTimes(v, g) = SavedTimes(y, g)
  BY <1>3 DEF SavedTimes
<1>5. t.state \in {"Discover", "Idle"} /\ On(t.serial) \subseteq Kind({"Xid", "I", "RR", "Disc"}) \ AnswerXids
  BY <1>2, <1>3 DEF Leftover
<1>6. ASSUME v.connected
      PROVE  /\ RequestsInStep(t, v)
             /\ \A f \in On(t.serial) \cap Info(v.receiveNext) :
               /\ On(t.serial) \cap Kind({"Disc"}) = {}
               /\ f.data.kind = "PutBody" /\ f.data.final =>
                     \E g \in Files : /\ Whole(v.body \o f.data.units, g)
                                      /\ SavedTimes(v, g) + (IF t.file = g THEN 1 ELSE 0) < n[g]
  <2>1. /\ RequestsInStep(x, y)
        /\ \A f \in On(x.serial) \cap Info(y.receiveNext) :
               /\ On(x.serial) \cap Kind({"Disc"}) = {}
               /\ f.data.kind = "PutBody" /\ f.data.final =>
                     \E g \in Files : /\ Whole(y.body \o f.data.units, g)
                                      /\ SavedTimes(y, g) + (IF x.file = g THEN 1 ELSE 0) < n[g]
    BY <1>3, <1>6 DEF Leftover
  <2>2. RequestsInStep(t, v)
    BY <1>2, <1>3, <2>1 DEF RequestsInStep
  <2> QED BY <1>2, <1>3, <1>4, <2>1, <2>2
<1> QED BY <1>5, <1>6 DEF Leftover

\* What is saved by a frame left behind is a whole file that is not yet saved as often.
SavesNone(y, v) == v.saved = y.saved
SavesOne(x, y, v, n) ==
    \E g \in Files, o \in Seq(Parts) :
        /\ Whole(o, g) /\ v.saved = Append(y.saved, o)
        /\ SavedTimes(y, g) + (IF x.file = g THEN 1 ELSE 0) < n[g]

LeftoverHeard(x, y, t, v, back, new, n) ==
    /\ v \in Receivers /\ new \in Seq(Frames) /\ InNumbers(t, v)
    /\ Leftover(t, v, new, n) /\ LoadOf(t, v, new) <= LoadOf(x, y, back)
    /\ SavesNone(y, v) \/ SavesOne(x, y, v, n)

\* The numbers stay when the places do.
LEMMA SameNumbers ==
    ASSUME NEW x, NEW y, NEW t, NEW v, InNumbers(x, y), SameSender(x, t), SameLink(y, v)
    PROVE  InNumbers(t, v)
  BY DEF InNumbers, SameSender, SameLink

\* The answer to a disconnect goes ahead of what is queued.
LEMMA EndAnswered ==
    ASSUME NEW p \in Seq(Frames), NEW q \in Seq(Frames)
    PROVE  LET l == Append(p, Control("Ua")) \o q
           IN  /\ l \in Seq(Frames) /\ On(l) = On(p) \union On(q) \union {Control("Ua")}
               /\ Count(l, Kind({"I", "RR"})) = Count(p \o q, Kind({"I", "RR"}))
<1> DEFINE f == Control("Ua")
           A == Kind({"I", "RR"})
           a == Append(p, f)
<1>1. f \in Frames /\ f.kind = "Ua"
  BY ControlType DEF FrameKinds
<1>2. f \notin A
  BY <1>1 DEF Kind
<1> HIDE DEF f, A
<1>3. a \in Seq(Frames) /\ On(a) = On(p) \union {f} /\ Count(a, A) = Count(p, A)
  <2>1. a \in Seq(Frames) /\ On(a) = On(p) \union {f}
    BY <1>1, OnAppend
  <2>2. Count(a, A) = Count(p, A) + (IF f \in A THEN 1 ELSE 0) /\ Count(p, A) \in Nat
    BY <1>1, CountAppend, CountNat
  <2> QED BY <1>2, <2>1, <2>2
<1> HIDE DEF a
<1>4. On(a \o q) = On(a) \union On(q) /\ a \o q \in Seq(Frames)
  BY <1>3, OnJoin
<1>5. Count(a \o q, A) = Count(a, A) + Count(q, A) /\ Count(p \o q, A) = Count(p, A) + Count(q, A)
  BY <1>3, CountJoin
<1> QED BY <1>3, <1>4, <1>5 DEF a, f, A

\* A receiver that is not connected only answers the end of a link and discovery.
LEMMA LeftoverHearsNone ==
    ASSUME NEW x \in Senders, NEW y \in Receivers, NEW line \in Seq(Frames), x.serial # <<>>,
           NEW n, InNumbers(x, y), Leftover(x, y, line \o Answers(y), n), ~y.connected,
           NEW t, SameSender(x, t), t.serial = Tail(x.serial), NEW new,
           new = (IF Head(x.serial).kind = "Disc" THEN Append(line, Control("Ua")) ELSE line)
                 \o Answers(HandleIrdaFrame(y, Head(x.serial)))
    PROVE  LeftoverHeard(x, y, t, HandleIrdaFrame(y, Head(x.serial)), line \o Answers(y), new, n)
<1> DEFINE f == Head(x.serial)
           v == HandleIrdaFrame(y, f)
           back == line \o Answers(y)
<1>1. f \in On(x.serial) /\ f \in Frames /\ x.serial \in Seq(Frames)
  BY OnTail DEF Senders
<1>2. f.kind \in {"Xid", "I", "RR", "Disc"} /\ (f.kind = "Xid" => f.ns # AnswerSlot)
  <2>1. f \in Kind({"Xid", "I", "RR", "Disc"}) \ AnswerXids
    BY <1>1 DEF Leftover
  <2> QED BY <2>1 DEF Kind, AnswerXids
<1> HIDE DEF f
<1>3. SameLink(y, v) /\ Answers(v) = Answers(y)
  <2>1. CASE f.kind = "Xid"
    BY <1>1, <1>2, <2>1, XidTaken
  <2>2. CASE f.kind # "Xid"
    <3>1. v = y
      BY <1>2, <2>2 DEF HandleIrdaFrame
    <3> HIDE DEF v
    <3> QED BY <3>1 DEF SameLink
  <2> QED BY <2>1, <2>2
<1> HIDE DEF v
<1>4. Answers(y) \in Seq(Frames) /\ back \in Seq(Frames) /\ On(back) = On(line) \union On(Answers(y))
  BY AnswersType, OnJoin
<1>5. /\ new \in Seq(Frames) /\ On(new) \subseteq On(back) \union {Control("Ua")}
      /\ Count(new, Kind({"I", "RR"})) = Count(back, Kind({"I", "RR"}))
  <2>1. CASE f.kind = "Disc"
    <3>1. new = Append(line, Control("Ua")) \o Answers(y)
      BY <1>3, <2>1 DEF f, v
    <3> QED BY <1>4, <3>1, EndAnswered
  <2>2. CASE f.kind # "Disc"
    <3>1. new = line \o Answers(y)
      BY <1>3, <2>2 DEF f, v
    <3> QED BY <1>4, <3>1
  <2> QED BY <2>1, <2>2
<1>6. On(new) \subseteq Kind({"I", "RR", "Ua"})
  <2>1. Control("Ua") \in Kind({"I", "RR", "Ua"})
    BY ControlType DEF Kind, FrameKinds
  <2> QED BY <1>5, <2>1 DEF Leftover
<1> HIDE DEF back
<1>7. Leftover(t, v, new, n)
  BY <1>3, <1>6, LeftoverKept DEF back
<1>8. LoadOf(t, v, new) <= LoadOf(x, y, back)
  <2>1. ~Waiting(x, y)
    BY DEF Waiting
  <2>2. Count(new, Kind({"I", "RR"})) <= Count(back, Kind({"I", "RR"})) + 0
    BY <1>4, <1>5, WeightNat
  <2>3. t \in Senders /\ t.pending = x.pending
    BY DEF SameSender, SamePlace
  <2>4. 0 \in Nat /\ (Waiting(x, y) => Waiting(t, v))
        /\ 0 <= (IF Head(x.serial).kind = "I" THEN 2
                 ELSE IF Head(x.serial).kind = "RR" THEN 1 ELSE 0)
    BY <2>1
  <2> HIDE DEF v
  <2> QED BY <1>4, <1>5, <2>2, <2>3, <2>4, ReceiverPays
<1>9. InNumbers(t, v)
  BY <1>3, SameNumbers
<1> QED BY <1>3, <1>5, <1>7, <1>8, <1>9 DEF LeftoverHeard, SavesNone, SameLink, v, f, back

\* The end of a link that was left behind.
LEMMA LeftoverHearsEnd ==
    ASSUME NEW x \in Senders, NEW y \in Receivers, NEW line \in Seq(Frames), x.serial # <<>>,
           NEW n, InNumbers(x, y), Leftover(x, y, line \o Answers(y), n), y.connected,
           NEW t, SameSender(x, t), t.serial = Tail(x.serial), Head(x.serial).kind = "Disc"
    PROVE  LET v == HandleIrdaFrame(y, Head(x.serial))
           IN  LeftoverHeard(x, y, t, v, line \o Answers(y),
                             Append(line, Control("Ua")) \o Answers(v), n)
<1> DEFINE f == Head(x.serial)
           v == [ReceiverAtStart EXCEPT !.responded = y.responded, !.saved = y.saved]
           back == line \o Answers(y)
           new == Append(line, Control("Ua")) \o Answers(v)
<1>1. f \in On(x.serial) /\ f \in Frames /\ x.serial \in Seq(Frames)
      /\ On(t.serial) \subseteq On(x.serial)
  BY OnTail DEF Senders
<1>2. HandleIrdaFrame(y, f) = v
  BY DEF HandleIrdaFrame, Disconnected
<1>3. v \in Receivers
  <2>1. y.responded \in BOOLEAN /\ y.saved \in Seq(Seq(Parts)) /\ <<>> \in Seq(Frames)
        /\ <<>> \in Seq(Parts) /\ <<>> \in Seq(Seq(Parts)) /\ 0 \in Nat /\ FALSE \in BOOLEAN
    BY DEF Receivers
  <2>2. ReceiverAtStart \in Receivers
    BY <2>1 DEF Receivers, ReceiverAtStart
  <2> QED BY <2>1, <2>2, Zenon DEF Receivers
<1>4. /\ ~v.connected /\ v.receiveNext = 0 /\ v.transmitNext = 0 /\ v.saved = y.saved
      /\ v.slot = None /\ v.queue = <<>>
  BY DEF ReceiverAtStart
<1> HIDE DEF v
<1>5. Answers(v) = <<>>
  BY <1>4, ConcatEmptySeq DEF Answers
<1>6. Answers(y) \in Seq(Frames) /\ back \in Seq(Frames) /\ On(back) = On(line) \union On(Answers(y))
  BY AnswersType, OnJoin
<1>7. <<>> \in Seq(Frames) /\ On(<<>>) = {}
  <2>1. <<>> \in Seq(Frames)
    OBVIOUS
  <2> QED BY <2>1, OnFrames
<1>8. new = Append(line, Control("Ua")) \o <<>>
  BY <1>5
<1> HIDE DEF new
<1>9. /\ new \in Seq(Frames) /\ On(new) = On(line) \union {Control("Ua")}
      /\ Count(new, Kind({"I", "RR"})) = Count(line \o <<>>, Kind({"I", "RR"}))
  <2>1. LET l == Append(line, Control("Ua")) \o <<>>
        IN  /\ l \in Seq(Frames) /\ On(l) = On(line) \union On(<<>>) \union {Control("Ua")}
            /\ Count(l, Kind({"I", "RR"})) = Count(line \o <<>>, Kind({"I", "RR"}))
    BY <1>7, EndAnswered
  <2> QED BY <1>7, <1>8, <2>1
<1>10. On(new) \subseteq Kind({"I", "RR", "Ua"})
  <2>1. Control("Ua") \in Kind({"I", "RR", "Ua"})
    BY ControlType DEF Kind, FrameKinds
  <2> QED BY <1>6, <1>9, <2>1 DEF Leftover
<1>11. Count(new, Kind({"I", "RR"})) <= Count(back, Kind({"I", "RR"})) + 0
  <2>1. Count(back, Kind({"I", "RR"})) = Count(line, Kind({"I", "RR"})) + Count(Answers(y), Kind({"I", "RR"}))
    BY <1>6, CountJoin
  <2>2. line \o <<>> = line
    BY ConcatEmptySeq
  <2> QED BY <1>6, <1>9, <2>1, <2>2, WeightNat
<1>12. t \in Senders /\ t.pending = x.pending /\ t.state = x.state
  BY DEF SameSender, SamePlace
<1>13. ~Waiting(x, y)
  <2>1. f \in Kind({"Disc"})
    BY <1>1 DEF Kind
  <2> QED BY <1>1, <2>1 DEF Waiting, Leftover
<1> HIDE DEF back
<1>14. LoadOf(t, v, new) <= LoadOf(x, y, back)
  <2>1. 0 \in Nat /\ (Waiting(x, y) => Waiting(t, v))
        /\ 0 <= (IF Head(x.serial).kind = "I" THEN 2
                 ELSE IF Head(x.serial).kind = "RR" THEN 1 ELSE 0)
    BY <1>13
  <2> QED BY <1>6, <1>9, <1>11, <1>12, <2>1, ReceiverPays
<1>15. Leftover(t, v, new, n)
  BY <1>1, <1>4, <1>10, <1>12 DEF Leftover
<1>16. InNumbers(t, v)
  BY <1>4, NextNumber DEF InNumbers, SameSender
<1> QED BY <1>2, <1>3, <1>4, <1>9, <1>14, <1>15, <1>16 DEF LeftoverHeard, SavesNone, new, back, f

\* A frame of a link left behind that is not the one waited for.
LEMMA LeftoverHearsOther ==
    ASSUME NEW x \in Senders, NEW y \in Receivers, NEW line \in Seq(Frames), x.serial # <<>>,
           NEW n, InNumbers(x, y), Leftover(x, y, line \o Answers(y), n), y.connected,
           NEW t, SameSender(x, t), t.serial = Tail(x.serial),
           Head(x.serial).kind # "Disc", Head(x.serial) \notin Info(y.receiveNext)
    PROVE  LET v == HandleIrdaFrame(y, Head(x.serial))
           IN  LeftoverHeard(x, y, t, v, line \o Answers(y), line \o Answers(v), n)
<1> DEFINE f == Head(x.serial)
           v == HandleIrdaFrame(y, f)
           back == line \o Answers(y)
           new == line \o Answers(v)
<1>1. f \in On(x.serial) /\ f \in Frames /\ On(x.serial) = On(Tail(x.serial)) \union {f}
  BY OnTail, OnHead DEF Senders
<1>2. f.kind \in {"Xid", "I", "RR"} /\ (f.kind = "Xid" => f.ns # AnswerSlot)
      /\ (f.kind = "I" => f.ns # y.receiveNext)
  <2>1. f \in Kind({"Xid", "I", "RR", "Disc"}) \ AnswerXids
    BY <1>1 DEF Leftover
  <2> QED BY <1>1, <2>1 DEF Kind, AnswerXids, Info
<1>0. f \notin Info(y.receiveNext)
  OBVIOUS
<1> HIDE DEF f
<1>3. back \in Seq(Frames)
  BY LineBack
<1>6. SameLink(y, v) /\ Adds(back, new, Cost(f, y))
  <2>1. CASE f.kind = "Xid"
    <3>1. SameLink(y, v) /\ Answers(v) = Answers(y)
      BY <1>1, <1>2, <2>1, XidTaken
    <3>2. Cost(f, y) = 0
      BY <2>1 DEF Cost
    <3> HIDE DEF v
    <3> QED BY <1>3, <3>1, <3>2, AddsNone
  <2>2. CASE f.kind = "RR"
    <3>1. v = HandleIrdaReceiveAck(y, f.nr, TRUE)
      BY <2>2 DEF HandleIrdaFrame
    <3>2. Cost(f, y) = 1
      BY <2>2 DEF Cost
    <3> HIDE DEF v
    <3> QED BY <3>1, <3>2, AcknowledgementTaken
  <2>3. CASE f.kind = "I"
    <3>1. v = HandleIrdaInformationFrame(y, f)
      BY <2>3 DEF HandleIrdaFrame
    <3>2. Cost(f, y) = 2
      BY <1>2, <2>3 DEF Cost
    <3> HIDE DEF v
    <3> QED BY <1>1, <1>2, <2>3, <3>1, <3>2, OldFrameTaken
  <2> QED BY <1>2, <2>1, <2>2, <2>3
<1> HIDE DEF v, new
<1>7. On(back) \subseteq Kind({"I", "RR", "Ua"}) /\ On(new) \subseteq Kind({"I", "RR", "Ua"})
  <2>1. On(back) \subseteq Kind({"I", "RR", "Ua"})
    BY DEF Leftover
  <2>2. Kind({"I", "RR"}) \subseteq Kind({"I", "RR", "Ua"})
    BY DEF Kind
  <2> QED BY <1>6, <2>1, <2>2 DEF Adds
<1> HIDE DEF back
<1>8. Leftover(t, v, new, n)
  BY <1>6, <1>7, LeftoverKept DEF back
<1>9. t \in Senders /\ t.pending = x.pending
  BY DEF SameSender, SamePlace
<1>10. Waiting(x, y) => Waiting(t, v)
  BY <1>0, <1>1, <1>6 DEF Waiting, SameLink
<1>11. Cost(f, y) \in Nat
       /\ Cost(f, y) <= (IF f.kind = "I" THEN 2 ELSE IF f.kind = "RR" THEN 1 ELSE 0)
  BY DEF Cost
<1>12. new \in Seq(Frames)
       /\ Count(new, Kind({"I", "RR"})) <= Count(back, Kind({"I", "RR"})) + Cost(f, y)
  BY <1>6 DEF Adds
<1>13. LoadOf(t, v, new) <= LoadOf(x, y, back)
  BY <1>3, <1>9, <1>10, <1>11, <1>12, ReceiverPays DEF f
<1>14. InNumbers(t, v)
  BY <1>6, SameNumbers
<1> QED BY <1>6, <1>8, <1>12, <1>13, <1>14 DEF LeftoverHeard, SavesNone, SameLink, v, f, back, new

\* The last request of a link left behind: it may end a body, which is then saved.
LEMMA LeftoverHearsRequest ==
    ASSUME NEW x \in Senders, NEW y \in Receivers, NEW line \in Seq(Frames), x.serial # <<>>,
           NEW n, InNumbers(x, y), Leftover(x, y, line \o Answers(y), n), y.connected,
           NEW t, SameSender(x, t), t.serial = Tail(x.serial),
           Head(x.serial) \in Info(y.receiveNext)
    PROVE  LET v == HandleIrdaFrame(y, Head(x.serial))
           IN  LeftoverHeard(x, y, t, v, line \o Answers(y), line \o Answers(v), n)
<1> DEFINE f == Head(x.serial)
           v == HandleIrdaFrame(y, f)
           back == line \o Answers(y)
           new == line \o Answers(v)
           z == Turned(y)
<1>1. f \in On(x.serial) /\ f \in Frames /\ On(t.serial) \subseteq On(x.serial)
      /\ x.serial \in Seq(Frames)
  BY OnTail DEF Senders
<1>2. f.kind = "I" /\ f.ns = y.receiveNext /\ f.data \in Messages
  BY <1>1 DEF Info, Frames
<1>3. /\ f.nr = y.transmitNext /\ InStep(x.serial, y.receiveNext)
      /\ f.data.kind = "PutBody" /\ f.data.final =>
             \E g \in Files : /\ Whole(y.body \o f.data.units, g)
                              /\ SavedTimes(y, g) + (IF x.file = g THEN 1 ELSE 0) < n[g]
  BY <1>1 DEF Leftover, RequestsInStep
<1>4. /\ InStep(t.serial, NextSeq(y.receiveNext))
      /\ On(t.serial) \intersect Info(NextSeq(y.receiveNext)) = {}
  BY <1>1, <1>3, InStepNext DEF InNumbers
<1> HIDE DEF f
<1>5. v = HandleIrdaInformationPayload(z, f.data)
  <2>1. v = HandleIrdaInformationFrame(y, f)
    BY <1>2 DEF HandleIrdaFrame
  <2> HIDE DEF v
  <2> QED BY <1>1, <1>2, <1>3, <2>1, RequestLooked
<1>6. /\ z \in Receivers /\ z.connected = y.connected /\ z.receiveNext = NextSeq(y.receiveNext)
      /\ z.transmitNext = y.transmitNext /\ z.body = y.body /\ z.saved = y.saved
      /\ Answers(z) = Answers(y)
  BY TurnedType
<1> HIDE DEF z, v
<1>7. Looked(z, f.data, v, line)
  BY <1>2, <1>5, <1>6, LooksAtAny
<1>8. /\ v \in Receivers /\ v.connected = y.connected /\ v.receiveNext = NextSeq(y.receiveNext)
      /\ v.transmitNext \in {y.transmitNext, NextSeq(y.transmitNext)}
      /\ Adds(back, new, 1)
      /\ \/ v.saved = y.saved
         \/ f.data.kind = "PutBody" /\ f.data.final /\ v.saved = Append(y.saved, y.body \o f.data.units)
  BY <1>6, <1>7 DEF Looked
<1>9. back \in Seq(Frames)
  BY LineBack
<1> HIDE DEF new
<1>10. On(back) \subseteq Kind({"I", "RR", "Ua"}) /\ On(new) \subseteq Kind({"I", "RR", "Ua"})
  <2>1. On(back) \subseteq Kind({"I", "RR", "Ua"})
    BY DEF Leftover
  <2>2. Kind({"I", "RR"}) \subseteq Kind({"I", "RR", "Ua"})
    BY DEF Kind
  <2> QED BY <1>8, <2>1, <2>2 DEF Adds
<1>11. t \in Senders /\ t.pending = x.pending /\ t.state = x.state
  BY DEF SameSender, SamePlace
<1>12. Leftover(t, v, new, n)
  <2>1. RequestsInStep(t, v)
    BY <1>4, <1>8 DEF RequestsInStep
  <2>2. t.state \in {"Discover", "Idle"}
        /\ On(t.serial) \subseteq Kind({"Xid", "I", "RR", "Disc"}) \ AnswerXids
    BY <1>1, <1>11 DEF Leftover
  <2> QED BY <1>4, <1>8, <1>10, <2>1, <2>2 DEF Leftover
<1>13. SavesNone(y, v) \/ SavesOne(x, y, v, n)
  <2>1. CASE v.saved = y.saved
    BY <2>1 DEF SavesNone
  <2>2. CASE v.saved # y.saved
    <3>1. PICK g \in Files : /\ Whole(y.body \o f.data.units, g)
                             /\ SavedTimes(y, g) + (IF x.file = g THEN 1 ELSE 0) < n[g]
      BY <1>3, <1>8, <2>2
    <3>2. y.body \o f.data.units \in Seq(Parts)
      <4>1. y.body \in Seq(Parts) /\ f.data.units \in Seq(Parts)
        BY <1>2 DEF Receivers, Messages
      <4> QED BY <4>1, ConcatProperties
    <3>3. v.saved = Append(y.saved, y.body \o f.data.units)
      BY <1>8, <2>2
    <3> QED BY <3>1, <3>2, <3>3 DEF SavesOne
  <2> QED BY <2>1, <2>2
<1>14. InNumbers(t, v)
  BY <1>8, NextNumber DEF InNumbers, SameSender
<1> HIDE DEF back
<1>15. LoadOf(t, v, new) <= LoadOf(x, y, back)
  <2>1. new \in Seq(Frames) /\ Count(new, Kind({"I", "RR"})) <= Count(back, Kind({"I", "RR"})) + 1
    BY <1>8 DEF Adds
  <2>2. 1 \in Nat /\ Head(x.serial).kind = "I" /\ 1 <= 1
    BY <1>2 DEF f
  <2>3. t \in Senders /\ t.serial = Tail(x.serial) /\ t.pending = x.pending
    BY <1>11
  <2> QED BY <1>9, <2>1, <2>2, <2>3, ReceiverPays
<1>16. new \in Seq(Frames)
  BY <1>8 DEF Adds
<1> QED BY <1>8, <1>12, <1>13, <1>14, <1>15, <1>16 DEF LeftoverHeard, v, f, back, new

\* Whatever a link left behind, the receiver takes.
LEMMA LeftoverHears ==
    ASSUME NEW x \in Senders, NEW y \in Receivers, NEW line \in Seq(Frames), x.serial # <<>>,
           NEW n, InNumbers(x, y), Leftover(x, y, line \o Answers(y), n),
           NEW t, SameSender(x, t), t.serial = Tail(x.serial), NEW new,
           new = (IF Head(x.serial).kind = "Disc" THEN Append(line, Control("Ua")) ELSE line)
                 \o Answers(HandleIrdaFrame(y, Head(x.serial)))
    PROVE  LeftoverHeard(x, y, t, HandleIrdaFrame(y, Head(x.serial)), line \o Answers(y), new, n)
<1> DEFINE f == Head(x.serial)
           v == HandleIrdaFrame(y, f)
<1>1. CASE ~y.connected
  BY <1>1, LeftoverHearsNone
<1>2. CASE y.connected /\ f.kind = "Disc"
  <2>1. LeftoverHeard(x, y, t, v, line \o Answers(y), Append(line, Control("Ua")) \o Answers(v), n)
    BY <1>2, LeftoverHearsEnd
  <2> QED BY <1>2, <2>1
<1>3. CASE y.connected /\ f.kind # "Disc" /\ f \in Info(y.receiveNext)
  <2>1. LeftoverHeard(x, y, t, v, line \o Answers(y), line \o Answers(v), n)
    BY <1>3, LeftoverHearsRequest
  <2> QED BY <1>3, <2>1
<1>4. CASE y.connected /\ f.kind # "Disc" /\ f \notin Info(y.receiveNext)
  <2>1. LeftoverHeard(x, y, t, v, line \o Answers(y), line \o Answers(v), n)
    BY <1>4, LeftoverHearsOther
  <2> QED BY <1>4, <2>1
<1> QED BY <1>1, <1>2, <1>3, <1>4

----------------------------------------------------------------------------
(* The receiver while a link is set up *)

\* Nothing on a line.
LEMMA NothingOn ==
    ASSUME NEW y \in Receivers, NEW line \in Seq(Frames)
    PROVE  /\ line \o Answers(y) = <<>> <=> line = <<>> /\ y.slot = None /\ y.queue = <<>>
           /\ line = <<>> => line \o Answers(y) = Answers(y)
<1> DEFINE a == Answers(y)
<1>1. a \in Seq(Frames) /\ y.queue \in Seq(Frames)
      /\ (y.slot = None => a = y.queue)
      /\ (y.slot # None => a = <<y.slot>> \o y.queue /\ y.slot \in Frames)
  BY AnswersType DEF Receivers
<1>2. a = <<>> <=> y.slot = None /\ y.queue = <<>>
  <2>1. CASE y.slot = None
    BY <1>1, <2>1
  <2>2. CASE y.slot # None
    <3>1. <<y.slot>> \in Seq(Frames) /\ Len(<<y.slot>>) = 1
      BY <1>1, <2>2
    <3>2. Len(<<y.slot>> \o y.queue) = 1 + Len(y.queue)
      BY <1>1, <3>1, ConcatProperties
    <3>3. Len(a) # 0
      BY <1>1, <2>2, <3>2
    <3>4. a # <<>>
      BY <3>3
    <3> QED BY <2>2, <3>4
  <2> QED BY <2>1, <2>2
<1> HIDE DEF a
<1>3. line \o a \in Seq(Frames) /\ Len(line \o a) = Len(line) + Len(a)
  BY <1>1, ConcatProperties
<1>4. line \o a = <<>> <=> line = <<>> /\ a = <<>>
  BY <1>1, <1>3
<1>5. line = <<>> => line \o a = a
  BY <1>1, ConcatEmptySeq
<1> QED BY <1>2, <1>4, <1>5 DEF a

\* The sets a line's frames are in, while a link is set up.
LEMMA SetupLine ==
    ASSUME NEW x \in Senders, NEW y, NEW back, SettingUp(x, y, back)
    PROVE  /\ ~Waiting(x, y)
           /\ Count(x.serial, Kind({"I"})) = 0 /\ Count(x.serial, Kind({"RR"})) = 0
           /\ back \in Seq(Frames) /\ Count(back, Kind({"I", "RR"})) = 0
<1>1. x.serial \in Seq(Frames) /\ On(x.serial) \subseteq Kind({"Xid", "Snrm"})
  BY DEF Senders, SettingUp
<1>2. /\ On(x.serial) \intersect Kind({"I"}) = {} /\ On(x.serial) \intersect Kind({"RR"}) = {}
      /\ On(x.serial) \intersect Info(y.receiveNext) = {}
  BY <1>1 DEF Kind, Info
<1>3. Count(x.serial, Kind({"I"})) = 0 /\ Count(x.serial, Kind({"RR"})) = 0
  BY <1>1, <1>2, CountSome
<1> DEFINE P == Control("XidResponse")
           U == Control("Ua")
           A == Kind({"I", "RR"})
<1>4. P \in Frames /\ U \in Frames /\ P \notin A /\ U \notin A
  BY ControlType DEF FrameKinds, Kind
<1> HIDE DEF P, U, A
<1>5. Count(<<P>>, A) = 0 /\ Count(<<U>>, A) = 0 /\ Count(<<>>, A) = 0
  BY <1>4, CountOne
<1>6. <<P>> \in Seq(Frames) /\ <<U>> \in Seq(Frames) /\ <<>> \in Seq(Frames)
  BY <1>4
<1>7. back \in {<<>>, <<P>>, <<U>>}
  BY DEF SettingUp, P, U
<1> QED BY <1>2, <1>3, <1>5, <1>6, <1>7 DEF Waiting, A

SetupHeard(x, y, t, v, new) ==
    /\ v \in Receivers /\ InNumbers(t, v) /\ SettingUp(t, v, new)
    /\ v.saved = y.saved

\* A frame that is gone, without effect on the receiver.
LEMMA SetupKept ==
    ASSUME NEW x \in Senders, NEW y, NEW back, SettingUp(x, y, back), x.serial # <<>>,
           NEW t, SameSender(x, t), t.serial = Tail(x.serial)
    PROVE  SettingUp(t, y, back)
<1>1. x.serial \in Seq(Frames)
  BY DEF Senders
<1>2. On(t.serial) \subseteq On(x.serial) /\ Ordered(t.serial, Tokens, Tokens)
  BY <1>1, OnTail, OrderedTail DEF SettingUp
<1> QED BY <1>2 DEF SettingUp, SameSender, SamePlace

\* The frame that is waited for puts its answer into the free slot.
LEMMA SetupAnswered ==
    ASSUME NEW x \in Senders, NEW y \in Receivers, NEW line \in Seq(Frames), x.serial # <<>>,
           SettingUp(x, y, line \o Answers(y)), Head(x.serial) \in Tokens,
           NEW t, SameSender(x, t), t.serial = Tail(x.serial),
           NEW v \in Receivers, NEW g, g \in Frames, v.slot = g, v.queue = y.queue,
           InNumbers(t, v),
           \/ g = Control("XidResponse") /\ x.state = "Discover"
           \/ /\ g = Control("Ua") /\ v.connected /\ v.receiveNext = 0
              /\ v.transmitNext = 0 /\ v.last = None
    PROVE  SettingUp(t, v, line \o Answers(v))
<1>1. x.serial \in Seq(Frames) /\ Head(x.serial) \in On(x.serial)
  BY OnTail DEF Senders
<1>2. On(t.serial) \subseteq On(x.serial) /\ Ordered(t.serial, Tokens, Tokens)
      /\ On(t.serial) \intersect Tokens = {}
  BY <1>1, OnTail, OrderedTail DEF SettingUp
<1>3. line \o Answers(y) = <<>>
  BY <1>1 DEF SettingUp
<1>4. line = <<>> /\ y.queue = <<>>
  BY <1>3, NothingOn
<1>5. line \o Answers(v) = <<g>>
  <2>1. Answers(v) = <<g>> \o <<>>
    BY <1>4, NoneAssumption DEF Answers
  <2>2. <<g>> \in Seq(Frames)
    OBVIOUS
  <2>3. <<g>> \o <<>> = <<g>>
    BY <2>2, ConcatEmptySeq
  <2> QED BY <1>4, <2>1, <2>3, NothingOn
<1>6. t.state = x.state
  BY DEF SameSender, SamePlace
<1>7. CASE g = Control("XidResponse") /\ x.state = "Discover"
  <2>1. <<Control("XidResponse")>> # <<Control("Ua")>>
    <3>1. Control("XidResponse") # Control("Ua")
      BY ControlType DEF FrameKinds
    <3> QED BY <3>1
  <2> QED BY <1>2, <1>5, <1>6, <1>7, <2>1 DEF SettingUp
<1>8. CASE /\ g = Control("Ua") /\ v.connected /\ v.receiveNext = 0
           /\ v.transmitNext = 0 /\ v.last = None
  <2>1. <<Control("XidResponse")>> # <<Control("Ua")>>
    <3>1. Control("XidResponse") # Control("Ua")
      BY ControlType DEF FrameKinds
    <3> QED BY <3>1
  <2>2. AnswerXids \subseteq Tokens
    BY DEF Tokens
  <2> QED BY <1>2, <1>5, <1>6, <1>8, <2>1, <2>2 DEF SettingUp
<1> QED BY <1>7, <1>8

\* The receiver's step while a link is set up: an XID in its slot is answered, SNRM sets up
\* the connection with both numbers at 0, anything else is left out.
LEMMA SetupHears ==
    ASSUME NEW x \in Senders, NEW y \in Receivers, NEW line \in Seq(Frames), x.serial # <<>>,
           InNumbers(x, y), SettingUp(x, y, line \o Answers(y)),
           NEW t, SameSender(x, t), t.serial = Tail(x.serial)
    PROVE  LET v == HandleIrdaFrame(y, Head(x.serial))
           IN  SetupHeard(x, y, t, v, line \o Answers(v)) /\ Head(x.serial).kind # "Disc"
<1> DEFINE f == Head(x.serial)
           v == HandleIrdaFrame(y, f)
           back == line \o Answers(y)
<1>1. f \in On(x.serial) /\ f \in Frames
  BY OnTail DEF Senders
<1>2. f.kind \in {"Xid", "Snrm"}
  BY <1>1 DEF SettingUp, Kind
<1>3. f \in Tokens <=> f.kind = "Snrm" \/ f.ns = AnswerSlot
  BY <1>1, <1>2 DEF Tokens, AnswerXids, Kind
<1>0. AnswerSlot # 0
  BY BeamAssumption
<1>4. CASE f.kind = "Xid" /\ f.ns # AnswerSlot
  <2> HIDE DEF f
  <2>1. SameLink(y, v) /\ Answers(v) = Answers(y)
    BY <1>1, <1>4, XidTaken
  <2> HIDE DEF v
  <2>2. SettingUp(t, v, back)
    BY <2>1, SetupKept, SameReceiver
  <2>3. InNumbers(t, v)
    BY <2>1, SameNumbers
  <2>4. v \in Receivers /\ v.saved = y.saved
    BY <2>1 DEF SameLink
  <2>5. SettingUp(t, v, line \o Answers(v))
    BY <2>1, <2>2
  <2> QED BY <1>4, <2>3, <2>4, <2>5 DEF SetupHeard, v, f
<1>5. CASE f.kind = "Xid" /\ f.ns = AnswerSlot /\ y.responded
  <2>1. v = y
    <3> HIDE DEF f
    <3>1. v = HandleIrdaXidFrame(y, f.ns)
      BY <1>5 DEF HandleIrdaFrame
    <3> HIDE DEF v
    <3> QED BY <1>0, <1>5, <3>1 DEF HandleIrdaXidFrame
  <2>2. SameLink(y, y)
    BY DEF SameLink
  <2>3. InNumbers(t, y) /\ SettingUp(t, y, back)
    BY <2>2, SameNumbers, SetupKept
  <2> HIDE DEF v
  <2> QED BY <1>5, <2>1, <2>3 DEF SetupHeard, v, f
<1>6. CASE f.kind = "Xid" /\ f.ns = AnswerSlot /\ ~y.responded
  <2> DEFINE g == Control("XidResponse")
             w == [y EXCEPT !.responded = TRUE, !.slot = g]
  <2>1. v = w
    <3> HIDE DEF f
    <3>1. v = HandleIrdaXidFrame(y, f.ns)
      BY <1>6 DEF HandleIrdaFrame
    <3> HIDE DEF v
    <3> QED BY <1>0, <1>6, <3>1 DEF HandleIrdaXidFrame
  <2>2. g \in Frames
    BY ControlType DEF FrameKinds
  <2>3. g \in Frames \union {None} /\ TRUE \in BOOLEAN
    BY <2>2
  <2> HIDE DEF g
  <2>4. w \in Receivers
    BY <2>3, Zenon DEF Receivers
  <2>5. /\ w.slot = g /\ w.queue = y.queue /\ w.receiveNext = y.receiveNext
        /\ w.transmitNext = y.transmitNext /\ w.saved = y.saved
    BY DEF Receivers
  <2> HIDE DEF w
  <2>6. InNumbers(t, w)
    BY <2>5 DEF InNumbers, SameSender
  <2>7. x.state = "Discover"
    <3>1. f \in AnswerXids
      BY <1>1, <1>6 DEF AnswerXids
    <3> QED BY <1>1, <3>1 DEF SettingUp
  <2>8. SettingUp(t, w, line \o Answers(w))
    <3>1. Head(x.serial) \in Tokens
      BY <1>3, <1>6
    <3> QED BY <2>2, <2>4, <2>5, <2>6, <2>7, <3>1, SetupAnswered DEF g
  <2> HIDE DEF v
  <2> QED BY <1>6, <2>1, <2>4, <2>5, <2>6, <2>8 DEF SetupHeard, v, f
<1>7. CASE f.kind = "Snrm"
  <2> DEFINE g == Control("Ua")
             w == [y EXCEPT !.connected = TRUE, !.receiveNext = 0, !.transmitNext = 0,
                            !.last = None, !.slot = g]
  <2>1. v = w
    BY <1>7 DEF HandleIrdaFrame, HandleIrdaSnrmFrame
  <2>2. g \in Frames
    BY ControlType DEF FrameKinds
  <2>3. g \in Frames \union {None} /\ TRUE \in BOOLEAN /\ 0 \in Nat
        /\ None \in [data : Messages, ns : Nat] \union {None}
    BY <2>2
  <2> HIDE DEF g
  <2>4. w \in Receivers
    BY <2>3, Zenon DEF Receivers
  <2>5. /\ w.slot = g /\ w.queue = y.queue /\ w.receiveNext = 0 /\ w.connected
        /\ w.transmitNext = 0 /\ w.saved = y.saved /\ w.last = None
    BY DEF Receivers
  <2> HIDE DEF w
  <2>6. InNumbers(t, w)
    BY <2>5, NextNumber DEF InNumbers, SameSender
  <2>8. SettingUp(t, w, line \o Answers(w))
    <3>1. Head(x.serial) \in Tokens
      BY <1>3, <1>7
    <3> QED BY <2>2, <2>4, <2>5, <2>6, <3>1, SetupAnswered DEF g
  <2> HIDE DEF v
  <2> QED BY <1>7, <2>1, <2>4, <2>5, <2>6, <2>8 DEF SetupHeard, v, f
<1> QED BY <1>2, <1>4, <1>5, <1>6, <1>7

----------------------------------------------------------------------------
(* What is saved *)

Objects(f) == {o \in Seq(Parts) : Whole(o, f)}

\* How often a file was saved is how many of the saved objects are its units.
LEMMA SavedCount ==
    ASSUME NEW y \in Receivers, NEW f \in Files
    PROVE  SavedTimes(y, f) = Count(y.saved, Objects(f)) /\ SavedTimes(y, f) \in Nat
           /\ y.saved \in Seq(Seq(Parts))
<1>1. y.saved \in Seq(Seq(Parts))
  BY DEF Receivers
<1>2. \A k \in DOMAIN y.saved : y.saved[k] \in Seq(Parts)
  BY <1>1
<1>3. {k \in DOMAIN y.saved : Whole(y.saved[k], f)} = {k \in DOMAIN y.saved : y.saved[k] \in Objects(f)}
  BY <1>2 DEF Objects
<1>4. SavedTimes(y, f) = Count(y.saved, Objects(f))
  BY <1>3 DEF SavedTimes, Count
<1> QED BY <1>1, <1>4, CountNat

\* A whole object that is saved counts once for its file and never for another.
LEMMA SavesWhole ==
    ASSUME NEW y \in Receivers, NEW v \in Receivers, NEW o \in Seq(Parts), NEW g \in Files,
           Whole(o, g), v.saved = Append(y.saved, o)
    PROVE  /\ \A f \in Files : SavedTimes(v, f) = SavedTimes(y, f) + (IF f = g THEN 1 ELSE 0)
           /\ Len(v.saved) = Len(y.saved) + 1 /\ v.saved[Len(v.saved)] = o
           /\ \A k \in 1 .. Len(y.saved) : v.saved[k] = y.saved[k]
           /\ Len(y.saved) \in Nat
<1>1. y.saved \in Seq(Seq(Parts))
  BY DEF Receivers
<1>2. ASSUME NEW f \in Files
      PROVE  SavedTimes(v, f) = SavedTimes(y, f) + (IF f = g THEN 1 ELSE 0)
  <2>1. o \in Objects(f) <=> f = g
    BY WholeOnce DEF Objects
  <2>2. Count(Append(y.saved, o), Objects(f)) = Count(y.saved, Objects(f))
                                                  + (IF o \in Objects(f) THEN 1 ELSE 0)
    BY <1>1, CountAppend
  <2> QED BY <2>1, <2>2, SavedCount
<1> QED BY <1>1, <1>2, AppendProperties

\* Nothing is counted more often when nothing was saved.
LEMMA SavedSame ==
    ASSUME NEW y, NEW v, v.saved = y.saved, NEW f
    PROVE  SavedTimes(v, f) = SavedTimes(y, f)
  BY DEF SavedTimes

----------------------------------------------------------------------------
(* The invariant, of a sender, a receiver, the line back, how often each file was started, *)
(* and how many objects had been saved at the last start                                   *)

\* The count survives a step that saves nothing, ...
LEMMA TallyKept ==
    ASSUME NEW x, NEW y, NEW t, NEW v, NEW n, NEW b, Tally(x, y, n, b),
           t.state = x.state, t.file = x.file, t.pending = x.pending, t.last \in {x.last, None},
           t.offset = x.offset, t.endSent = x.endSent,
           v.saved = y.saved, HasSaved(t, v) <=> HasSaved(x, y)
    PROVE  Tally(t, v, n, b)
<1>1. \A f : SavedTimes(v, f) = SavedTimes(y, f)
  BY SavedSame
<1>2. HasDelivered(t, v, b) <=> HasDelivered(x, y, b)
  BY DEF HasDelivered
<1> QED BY <1>1, <1>2 DEF Tally

\* ... one that saves the file that is sent, ...
LEMMA TallySaves ==
    ASSUME NEW x, NEW y \in Receivers, NEW t, NEW v \in Receivers, NEW n, NEW b,
           Tally(x, y, n, b), x.file \in Files, SameSender(x, t),
           v.saved = Append(y.saved, UnitsOf(x.file)), Whole(UnitsOf(x.file), x.file),
           ~HasSaved(x, y), HasSaved(t, v)
    PROVE  Tally(t, v, n, b)
<1> DEFINE o == UnitsOf(x.file)
<1>1. o \in Seq(Parts) /\ Whole(o, x.file) /\ v.saved = Append(y.saved, o)
  BY UnitsType
<1> HIDE DEF o
<1>2. /\ \A f \in Files : SavedTimes(v, f) = SavedTimes(y, f) + (IF f = x.file THEN 1 ELSE 0)
      /\ Len(v.saved) = Len(y.saved) + 1 /\ v.saved[Len(v.saved)] = o
      /\ \A k \in 1 .. Len(y.saved) : v.saved[k] = y.saved[k]
      /\ Len(y.saved) \in Nat
  BY <1>1, SavesWhole
<1>3. t.state = x.state /\ t.file = x.file /\ t.last = x.last /\ t.pending = x.pending
      /\ t.offset = x.offset /\ t.endSent = x.endSent
  BY DEF SameSender, SamePlace
<1>4. SavedTimes(y, x.file) < n[x.file] /\ b \in Nat /\ b <= Len(y.saved)
      /\ n \in [Files -> Nat]
  BY DEF Tally
<1>5. HasDelivered(t, v, b)
  <2>1. Len(v.saved) \in b + 1 .. Len(v.saved)
    BY <1>2, <1>4
  <2> QED BY <1>1, <1>2, <1>3, <2>1 DEF HasDelivered
<1>6. ASSUME NEW f \in Files PROVE SavedTimes(v, f) <= n[f]
  <2>1. SavedTimes(y, f) <= n[f] /\ SavedTimes(y, f) \in Nat /\ n[f] \in Nat
    BY <1>4, SavedCount DEF Tally
  <2> QED BY <1>2, <1>4, <2>1
<1>7. ASSUME NEW k \in DOMAIN v.saved PROVE \E f \in Files : Whole(v.saved[k], f)
  <2>1. v.saved \in Seq(Seq(Parts)) /\ y.saved \in Seq(Seq(Parts))
    BY DEF Receivers
  <2>2. k \in DOMAIN y.saved \/ k = Len(v.saved)
    BY <1>2, <2>1
  <2>3. CASE k \in DOMAIN y.saved
    <3>0. k \in 1 .. Len(y.saved)
      BY <2>1, <2>3
    <3>1. v.saved[k] = y.saved[k]
      BY <1>2, <3>0
    <3> QED BY <2>3, <3>1 DEF Tally
  <2>4. CASE k = Len(v.saved)
    BY <1>1, <1>2, <2>4
  <2> QED BY <2>2, <2>3, <2>4
<1>8. b <= Len(v.saved)
  BY <1>2, <1>4
<1>9. /\ t.state # "Idle" <=> t.file \in Files
      /\ t.file = None <=> t.state = "Idle"
      /\ t.state \notin LinkStates => t.last = None /\ ~t.pending /\ ~t.endSent /\ t.offset = 0
  BY <1>3 DEF Tally
<1> QED BY <1>4, <1>5, <1>6, <1>7, <1>8, <1>9 DEF Tally

\* ... and one that saves what a link left behind.
LEMMA TallyLeft ==
    ASSUME NEW x, NEW y \in Receivers, NEW t, NEW v \in Receivers, NEW n, NEW b,
           Tally(x, y, n, b), SameSender(x, t), x.state \in {"Discover", "Idle"},
           SavesOne(x, y, v, n)
    PROVE  Tally(t, v, n, b)
<1>1. PICK g \in Files, o \in Seq(Parts) :
        /\ Whole(o, g) /\ v.saved = Append(y.saved, o)
        /\ SavedTimes(y, g) + (IF x.file = g THEN 1 ELSE 0) < n[g]
  BY DEF SavesOne
<1>2. /\ \A f \in Files : SavedTimes(v, f) = SavedTimes(y, f) + (IF f = g THEN 1 ELSE 0)
      /\ Len(v.saved) = Len(y.saved) + 1 /\ v.saved[Len(v.saved)] = o
      /\ \A k \in 1 .. Len(y.saved) : v.saved[k] = y.saved[k]
      /\ Len(y.saved) \in Nat
  BY <1>1, SavesWhole
<1>3. t.state = x.state /\ t.file = x.file /\ t.last = x.last /\ t.pending = x.pending
      /\ t.offset = x.offset /\ t.endSent = x.endSent
  BY DEF SameSender, SamePlace
<1>4. b \in Nat /\ b <= Len(y.saved) /\ n \in [Files -> Nat]
  BY DEF Tally
<1>5. ~HasSaved(x, y) /\ ~HasSaved(t, v)
  BY <1>3 DEF HasSaved
<1>6. ASSUME NEW f \in Files
      PROVE  SavedTimes(v, f) <= n[f] /\ (f = x.file => SavedTimes(v, f) < n[f])
  <2>1. /\ SavedTimes(y, f) <= n[f] /\ SavedTimes(y, f) \in Nat /\ n[f] \in Nat
        /\ f = x.file => SavedTimes(y, f) < n[f]
    BY <1>4, <1>5, SavedCount DEF Tally
  <2> QED BY <1>1, <1>2, <2>1
<1>7. ASSUME NEW k \in DOMAIN v.saved PROVE \E f \in Files : Whole(v.saved[k], f)
  <2>1. v.saved \in Seq(Seq(Parts)) /\ y.saved \in Seq(Seq(Parts))
    BY DEF Receivers
  <2>2. k \in DOMAIN y.saved \/ k = Len(v.saved)
    BY <1>2, <2>1
  <2>3. CASE k \in DOMAIN y.saved
    <3>0. k \in 1 .. Len(y.saved)
      BY <2>1, <2>3
    <3>1. v.saved[k] = y.saved[k]
      BY <1>2, <3>0
    <3> QED BY <2>3, <3>1 DEF Tally
  <2>4. CASE k = Len(v.saved)
    BY <1>1, <1>2, <2>4
  <2> QED BY <2>2, <2>3, <2>4
<1>8. b <= Len(v.saved)
  BY <1>2, <1>4
<1>9. /\ t.state # "Idle" <=> t.file \in Files
      /\ t.file = None <=> t.state = "Idle"
      /\ t.state \notin LinkStates => t.last = None /\ ~t.pending /\ ~t.endSent /\ t.offset = 0
  BY <1>3 DEF Tally
<1> QED BY <1>3, <1>4, <1>5, <1>6, <1>7, <1>8, <1>9 DEF Tally

----------------------------------------------------------------------------
(* Steps of the receiver and of the line *)

\* Answers that move to the slot or to the line change nothing.
LEMMA FitsMoved ==
    ASSUME NEW x, NEW y, NEW back, NEW n, NEW b, Fits(x, y, back, n, b),
           NEW v, SameLink(y, v)
    PROVE  Fits(x, v, back, n, b) /\ LoadOf(x, v, back) = LoadOf(x, y, back)
<1>1. InNumbers(x, v) /\ v \in Receivers /\ v.saved = y.saved
  BY DEF Fits, InNumbers, SameLink
<1>2. Mode(x, v, back, n)
  BY SameReceiver DEF Fits, Mode
<1>3. HasSaved(x, v) <=> HasSaved(x, y)
  BY SameReceiver
<1>4. Tally(x, v, n, b)
  <2>1. x.last \in {x.last, None}
    OBVIOUS
  <2> QED BY <1>1, <1>3, <2>1, TallyKept DEF Fits
<1>5. Waiting(x, v) <=> Waiting(x, y)
  BY DEF Waiting, SameLink
<1> QED BY <1>1, <1>2, <1>4, <1>5 DEF Fits, LoadOf

\* What a step may add to the saved objects.
Saves(y, v, n) ==
    \/ v.saved = y.saved
    \/ \E g \in Files, o \in Seq(Parts) :
           Whole(o, g) /\ v.saved = Append(y.saved, o) /\ SavedTimes(y, g) < n[g]

\* The receiver's step, on the line back as a whole.
LEMMA ReceiverTakes ==
    ASSUME NEW x, NEW y, NEW line \in Seq(Frames), NEW n, NEW b,
           Fits(x, y, line \o Answers(y), n, b), x.serial # <<>>,
           NEW t, SameSender(x, t), t.serial = Tail(x.serial), NEW new,
           new = (IF Head(x.serial).kind = "Disc" THEN Append(line, Control("Ua")) ELSE line)
                 \o Answers(HandleIrdaFrame(y, Head(x.serial)))
    PROVE  LET v == HandleIrdaFrame(y, Head(x.serial))
           IN  /\ Fits(t, v, new, n, b) /\ Saves(y, v, n)
               /\ LoadOf(t, v, new) <= LoadOf(x, y, line \o Answers(y))
<1> DEFINE f == Head(x.serial)
           v == HandleIrdaFrame(y, f)
           back == line \o Answers(y)
<1>1. x \in Senders /\ y \in Receivers /\ InNumbers(x, y) /\ Mode(x, y, back, n) /\ Tally(x, y, n, b)
  BY DEF Fits
<1>2. t \in Senders /\ t.state = x.state /\ t.file = x.file /\ t.pending = x.pending
      /\ t.last = x.last /\ x.serial \in Seq(Frames)
      /\ t.offset = x.offset /\ t.endSent = x.endSent
  BY <1>1 DEF SameSender, SamePlace, Senders
<1>3. CASE x.state \in LinkStates
  <2>1. InLink(x, y, back)
    BY <1>1, <1>3 DEF Mode
  <2>2. x.file \in Files
    BY <1>1, <1>3 DEF Tally, LinkStates
  <2>3. f \in Frames /\ f.kind # "Disc"
    <3>1. f \in Kind({"Xid", "I", "RR"}) /\ f \in Frames
      BY <1>2, <2>1, OnTail DEF InLink, SenderInLink
    <3> QED BY <3>1 DEF Kind
  <2>4. new = line \o Answers(v)
    BY <2>3
  <2>5. LinkHeard(x, y, t, v, line, f)
    <3>1. CASE f \in Info(y.receiveNext)
      BY <1>1, <2>1, <2>2, <3>1, LinkHearsRequest
    <3>2. CASE f \notin Info(y.receiveNext)
      BY <1>1, <2>1, <3>2, LinkHearsOther
    <3> QED BY <3>1, <3>2
  <2> DEFINE I == f \in Info(y.receiveNext)
  <2>10. Waiting(x, y) /\ ~I => On(t.serial) \intersect Info(y.receiveNext) # {}
    <3>1. On(x.serial) = On(t.serial) \union {f}
      BY <1>2, OnHead
    <3> QED BY <3>1 DEF Waiting
  <2>11. I => f.kind = "I" /\ f.ns = y.receiveNext
    BY DEF Info
  <2> HIDE DEF v, f, back
  <2>6. /\ v \in Receivers /\ InLink(t, v, new) /\ v.connected
        /\ v.transmitNext \in {y.transmitNext, NextSeq(y.transmitNext)}
        /\ IF f \in Info(y.receiveNext)
           THEN /\ v.receiveNext = NextSeq(y.receiveNext)
                /\ On(t.serial) \intersect Info(v.receiveNext) = {}
           ELSE v.receiveNext = y.receiveNext
        /\ Adds(back, new, Cost(f, y))
        /\ \/ v.saved = y.saved /\ (HasSaved(t, v) <=> HasSaved(x, y))
           \/ /\ v.saved = Append(y.saved, UnitsOf(x.file)) /\ Whole(UnitsOf(x.file), x.file)
              /\ ~HasSaved(x, y) /\ HasSaved(t, v)
    BY <2>4, <2>5 DEF LinkHeard, back
  <2>7. InNumbers(t, v)
    BY <1>1, <2>6, NextNumber DEF InNumbers, SameSender
  <2>8. Mode(t, v, new, n)
    BY <1>2, <1>3, <2>6 DEF Mode, LinkStates
  <2>9. Tally(t, v, n, b) /\ Saves(y, v, n)
    <3>1. CASE v.saved = y.saved /\ (HasSaved(t, v) <=> HasSaved(x, y))
      <4>1. t.last \in {x.last, None}
        BY <1>2
      <4> QED BY <1>1, <1>2, <3>1, <4>1, TallyKept DEF Saves
    <3>2. CASE /\ v.saved = Append(y.saved, UnitsOf(x.file)) /\ Whole(UnitsOf(x.file), x.file)
               /\ ~HasSaved(x, y) /\ HasSaved(t, v)
      <4>1. UnitsOf(x.file) \in Seq(Parts) /\ SavedTimes(y, x.file) < n[x.file]
        BY <1>1, <2>2, <3>2, UnitsType DEF Tally
      <4> QED BY <1>1, <2>2, <2>6, <3>2, <4>1, TallySaves DEF Saves
    <3> QED BY <2>6, <3>1, <3>2
  <2>12. LoadOf(t, v, new) <= LoadOf(x, y, back)
    <3>1. back \in Seq(Frames) /\ new \in Seq(Frames)
          /\ Count(new, Kind({"I", "RR"})) <= Count(back, Kind({"I", "RR"})) + Cost(f, y)
      BY <1>1, <2>6, LineBack DEF Adds, back
    <3>2. Cost(f, y) \in Nat
      BY DEF Cost
    <3>3. CASE I
      <4>1. f.kind = "I" /\ Cost(f, y) <= 1
        BY <2>11, <3>3 DEF Cost
      <4> QED BY <1>1, <1>2, <3>1, <3>2, <4>1, ReceiverPays DEF f
    <3>4. CASE ~I
      <4>1. Cost(f, y) <= (IF f.kind = "I" THEN 2 ELSE IF f.kind = "RR" THEN 1 ELSE 0)
        BY DEF Cost
      <4>2. Waiting(x, y) => Waiting(t, v)
        BY <2>6, <2>10, <3>4 DEF Waiting
      <4> QED BY <1>1, <1>2, <3>1, <3>2, <4>1, <4>2, ReceiverPays DEF f
    <3> QED BY <3>3, <3>4
  <2>13. new \in Seq(Frames)
    BY <2>6 DEF Adds
  <2> QED BY <1>2, <2>6, <2>7, <2>8, <2>9, <2>12, <2>13 DEF Fits, v, f, back
<1>4. CASE x.state \in {"Idle", "Discover"} /\ Leftover(x, y, back, n)
  <2>1. LeftoverHeard(x, y, t, v, back, new, n)
    BY <1>1, <1>4, LeftoverHears
  <2> HIDE DEF v, f, back
  <2>2. /\ v \in Receivers /\ new \in Seq(Frames) /\ InNumbers(t, v)
        /\ Leftover(t, v, new, n) /\ LoadOf(t, v, new) <= LoadOf(x, y, back)
        /\ SavesNone(y, v) \/ SavesOne(x, y, v, n)
    BY <2>1 DEF LeftoverHeard
  <2>3. Mode(t, v, new, n)
    BY <1>2, <1>4, <2>2 DEF Mode, LinkStates
  <2>4. Tally(t, v, n, b) /\ Saves(y, v, n)
    <3>1. CASE SavesNone(y, v)
      <4>1. t.last \in {x.last, None}
        BY <1>2
      <4>2. ~HasSaved(t, v) /\ ~HasSaved(x, y)
        BY <1>2, <1>4 DEF HasSaved
      <4>3. v.saved = y.saved
        BY <3>1 DEF SavesNone
      <4> QED BY <1>1, <1>2, <4>1, <4>2, <4>3, TallyKept DEF Saves
    <3>2. CASE SavesOne(x, y, v, n)
      <4>1. Tally(t, v, n, b)
        BY <1>1, <1>4, <2>2, <3>2, TallyLeft
      <4>2. PICK g \in Files, o \in Seq(Parts) :
              /\ Whole(o, g) /\ v.saved = Append(y.saved, o)
              /\ SavedTimes(y, g) + (IF x.file = g THEN 1 ELSE 0) < n[g]
        BY <3>2 DEF SavesOne
      <4>3. SavedTimes(y, g) \in Nat /\ n[g] \in Nat
        BY <1>1, SavedCount DEF Tally
      <4>4. SavedTimes(y, g) < n[g]
        BY <4>2, <4>3
      <4> QED BY <4>1, <4>2, <4>4 DEF Saves
    <3> QED BY <2>2, <3>1, <3>2
  <2> QED BY <1>2, <2>2, <2>3, <2>4 DEF Fits, v, f, back
<1>5. CASE x.state \in {"Discover", "Snrm"} /\ SettingUp(x, y, back)
  <2>1. SetupHeard(x, y, t, v, line \o Answers(v)) /\ f.kind # "Disc"
    BY <1>1, <1>5, SetupHears
  <2>2. new = line \o Answers(v)
    BY <2>1
  <2>3. x.pending \in BOOLEAN /\ back \in Seq(Frames)
    BY <1>1, LineBack DEF Senders
  <2> HIDE DEF v, f, back
  <2>4. v \in Receivers /\ InNumbers(t, v) /\ SettingUp(t, v, new) /\ v.saved = y.saved
    BY <2>1, <2>2 DEF SetupHeard
  <2>5. Mode(t, v, new, n)
    BY <1>2, <1>5, <2>4 DEF Mode, LinkStates
  <2>6. Tally(t, v, n, b)
    <3>1. t.last \in {x.last, None}
      BY <1>2
    <3>2. ~HasSaved(t, v) /\ ~HasSaved(x, y)
      BY <1>2, <1>5 DEF HasSaved
    <3> QED BY <1>1, <1>2, <2>4, <3>1, <3>2, TallyKept
  <2>7. new \in Seq(Frames) /\ LoadOf(t, v, new) <= LoadOf(x, y, back)
    <3>1. /\ ~Waiting(x, y) /\ Count(x.serial, Kind({"I"})) = 0 /\ Count(x.serial, Kind({"RR"})) = 0
          /\ back \in Seq(Frames) /\ Count(back, Kind({"I", "RR"})) = 0
      BY <1>1, <1>5, SetupLine
    <3>2. /\ ~Waiting(t, v) /\ Count(t.serial, Kind({"I"})) = 0 /\ Count(t.serial, Kind({"RR"})) = 0
          /\ new \in Seq(Frames) /\ Count(new, Kind({"I", "RR"})) = 0
      BY <1>2, <2>4, SetupLine
    <3> QED BY <1>2, <3>1, <3>2 DEF LoadOf
  <2> QED BY <1>2, <2>4, <2>5, <2>6, <2>7 DEF Fits, Saves, v, f, back
<1>6. x.state \in SendStates
  BY <1>1 DEF Senders
<1> QED BY <1>1, <1>3, <1>4, <1>5, <1>6 DEF Mode, SendStates, LinkStates

\* The end of a link is answered on the line at once.
LineAfter(line, f) == IF f.kind = "Disc" THEN Append(line, Control("Ua")) ELSE line

\* After each frame an answer moves up.
LEMMA ReceiverStep ==
    ASSUME NEW x, NEW y, NEW line \in Seq(Frames), NEW n, NEW b,
           Fits(x, y, line \o Answers(y), n, b), x.serial # <<>>
    PROVE  LET t == [x EXCEPT !.serial = Tail(x.serial)]
               v == TakeUp(HandleIrdaFrame(y, Head(x.serial)))
               new == LineAfter(line, Head(x.serial)) \o Answers(v)
           IN  /\ Fits(t, v, new, n, b) /\ Saves(y, v, n) /\ t.file = x.file
               /\ LoadOf(t, v, new) <= LoadOf(x, y, line \o Answers(y))
<1> DEFINE t == [x EXCEPT !.serial = Tail(x.serial)]
           u == HandleIrdaFrame(y, Head(x.serial))
           v == TakeUp(u)
           old == LineAfter(line, Head(x.serial)) \o Answers(u)
           new == LineAfter(line, Head(x.serial)) \o Answers(v)
<1>1. SameSender(x, t) /\ t.serial = Tail(x.serial)
  BY TakesFrame DEF Fits
<1>2. t.file = x.file
  BY <1>1 DEF SameSender, SamePlace
<1> HIDE DEF t
<1>3. old = (IF Head(x.serial).kind = "Disc" THEN Append(line, Control("Ua")) ELSE line)
            \o Answers(HandleIrdaFrame(y, Head(x.serial)))
  BY DEF LineAfter
<1> HIDE DEF old
<1>4. /\ Fits(t, u, old, n, b) /\ Saves(y, u, n)
      /\ LoadOf(t, u, old) <= LoadOf(x, y, line \o Answers(y))
  BY <1>1, <1>3, ReceiverTakes
<1> HIDE DEF u
<1>5. SameLink(u, v) /\ Answers(v) = Answers(u)
  BY <1>4, TakesUp DEF Fits
<1>6. new = old
  BY <1>5 DEF old
<1> HIDE DEF v, new
<1>7. Fits(t, v, old, n, b) /\ LoadOf(t, v, old) = LoadOf(t, u, old)
  BY <1>4, <1>5, FitsMoved
<1>8. Saves(y, v, n)
  BY <1>4, <1>5 DEF Saves, SameLink
<1> QED BY <1>2, <1>4, <1>6, <1>7, <1>8 DEF t, u, v, new

----------------------------------------------------------------------------
(* What the line loses *)

\* The invariant survives a request that is lost, in every mode.
LEMMA LosesRequest ==
    ASSUME NEW x, NEW y, NEW back, NEW n, NEW b, Fits(x, y, back, n, b), x.serial # <<>>,
           NEW t, SameSender(x, t), t.serial = Tail(x.serial)
    PROVE  Fits(t, y, back, n, b) /\ LoadOf(t, y, back) <= LoadOf(x, y, back)
<1>1. /\ x \in Senders /\ y \in Receivers /\ back \in Seq(Frames) /\ InNumbers(x, y)
      /\ Mode(x, y, back, n) /\ Tally(x, y, n, b) /\ SameLink(y, y) /\ x.serial \in Seq(Frames)
  BY DEF Fits, SameLink, Senders
<1>2. /\ t \in Senders /\ t.state = x.state /\ t.file = x.file /\ t.pending = x.pending
      /\ t.last \in {x.last, None} /\ t.offset = x.offset /\ t.endSent = x.endSent
  BY DEF SameSender, SamePlace
<1>3. InNumbers(t, y) /\ (HasSaved(t, y) <=> HasSaved(x, y))
  BY <1>1, SameNumbers, HasSavedStays
<1>4. Tally(t, y, n, b)
  BY <1>1, <1>2, <1>3, TallyKept
<1>5. Leftover(x, y, back, n) => Leftover(t, y, back, n)
  <2>1. Leftover(x, y, back, n) => On(back) \subseteq Kind({"I", "RR", "Ua"})
    BY DEF Leftover
  <2> QED BY <1>1, <2>1, LeftoverKept
<1>6. SettingUp(x, y, back) => SettingUp(t, y, back)
  BY <1>1, SetupKept
<1>7. InLink(x, y, back) => InLink(t, y, back)
  BY <1>1, LineLosesRequest
<1>8. Mode(t, y, back, n)
  BY <1>1, <1>2, <1>5, <1>6, <1>7 DEF Mode
<1>9. LoadOf(t, y, back) <= LoadOf(x, y, back)
  <2>1. 0 \in Nat /\ Count(back, Kind({"I", "RR"})) <= Count(back, Kind({"I", "RR"})) + 0
    BY <1>1, WeightNat
  <2>2. CASE Head(x.serial).kind = "I"
    <3>1. Head(x.serial).kind = "I" /\ 0 <= 1
      BY <2>2
    <3> QED BY <1>1, <1>2, <2>1, <3>1, ReceiverPays
  <2>3. CASE Head(x.serial).kind # "I"
    <3>1. On(x.serial) = On(t.serial) \union {Head(x.serial)}
      BY <1>1, OnHead
    <3>2. Waiting(x, y) => Waiting(t, y)
      BY <2>3, <3>1 DEF Waiting, Info
    <3>3. 0 <= (IF Head(x.serial).kind = "I" THEN 2
                ELSE IF Head(x.serial).kind = "RR" THEN 1 ELSE 0)
      OBVIOUS
    <3> QED BY <1>1, <1>2, <2>1, <3>2, <3>3, ReceiverPays
  <2> QED BY <2>2, <2>3
<1> QED BY <1>1, <1>2, <1>3, <1>4, <1>8, <1>9 DEF Fits

\* A frame of the line back that is gone, from what a link left behind or from its setup.
LEMMA BackGone ==
    ASSUME NEW x, NEW y, NEW back \in Seq(Frames), back # <<>>
    PROVE  /\ \A n : Leftover(x, y, back, n) => Leftover(x, y, Tail(back), n)
           /\ SettingUp(x, y, back) => Tail(back) = <<>> /\ SettingUp(x, y, Tail(back))
<1>1. On(Tail(back)) \subseteq On(back)
  BY OnTail
<1>2. ASSUME NEW n, Leftover(x, y, back, n) PROVE Leftover(x, y, Tail(back), n)
  BY <1>1, <1>2 DEF Leftover
<1>3. ASSUME SettingUp(x, y, back) PROVE Tail(back) = <<>> /\ SettingUp(x, y, Tail(back))
  <2>1. back \in {<<Control("XidResponse")>>, <<Control("Ua")>>}
    BY <1>3 DEF SettingUp
  <2>2. Tail(back) = <<>>
    <3> DEFINE p == Control("XidResponse")
               q == Control("Ua")
    <3>0. back \in {<<p>>, <<q>>}
      BY <2>1
    <3> HIDE DEF p, q
    <3>1. \A g : Tail(<<g>>) = <<>>
      OBVIOUS
    <3> QED BY <3>0, <3>1
  <2>3. <<>> # <<Control("Ua")>> /\ <<>> # <<Control("XidResponse")>>
    OBVIOUS
  <2> QED BY <1>3, <2>2, <2>3 DEF SettingUp
<1> QED BY <1>2, <1>3

\* What an answer that leaves the line back takes off the load.
LEMMA LoadBack ==
    ASSUME NEW x, NEW y, NEW back \in Seq(Frames), back # <<>>, x \in Senders
    PROVE  /\ LoadOf(x, y, Tail(back)) + (IF Head(back).kind \in {"I", "RR"} THEN 1 ELSE 0)
                  = LoadOf(x, y, back)
           /\ LoadOf(x, y, back) \in Int /\ LoadOf(x, y, Tail(back)) \in Int
<1> DEFINE A == Count(x.serial, Kind({"I"}))
           B == Count(x.serial, Kind({"RR"}))
           C == Count(back, Kind({"I", "RR"}))
           D == Count(Tail(back), Kind({"I", "RR"}))
           p == IF x.pending THEN 1 ELSE 0
           w == IF Waiting(x, y) THEN 1 ELSE 0
           k == IF Head(back).kind \in {"I", "RR"} THEN 1 ELSE 0
<1>1. x.serial \in Seq(Frames) /\ Tail(back) \in Seq(Frames)
  BY OnTail DEF Senders
<1>2. C = D + k
  BY WeightTail
<1>3. A \in Nat /\ B \in Nat /\ C \in Nat /\ D \in Nat
  BY <1>1, WeightNat
<1>4. p \in Nat /\ w \in Nat /\ k \in Nat
  OBVIOUS
<1>5. LoadOf(x, y, back) = 2 * A + B + C + p - w
      /\ LoadOf(x, y, Tail(back)) = 2 * A + B + D + p - w
  BY DEF LoadOf
<1> HIDE DEF A, B, C, D, p, w
<1> QED BY <1>2, <1>3, <1>4, <1>5

\* The invariant survives an answer that is lost.
LEMMA LosesAnswer ==
    ASSUME NEW x, NEW y, NEW back, NEW n, NEW b, Fits(x, y, back, n, b), back # <<>>
    PROVE  Fits(x, y, Tail(back), n, b) /\ LoadOf(x, y, Tail(back)) <= LoadOf(x, y, back)
<1>1. /\ x \in Senders /\ y \in Receivers /\ back \in Seq(Frames)
      /\ Mode(x, y, back, n) /\ Tail(back) \in Seq(Frames)
  BY OnTail DEF Fits
<1>2. InLink(x, y, back) => InLink(x, y, Tail(back))
  BY <1>1, BackLoses
<1>3. Mode(x, y, Tail(back), n)
  BY <1>1, <1>2, BackGone DEF Mode
<1>4. LoadOf(x, y, Tail(back)) <= LoadOf(x, y, back)
  BY <1>1, LoadBack
<1> QED BY <1>1, <1>3, <1>4 DEF Fits

----------------------------------------------------------------------------
(* Steps of the sender *)

\* What may become of a send when a frame is heard.
SenderHeard(x, y, t, b) ==
    \/ t.file = x.file /\ (t.state = "Idle" <=> x.state = "Idle")
    \/ /\ t.file = None /\ t.state = "Idle" /\ x.file \in Files
       /\ HasDelivered(x, y, b) \/ x.file \in EmptyFiles

\* A frame more that the sender writes, and a frame less on the line back.
LEMMA SenderPays ==
    ASSUME NEW x \in Senders, NEW t \in Senders, NEW y, NEW back \in Seq(Frames), back # <<>>,
           \/ /\ t.serial = x.serial \/ \E f \in Kind({"RR"}) : t.serial = Append(x.serial, f)
              /\ Head(back).kind = "I" \/ t.serial = x.serial
              /\ t.pending = x.pending
           \/ /\ \E f \in Info(y.receiveNext) : t.serial = Append(x.serial, f)
              /\ Head(back).kind = "I" /\ ~t.pending /\ ~Waiting(x, y) /\ y.connected
           \/ t.serial = x.serial /\ Head(back).kind = "I" /\ ~x.pending
    PROVE  LoadOf(t, y, Tail(back)) <= LoadOf(x, y, back)
<1> DEFINE A == Count(x.serial, Kind({"I"}))
           B == Count(x.serial, Kind({"RR"}))
           E == Count(t.serial, Kind({"I"}))
           F == Count(t.serial, Kind({"RR"}))
           C == Count(back, Kind({"I", "RR"}))
           D == Count(Tail(back), Kind({"I", "RR"}))
           p == IF x.pending THEN 1 ELSE 0
           q == IF t.pending THEN 1 ELSE 0
           w == IF Waiting(x, y) THEN 1 ELSE 0
           u == IF Waiting(t, y) THEN 1 ELSE 0
           k == IF Head(back).kind \in {"I", "RR"} THEN 1 ELSE 0
<1>1. x.serial \in Seq(Frames) /\ t.serial \in Seq(Frames) /\ Tail(back) \in Seq(Frames)
  BY OnTail DEF Senders
<1>2. C = D + k
  BY WeightTail
<1>3. A \in Nat /\ B \in Nat /\ C \in Nat /\ D \in Nat /\ E \in Nat /\ F \in Nat
  BY <1>1, WeightNat
<1>4. p \in {0, 1} /\ q \in {0, 1} /\ w \in {0, 1} /\ u \in {0, 1} /\ k \in {0, 1}
  OBVIOUS
<1>5. LoadOf(x, y, back) = 2 * A + B + C + p - w
      /\ LoadOf(t, y, Tail(back)) = 2 * E + F + D + q - u
  BY DEF LoadOf
<1>6. ASSUME t.serial = x.serial PROVE E = A /\ F = B /\ u = w
  BY <1>6 DEF Waiting
<1>7. ASSUME NEW f \in Kind({"RR"}), t.serial = Append(x.serial, f)
      PROVE  E = A /\ F = B + 1 /\ u = w
  <2>1. f \in Frames /\ f.kind = "RR"
    BY DEF Kind
  <2>2. On(t.serial) = On(x.serial) \union {f}
    BY <1>1, <1>7, <2>1, OnAppend
  <2>3. u = w
    BY <2>1, <2>2 DEF Waiting, Info
  <2>4. E = A + 0 /\ F = B + 1
    BY <1>1, <1>7, <2>1, WeightAppend
  <2> QED BY <1>3, <2>3, <2>4
<1>8. ASSUME NEW f \in Info(y.receiveNext), t.serial = Append(x.serial, f), y.connected
      PROVE  E = A + 1 /\ F = B /\ u = 1
  <2>1. f \in Frames /\ f.kind = "I"
    BY DEF Info
  <2>2. On(t.serial) = On(x.serial) \union {f}
    BY <1>1, <1>8, <2>1, OnAppend
  <2>3. u = 1
    BY <1>8, <2>2 DEF Waiting
  <2>4. E = A + 1 /\ F = B + 0
    BY <1>1, <1>8, <2>1, WeightAppend
  <2> QED BY <1>3, <2>3, <2>4
<1>9. CASE /\ t.serial = x.serial \/ \E f \in Kind({"RR"}) : t.serial = Append(x.serial, f)
           /\ Head(back).kind = "I" \/ t.serial = x.serial
           /\ t.pending = x.pending
  <2>1. p = q
    BY <1>9
  <2>2. CASE t.serial = x.serial
    <3>1. E = A /\ F = B /\ u = w
      BY <1>6, <2>2
    <3> HIDE DEF A, B, C, D, E, F, p, q, w, u, k
    <3> QED BY <1>2, <1>3, <1>4, <1>5, <2>1, <3>1
  <2>3. CASE t.serial # x.serial
    <3>1. E = A /\ F = B + 1 /\ u = w /\ k = 1
      BY <1>7, <1>9, <2>3
    <3> HIDE DEF A, B, C, D, E, F, p, q, w, u, k
    <3> QED BY <1>2, <1>3, <1>4, <1>5, <2>1, <3>1
  <2> QED BY <2>2, <2>3
<1>10. CASE /\ \E f \in Info(y.receiveNext) : t.serial = Append(x.serial, f)
            /\ Head(back).kind = "I" /\ ~t.pending /\ ~Waiting(x, y) /\ y.connected
  <2>1. E = A + 1 /\ F = B /\ u = 1
    BY <1>8, <1>10
  <2>2. k = 1 /\ q = 0 /\ w = 0
    BY <1>10
  <2> HIDE DEF A, B, C, D, E, F, p, q, w, u, k
  <2> QED BY <1>2, <1>3, <1>4, <1>5, <2>1, <2>2
<1>11. CASE t.serial = x.serial /\ Head(back).kind = "I" /\ ~x.pending
  <2>1. E = A /\ F = B /\ u = w
    BY <1>6, <1>11
  <2>2. k = 1 /\ p = 0
    BY <1>11
  <2> HIDE DEF A, B, C, D, E, F, p, q, w, u, k
  <2> QED BY <1>2, <1>3, <1>4, <1>5, <2>1, <2>2
<1> QED BY <1>9, <1>10, <1>11

\* In a link.
LEMMA LinkAnswered ==
    ASSUME NEW x, NEW y, NEW back, NEW n, NEW b, Fits(x, y, back, n, b), back # <<>>,
           x.state \in LinkStates
    PROVE  LET t == HandleIrdaBeamSenderFrame(x, Head(back))
           IN  /\ Fits(t, y, Tail(back), n, b) /\ SenderHeard(x, y, t, b)
               /\ LoadOf(t, y, Tail(back)) <= LoadOf(x, y, back)
<1> DEFINE f == Head(back)
           t == HandleIrdaBeamSenderFrame(x, f)
           rest == Tail(back)
<1>1. /\ x \in Senders /\ y \in Receivers /\ back \in Seq(Frames) /\ InNumbers(x, y)
      /\ InLink(x, y, back) /\ Tally(x, y, n, b) /\ rest \in Seq(Frames)
  BY OnTail DEF Fits, Mode
<1>2. x.file \in Files /\ x.state # "Idle"
  BY <1>1 DEF Tally, LinkStates
<1>3. f \in Frames /\ f.kind = "I"
  <2>1. f \in On(back)
    BY <1>1, OnTail
  <2> QED BY <1>1, <2>1 DEF InLink, ReceiverInLink, AnswersInStep, Kind
<1>4. CASE f \notin Info(x.receiveNext)
  <2>1. /\ SameTurn(x, t) /\ InLink(t, y, rest)
        /\ \E g \in Kind({"RR"}) : t.serial = Append(x.serial, g)
    BY <1>1, <1>4, HearsRepeat
  <2> HIDE DEF t, f, rest
  <2>2. /\ t \in Senders /\ t.state = x.state /\ t.file = x.file /\ t.offset = x.offset
        /\ t.pending = x.pending /\ t.endSent = x.endSent
        /\ t.receiveNext = x.receiveNext /\ t.transmitNext = x.transmitNext
    BY <2>1 DEF SameTurn, SamePlace
  <2>3. HasSaved(t, y) <=> HasSaved(x, y)
    BY <2>2 DEF HasSaved, Answering
  <2>4. Tally(t, y, n, b)
    <3>1. HasDelivered(t, y, b) <=> HasDelivered(x, y, b)
      BY <2>2 DEF HasDelivered
    <3>2. t.state \in LinkStates
      BY <2>2
    <3> QED BY <1>1, <2>2, <2>3, <3>1, <3>2 DEF Tally
  <2>5. Mode(t, y, rest, n)
    BY <2>1, <2>2 DEF Mode, LinkStates
  <2>6. InNumbers(t, y)
    BY <1>1, <2>2 DEF InNumbers
  <2>7. LoadOf(t, y, rest) <= LoadOf(x, y, back)
    BY <1>1, <1>3, <2>1, <2>2, SenderPays DEF rest, f
  <2>8. SenderHeard(x, y, t, b)
    BY <2>2 DEF SenderHeard
  <2> QED BY <1>1, <2>2, <2>4, <2>5, <2>6, <2>7, <2>8 DEF Fits, t, f, rest
<1>5. CASE f \in Info(x.receiveNext)
  <2>1. t \in Senders /\ (GoesOn(x, y, t, rest) \/ Ends(x, y, t, rest))
    BY <1>1, <1>2, <1>5, HearsAnswer
  <2>2. ~x.pending /\ ~Waiting(x, y) /\ y.connected
    BY <1>1, <1>5, AnswerTaken DEF Waiting, InLink, ReceiverInLink
  <2> HIDE DEF t, f, rest
  <2>3. CASE GoesOn(x, y, t, rest)
    <3>1. /\ t.state \in LinkStates /\ t.file = x.file /\ InLink(t, y, rest)
          /\ HasSaved(x, y) => HasSaved(t, y)
          /\ HasSaved(t, y) => HasSaved(x, y) \/ x.file \in EmptyFiles
          /\ \/ t.serial = Append(x.serial, t.last) /\ t.last \in Info(y.receiveNext) /\ ~t.pending
             \/ t.serial = x.serial /\ Pausing(t, y)
      BY <2>3 DEF GoesOn
    <3>2. Tally(t, y, n, b)
      <4>1. HasDelivered(t, y, b) <=> HasDelivered(x, y, b)
        BY <3>1 DEF HasDelivered
      <4>2. t.state # "Idle"
        BY <3>1 DEF LinkStates
      <4> QED BY <1>1, <1>2, <3>1, <4>1, <4>2 DEF Tally
    <3>3. Mode(t, y, rest, n)
      BY <3>1 DEF Mode, LinkStates
    <3>4. InNumbers(t, y)
      <4>1. CASE t.serial = Append(x.serial, t.last) /\ t.last \in Info(y.receiveNext)
        <5>1. x.serial \in Seq(Frames) /\ t.last \in Frames
          BY <1>1, <4>1 DEF Senders, Info
        <5>2. t.last \in On(t.serial)
          BY <4>1, <5>1, OnAppend
        <5>3. Asking(t, y)
          BY <3>1, <4>1, <5>2 DEF InLink, SenderInLink
        <5> QED BY <1>1, <5>3, NextNumber DEF Asking, InNumbers
      <4>2. CASE Pausing(t, y)
        BY <1>1, <4>2 DEF Pausing, InNumbers
      <4> QED BY <3>1, <4>1, <4>2
    <3>5. LoadOf(t, y, rest) <= LoadOf(x, y, back)
      BY <1>1, <1>3, <2>1, <2>2, <3>1, SenderPays DEF rest, f
    <3>6. SenderHeard(x, y, t, b)
      BY <1>2, <3>1 DEF SenderHeard, LinkStates
    <3> QED BY <1>1, <2>1, <3>2, <3>3, <3>4, <3>5, <3>6 DEF Fits, t, f, rest
  <2>4. CASE Ends(x, y, t, rest)
    <3>1. /\ x.state = "ObexDisconnect" /\ t.state = "Idle" /\ t.file = None
          /\ t.last = None /\ ~t.pending /\ t.receiveNext = 0 /\ t.transmitNext = 0
          /\ ~t.endSent /\ t.offset = 0
          /\ t.serial = Append(x.serial, Control("Disc"))
          /\ Leftover(t, y, rest, n)
      BY <2>4 DEF Ends
    <3>2. HasSaved(x, y) /\ ~HasSaved(t, y)
      BY <3>1 DEF HasSaved
    <3>3. HasDelivered(x, y, b) \/ x.file \in EmptyFiles
      BY <1>1, <3>2 DEF Tally
    <3>4. Tally(t, y, n, b)
      BY <1>1, <3>1, <3>2, BeamAssumption DEF Tally
    <3>5. Mode(t, y, rest, n)
      BY <3>1 DEF Mode, LinkStates
    <3>6. InNumbers(t, y)
      BY <1>1, <3>1, NextNumber DEF InNumbers
    <3>7. SenderHeard(x, y, t, b)
      BY <1>2, <3>1, <3>3 DEF SenderHeard
    <3>8. LoadOf(t, y, rest) <= LoadOf(x, y, back)
      <4> DEFINE g == Control("Disc")
                 line == Append(x.serial, g)
      <4>1. g \in Frames /\ g.kind = "Disc" /\ x.serial \in Seq(Frames)
        BY <1>1, ControlType DEF FrameKinds, Senders
      <4>2. t.serial = line /\ t.serial \in Seq(Frames)
        BY <2>1, <3>1 DEF Senders
      <4> HIDE DEF g
      <4>3. /\ Count(line, Kind({"I"})) = Count(x.serial, Kind({"I"})) + 0
            /\ Count(line, Kind({"RR"})) = Count(x.serial, Kind({"RR"})) + 0
        BY <4>1, WeightAppend
      <4>4. On(line) = On(x.serial) \union {g}
        BY <4>1, OnAppend
      <4>5. ~Waiting(t, y)
        BY <2>2, <4>1, <4>2, <4>4 DEF Waiting, Info
      <4>6. /\ Count(back, Kind({"I", "RR"})) = Count(rest, Kind({"I", "RR"})) + 1
            /\ Count(rest, Kind({"I", "RR"})) \in Nat
        BY <1>1, <1>3, WeightTail, WeightNat DEF f, rest
      <4>7. Count(x.serial, Kind({"I"})) \in Nat /\ Count(x.serial, Kind({"RR"})) \in Nat
        BY <4>1, WeightNat
      <4> HIDE DEF line
      <4> DEFINE A == Count(x.serial, Kind({"I"}))
                 B == Count(x.serial, Kind({"RR"}))
                 C == Count(back, Kind({"I", "RR"}))
                 D == Count(rest, Kind({"I", "RR"}))
      <4>8. LoadOf(x, y, back) = 2 * A + B + C + 0 - 0
        BY <2>2 DEF LoadOf
      <4>9. LoadOf(t, y, rest) = 2 * (A + 0) + (B + 0) + D + 0 - 0
        BY <3>1, <4>2, <4>3, <4>5 DEF LoadOf
      <4>10. A \in Nat /\ B \in Nat /\ D \in Nat /\ C = D + 1
        BY <4>6, <4>7
      <4> HIDE DEF A, B, C, D
      <4> QED BY <4>8, <4>9, <4>10
    <3> QED BY <1>1, <2>1, <3>4, <3>5, <3>6, <3>7, <3>8 DEF Fits, t, f, rest
  <2> QED BY <2>1, <2>3, <2>4
<1> QED BY <1>4, <1>5

\* Nothing that a sender acknowledges disturbs what a link left behind.
LEMMA LeftoverReady ==
    ASSUME NEW x \in Senders, NEW y, NEW back, NEW n, y.receiveNext \in Numbers,
           Leftover(x, y, back, n), NEW t, t.state = x.state, t.file = x.file,
           t.serial = x.serial \/ \E g \in Kind({"RR"}) : t.serial = Append(x.serial, g)
    PROVE  Leftover(t, y, back, n)
<1>1. CASE t.serial = x.serial
  <2>1. RequestsInStep(x, y) => RequestsInStep(t, y)
    BY <1>1 DEF RequestsInStep
  <2> QED BY <1>1, <2>1 DEF Leftover
<1>2. CASE \E g \in Kind({"RR"}) : t.serial = Append(x.serial, g)
  <2>1. PICK g \in Frames : g.kind = "RR" /\ t.serial = Append(x.serial, g)
    BY <1>2 DEF Kind
  <2>2. On(t.serial) = On(x.serial) \union {g} /\ x.serial \in Seq(Frames)
    BY <2>1, OnAppend DEF Senders
  <2>3. InStep(x.serial, y.receiveNext) => InStep(t.serial, y.receiveNext)
    BY <2>1, <2>2, InStepAppend
  <2>4. g \notin Info(y.receiveNext) /\ g \in Kind({"Xid", "I", "RR", "Disc"}) \ AnswerXids
        /\ g \notin Kind({"Disc"})
    BY <2>1 DEF Info, Kind, AnswerXids
  <2>5. RequestsInStep(x, y) => RequestsInStep(t, y)
    BY <2>2, <2>3, <2>4 DEF RequestsInStep
  <2>6. t.state \in {"Discover", "Idle"}
        /\ On(t.serial) \subseteq Kind({"Xid", "I", "RR", "Disc"}) \ AnswerXids
    BY <2>2, <2>4 DEF Leftover
  <2>7. On(t.serial) \intersect Info(y.receiveNext) = On(x.serial) \intersect Info(y.receiveNext)
        /\ On(t.serial) \intersect Kind({"Disc"}) = On(x.serial) \intersect Kind({"Disc"})
    BY <2>2, <2>4
  <2>8. y.connected =>
         /\ RequestsInStep(t, y)
         /\ \A f \in On(t.serial) \intersect Info(y.receiveNext) :
               /\ On(t.serial) \intersect Kind({"Disc"}) = {}
               /\ f.data.kind = "PutBody" /\ f.data.final =>
                     \E g1 \in Files : /\ Whole(y.body \o f.data.units, g1)
                                       /\ SavedTimes(y, g1) + (IF t.file = g1 THEN 1 ELSE 0) < n[g1]
    BY <2>5, <2>7 DEF Leftover
  <2> QED BY <2>6, <2>8 DEF Leftover
<1> QED BY <1>1, <1>2

\* A sender that discovers acknowledges what is left of a link before.
LEMMA DiscovererHears ==
    ASSUME NEW x \in Senders, x.state = "Discover", x.last = None,
           NEW f \in Frames, f.kind \in {"I", "RR", "Ua"}
    PROVE  LET t == HandleIrdaBeamSenderFrame(x, f)
           IN  /\ t \in Senders /\ t.state = x.state /\ t.file = x.file /\ t.offset = x.offset
               /\ t.pending = x.pending /\ t.endSent = x.endSent /\ t.last = None
               /\ t.transmitNext = x.transmitNext
               /\ t.receiveNext \in {x.receiveNext, NextSeq(x.receiveNext)}
               /\ \/ t.serial = x.serial
                  \/ f.kind = "I" /\ \E g \in Kind({"RR"}) : t.serial = Append(x.serial, g)
<1> DEFINE t == HandleIrdaBeamSenderFrame(x, f)
<1>1. CASE f.kind = "Ua"
  <2>1. t = x
    BY <1>1 DEF HandleIrdaBeamSenderFrame
  <2> HIDE DEF t
  <2> QED BY <2>1 DEF t
<1>2. CASE f.kind = "RR"
  <2>1. t = HandleReceiveReady(x, f)
    BY <1>2 DEF HandleIrdaBeamSenderFrame
  <2>2. t = Acknowledged(x, f.nr) \/ t = x
    BY <2>1 DEF HandleReceiveReady, RetransmitLast, CanRetransmit
  <2>3. SameTurn(x, Acknowledged(x, f.nr)) /\ Acknowledged(x, f.nr).serial = x.serial
        /\ Acknowledged(x, f.nr).last = None
    BY Acknowledges
  <2> HIDE DEF t
  <2> QED BY <2>2, <2>3 DEF t, SameTurn, SamePlace
<1>3. CASE f.kind = "I" /\ f.ns # x.receiveNext
  <2> DEFINE b == Acknowledged(x, f.nr)
             g == Frame("RR", 0, x.receiveNext, Message("none"))
  <2>1. t = SendIrdaBeamReceiveReady(b)
    <3>1. t = HandleInformation(x, f)
      BY <1>3 DEF HandleIrdaBeamSenderFrame
    <3> QED BY <1>3, <3>1 DEF HandleInformation
  <2>2. SameTurn(x, b) /\ b.serial = x.serial /\ b.last = None
    BY Acknowledges
  <2>3. t = Write(b, g)
    BY <2>1, <2>2 DEF SendIrdaBeamReceiveReady, SameTurn
  <2>4. g \in Frames /\ g.kind = "RR" /\ g \in Kind({"RR"})
    <3>1. x.receiveNext \in Nat /\ Message("none") \in Messages /\ "RR" \in FrameKinds
      BY MessageType DEF Senders, MessageKinds, FrameKinds
    <3>2. g \in Frames /\ g.kind = "RR"
      BY <3>1, FrameType
    <3> QED BY <3>2 DEF Kind
  <2> HIDE DEF b, g
  <2>5. SameTurn(b, t) /\ t.last = b.last /\ t.serial = Append(b.serial, g)
    <3>1. b \in Senders
      BY <2>2 DEF SameTurn
    <3> QED BY <2>3, <2>4, <3>1, WritesFrame
  <2> HIDE DEF t
  <2> QED BY <1>3, <2>2, <2>4, <2>5 DEF t, SameTurn, SamePlace
<1>4. CASE f.kind = "I" /\ f.ns = x.receiveNext
  <2>1. PICK a \in Senders :
          /\ t = HandleIrdaBeamSenderPayload(a, f.data)
          /\ Heard(x, AddIrdaBeamTinyTpCredit(a, f.data))
    BY <1>4, HearsMessage
  <2> DEFINE c == AddIrdaBeamTinyTpCredit(a, f.data)
  <2>2. c.state = "Discover"
    BY <2>1 DEF Heard
  <2>3. t = c
    BY <2>1, <2>2 DEF HandleIrdaBeamSenderPayload
  <2> HIDE DEF t, c
  <2> QED BY <2>1, <2>3 DEF t, c, Heard
<1> QED BY <1>1, <1>2, <1>3, <1>4

\* Outside a link.
LEMMA LeftAnswered ==
    ASSUME NEW x, NEW y, NEW back, NEW n, NEW b, Fits(x, y, back, n, b), back # <<>>,
           x.state \in {"Idle", "Discover"}, Leftover(x, y, back, n)
    PROVE  LET t == HandleIrdaBeamSenderFrame(x, Head(back))
           IN  /\ Fits(t, y, Tail(back), n, b) /\ SenderHeard(x, y, t, b)
               /\ LoadOf(t, y, Tail(back)) <= LoadOf(x, y, back)
<1> DEFINE f == Head(back)
           t == HandleIrdaBeamSenderFrame(x, f)
           rest == Tail(back)
<1>1. /\ x \in Senders /\ y \in Receivers /\ back \in Seq(Frames) /\ InNumbers(x, y)
      /\ Tally(x, y, n, b) /\ rest \in Seq(Frames) /\ x.last = None
  BY OnTail DEF Fits, Tally, LinkStates
<1>2. f \in Frames /\ f.kind \in {"I", "RR", "Ua"}
  <2>1. f \in On(back)
    BY <1>1, OnTail
  <2> QED BY <1>1, <2>1 DEF Leftover, Kind
<1>3. Leftover(x, y, rest, n)
  BY <1>1, BackGone
<1>4. CASE x.state = "Idle"
  <2>1. t = x
    BY <1>4 DEF HandleIrdaBeamSenderFrame
  <2>2. Mode(x, y, rest, n)
    BY <1>3, <1>4 DEF Mode, LinkStates
  <2>3. LoadOf(x, y, rest) <= LoadOf(x, y, back)
    BY <1>1, LoadBack
  <2> HIDE DEF t, rest
  <2> QED BY <1>1, <2>1, <2>2, <2>3 DEF Fits, SenderHeard, t, rest, f
<1>5. CASE x.state = "Discover"
  <2>1. /\ t \in Senders /\ t.state = x.state /\ t.file = x.file /\ t.offset = x.offset
        /\ t.pending = x.pending /\ t.endSent = x.endSent /\ t.last = None
        /\ t.transmitNext = x.transmitNext
        /\ t.receiveNext \in {x.receiveNext, NextSeq(x.receiveNext)}
        /\ \/ t.serial = x.serial
           \/ f.kind = "I" /\ \E g \in Kind({"RR"}) : t.serial = Append(x.serial, g)
    BY <1>1, <1>2, <1>5, DiscovererHears
  <2> HIDE DEF t, f, rest
  <2>2. Leftover(t, y, rest, n)
    BY <1>1, <1>3, <2>1, LeftoverReady DEF InNumbers
  <2>3. Mode(t, y, rest, n)
    BY <1>5, <2>1, <2>2 DEF Mode, LinkStates
  <2>4. Tally(t, y, n, b)
    <3>1. ~HasSaved(t, y) /\ ~HasSaved(x, y)
      BY <1>5, <2>1 DEF HasSaved
    <3> QED BY <1>1, <2>1, <3>1, TallyKept
  <2>5. InNumbers(t, y)
    BY <1>1, <2>1, NextNumber DEF InNumbers
  <2>6. LoadOf(t, y, rest) <= LoadOf(x, y, back)
    BY <1>1, <2>1, SenderPays DEF f, rest
  <2> QED BY <1>1, <2>1, <2>3, <2>4, <2>5, <2>6 DEF Fits, SenderHeard, t, rest, f
<1> QED BY <1>4, <1>5

\* The answer to discovery: the link is asked for.
LEMMA LinkAsked ==
    ASSUME NEW x, NEW y, NEW back, NEW n, NEW b, Fits(x, y, back, n, b),
           x.state = "Discover", SettingUp(x, y, back), back = <<Control("XidResponse")>>
    PROVE  LET t == HandleIrdaBeamSenderFrame(x, Head(back))
           IN  /\ Fits(t, y, <<>>, n, b) /\ SenderHeard(x, y, t, b)
               /\ LoadOf(t, y, <<>>) <= 2
<1> DEFINE g == Control("Snrm")
           w == Write(x, g)
           t == [w EXCEPT !.state = "Snrm"]
<1>1. /\ x \in Senders /\ y \in Receivers /\ InNumbers(x, y) /\ Tally(x, y, n, b)
      /\ x.serial \in Seq(Frames)
  BY DEF Fits, Senders
<1>2. HandleIrdaBeamSenderFrame(x, Head(back)) = t
  <2>1. Head(back) = Control("XidResponse") /\ Control("XidResponse").kind = "XidResponse"
    <3>1. \A h : Head(<<h>>) = h
      OBVIOUS
    <3>2. Control("XidResponse").kind = "XidResponse"
      BY ControlType DEF FrameKinds
    <3> QED BY <3>1, <3>2
  <2> QED BY <2>1 DEF HandleIrdaBeamSenderFrame
<1>3. g \in Frames /\ g.kind = "Snrm" /\ g.ns = 0
  BY ControlType DEF FrameKinds
<1> HIDE DEF g
<1>4. SameTurn(x, w) /\ w.last = x.last /\ w.serial = Append(x.serial, g)
  BY <1>1, <1>3, WritesFrame
<1> HIDE DEF w
<1>5. w \in Senders /\ "Snrm" \in SendStates
  BY <1>4 DEF SameTurn, SendStates
<1>6. t \in Senders
  BY <1>5, Zenon DEF Senders
<1>7. /\ t.state = "Snrm" /\ t.file = w.file /\ t.offset = w.offset /\ t.pending = w.pending
      /\ t.endSent = w.endSent /\ t.last = w.last /\ t.serial = w.serial
      /\ t.transmitNext = w.transmitNext /\ t.receiveNext = w.receiveNext
  BY <1>5 DEF Senders
<1> HIDE DEF t
<1>8. /\ t.state = "Snrm" /\ t.file = x.file /\ t.offset = x.offset /\ t.pending = x.pending
      /\ t.endSent = x.endSent /\ t.last = x.last /\ t.serial = Append(x.serial, g)
      /\ t.transmitNext = x.transmitNext /\ t.receiveNext = x.receiveNext
  BY <1>4, <1>7 DEF SameTurn, SamePlace
<1>9. SettingUp(t, y, <<>>)
  <2> DEFINE e == Control("XidResponse")
  <2>1. back # <<>>
    <3> HIDE DEF e
    <3>1. \A h : <<h>> # <<>>
      OBVIOUS
    <3> QED BY <3>1
  <2>2. On(x.serial) \intersect Tokens = {} /\ On(x.serial) \subseteq Kind({"Xid", "Snrm"})
        /\ Ordered(x.serial, Tokens, Tokens)
    BY <2>1 DEF SettingUp
  <2>3. On(t.serial) = On(x.serial) \union {g}
    BY <1>1, <1>3, <1>8, OnAppend
  <2>4. g \in Kind({"Xid", "Snrm"}) /\ g \notin AnswerXids
    BY <1>3 DEF Kind, AnswerXids
  <2>5. Ordered(t.serial, Tokens, Tokens)
    BY <1>1, <1>3, <1>8, <2>2, OrderedAppend
  <2>6. On(t.serial) \intersect AnswerXids = {}
    BY <2>2, <2>3, <2>4 DEF Tokens
  <2>7. \A h : <<>> # <<h>>
    OBVIOUS
  <2>8. <<>> # <<Control("XidResponse")>> /\ <<>> # <<Control("Ua")>>
    BY <2>7
  <2> QED BY <1>8, <2>2, <2>3, <2>4, <2>5, <2>6, <2>8 DEF SettingUp
<1>10. Tally(t, y, n, b)
  <2>1. ~HasSaved(t, y) /\ ~HasSaved(x, y)
    BY <1>8 DEF HasSaved
  <2>2. t.state # "Idle" /\ t.state \notin LinkStates /\ x.state # "Idle" /\ x.state \notin LinkStates
    BY <1>8 DEF LinkStates
  <2> QED BY <1>1, <1>8, <2>1, <2>2 DEF Tally
<1>11. InNumbers(t, y)
  BY <1>1, <1>8 DEF InNumbers
<1>12. Mode(t, y, <<>>, n)
  BY <1>8, <1>9 DEF Mode, LinkStates
<1>13. <<>> \in Seq(Frames)
  OBVIOUS
<1>14. LoadOf(t, y, <<>>) <= 2
  <2>1. /\ ~Waiting(t, y) /\ Count(t.serial, Kind({"I"})) = 0 /\ Count(t.serial, Kind({"RR"})) = 0
        /\ Count(<<>>, Kind({"I", "RR"})) = 0
    BY <1>6, <1>9, SetupLine
  <2> QED BY <2>1 DEF LoadOf
<1>15. SenderHeard(x, y, t, b)
  BY <1>8 DEF SenderHeard
<1> QED BY <1>1, <1>2, <1>6, <1>10, <1>11, <1>12, <1>13, <1>14, <1>15 DEF Fits

\* The answer to that: the first request of the link.
LEMMA LinkBegins ==
    ASSUME NEW x, NEW y, NEW back, NEW n, NEW b, Fits(x, y, back, n, b),
           x.state = "Snrm", SettingUp(x, y, back), back = <<Control("Ua")>>
    PROVE  LET t == HandleIrdaBeamSenderFrame(x, Head(back))
           IN  /\ Fits(t, y, <<>>, n, b) /\ SenderHeard(x, y, t, b)
               /\ LoadOf(t, y, <<>>) <= 2
<1> DEFINE w == [x EXCEPT !.chunk = MaxChunk, !.paced = FALSE, !.due = FALSE,
                          !.transmitNext = 0, !.receiveNext = 0]
           m == Message("LmpConnect")
           t == Request(w, "IasConnect", m)
<1>1. /\ x \in Senders /\ y \in Receivers /\ InNumbers(x, y) /\ Tally(x, y, n, b)
      /\ x.serial \in Seq(Frames)
  BY DEF Fits, Senders
<1>2. HandleIrdaBeamSenderFrame(x, Head(back)) = t
  <2>1. Head(back) = Control("Ua") /\ Control("Ua").kind = "Ua"
    <3>1. \A h : Head(<<h>>) = h
      OBVIOUS
    <3>2. Control("Ua").kind = "Ua"
      BY ControlType DEF FrameKinds
    <3> QED BY <3>1, <3>2
  <2> QED BY <2>1 DEF HandleIrdaBeamSenderFrame
<1>3. m \in Messages
  BY MessageType DEF MessageKinds
<1>4. MaxChunk \in Nat /\ FALSE \in BOOLEAN /\ 0 \in Nat
  BY BeamAssumption
<1>5. w \in Senders
  BY <1>1, <1>4, Zenon DEF Senders
<1>6. /\ w.file = x.file /\ w.offset = x.offset /\ w.pending = x.pending
      /\ w.endSent = x.endSent /\ w.serial = x.serial
      /\ w.transmitNext = 0 /\ w.receiveNext = 0 /\ w.paced = FALSE
  BY <1>1 DEF Senders
<1> HIDE DEF w
<1>7. Asks(w, t, m) /\ t.state = "IasConnect" /\ t.offset = w.offset /\ t.paced = w.paced
      /\ t.endSent = w.endSent /\ t.pending = w.pending
  <2>1. "IasConnect" \in LinkStates
    BY DEF LinkStates
  <2> QED BY <1>3, <1>5, <2>1, SendsRequest
<1>8. y.connected /\ y.receiveNext = 0 /\ y.transmitNext = 0 /\ y.last = None
      /\ On(x.serial) \intersect Tokens = {} /\ On(x.serial) \subseteq Kind({"Xid", "Snrm"})
  <2> DEFINE e == Control("Ua")
  <2>1. back # <<>>
    <3> HIDE DEF e
    <3>1. \A h : <<h>> # <<>>
      OBVIOUS
    <3> QED BY <3>1
  <2> QED BY <2>1 DEF SettingUp
<1>9. x.file \in Files /\ ~x.pending /\ ~x.endSent /\ x.offset = 0
  BY <1>1 DEF Tally, LinkStates
<1>10. Asked(t, y, m)
  BY <1>7 DEF Asked
<1> HIDE DEF m, t
<1>11. /\ t \in Senders /\ t.file = x.file /\ t.receiveNext = 0 /\ t.transmitNext = NextSeq(0)
       /\ t.last = Frame("I", 0, 0, m) /\ t.serial = Append(x.serial, t.last)
  BY <1>6, <1>7 DEF Asks
<1>12. InNumbers(t, y)
  BY <1>1, <1>8, <1>11, NextNumber DEF InNumbers
<1>13. SenderPlace(t)
  BY <1>6, <1>7, <1>9 DEF SenderPlace
<1>14. InLink(t, y, <<>>)
  <2>1. <<>> \in Seq(Frames)
    OBVIOUS
  <2>2. On(<<>>) = {}
    BY <2>1, OnFrames
  <2>3. /\ On(x.serial) \intersect Kind({"I"}) = {}
        /\ On(x.serial) \subseteq Kind({"Xid", "I", "RR"}) \ AnswerXids
        /\ On(x.serial) \intersect (Kind({"RR"}) \union Before(0)) = {}
        /\ On(x.serial) \intersect Info(0) = {}
    BY <1>8 DEF Kind, Tokens, Before, Info
  <2>4. InStep(x.serial, 0) /\ InStep(<<>>, 0)
    <3>1. On(<<>>) \intersect Kind({"I"}) = {}
      BY <2>2
    <3> QED BY <1>1, <2>1, <2>3, <3>1, InStepWithout
  <2>5. /\ t.last = Frame("I", y.receiveNext, y.receiveNext, m)
        /\ t.receiveNext = y.receiveNext /\ t.transmitNext = NextSeq(y.receiveNext)
        /\ y.transmitNext = y.receiveNext /\ y.connected
    BY <1>8, <1>11
  <2>6. /\ On(x.serial) \intersect Info(y.receiveNext) = {} /\ InStep(x.serial, y.receiveNext)
        /\ On(<<>>) \subseteq Kind({"I"}) /\ InStep(<<>>, y.receiveNext)
        /\ On(<<>>) \intersect Info(y.receiveNext) = {}
    BY <1>8, <2>2, <2>3, <2>4
  <2>7. /\ y.last # None => y.last.ns \in Numbers /\ NextSeq(y.last.ns) = y.transmitNext
        /\ y.last = None =>
               /\ <<>> = <<>>
               /\ On(x.serial) \intersect (Kind({"RR"}) \union Before(y.receiveNext)) = {}
    BY <1>8, <2>3
  <2>8. t.state \in LinkStates /\ ~t.pending
    BY <1>6, <1>7, <1>9 DEF LinkStates
  <2> QED BY <1>1, <1>3, <1>10, <1>11, <1>12, <1>13, <2>1, <2>3, <2>5, <2>6, <2>7, <2>8, RequestSent
<1>15. Tally(t, y, n, b)
  <2>1. ~HasSaved(t, y) /\ ~HasSaved(x, y)
    BY <1>7 DEF HasSaved
  <2>2. t.state # "Idle" /\ t.state \in LinkStates
    BY <1>7 DEF LinkStates
  <2> QED BY <1>1, <1>9, <1>11, <2>1, <2>2 DEF Tally
<1>16. Mode(t, y, <<>>, n)
  BY <1>7, <1>14 DEF Mode, LinkStates
<1>17. LoadOf(t, y, <<>>) <= 2
  <2>1. t.last \in Frames /\ t.last.kind = "I"
    BY <1>3, <1>11, FrameType DEF FrameKinds
  <2>2. /\ Count(t.serial, Kind({"I"})) = Count(x.serial, Kind({"I"})) + 1
        /\ Count(t.serial, Kind({"RR"})) = Count(x.serial, Kind({"RR"})) + 0
    BY <1>1, <1>11, <2>1, WeightAppend
  <2>3. /\ Count(x.serial, Kind({"I"})) = 0 /\ Count(x.serial, Kind({"RR"})) = 0
    BY <1>1, SetupLine
  <2>4. Count(<<>>, Kind({"I", "RR"})) = 0
    BY CountOne
  <2>5. ~t.pending
    BY <1>6, <1>7, <1>9
  <2> QED BY <2>2, <2>3, <2>4, <2>5 DEF LoadOf
<1>18. SenderHeard(x, y, t, b)
  BY <1>7, <1>11 DEF SenderHeard
<1>19. <<>> \in Seq(Frames)
  OBVIOUS
<1> QED BY <1>1, <1>2, <1>11, <1>12, <1>15, <1>16, <1>17, <1>18, <1>19 DEF Fits, t

\* Whatever frame the sender takes, and in whatever state.
LEMMA SenderTakes ==
    ASSUME NEW x, NEW y, NEW back, NEW n, NEW b, Fits(x, y, back, n, b), back # <<>>
    PROVE  LET t == HandleIrdaBeamSenderFrame(x, Head(back))
           IN  /\ Fits(t, y, Tail(back), n, b) /\ SenderHeard(x, y, t, b)
               /\ LoadOf(t, y, Tail(back)) <= LoadOf(x, y, back)
                  \/ LoadOf(t, y, Tail(back)) <= 2
<1>1. /\ x \in Senders /\ y \in Receivers /\ back \in Seq(Frames) /\ InNumbers(x, y)
      /\ Mode(x, y, back, n) /\ Tally(x, y, n, b) /\ x.state \in SendStates
  BY DEF Fits, Senders
<1>2. CASE x.state \in LinkStates
  BY <1>2, LinkAnswered
<1>3. CASE x.state \in {"Idle", "Discover"} /\ Leftover(x, y, back, n)
  BY <1>3, LeftAnswered
<1>4. CASE x.state \in {"Discover", "Snrm"} /\ SettingUp(x, y, back)
  <2> DEFINE p == Control("XidResponse")
             q == Control("Ua")
  <2>1. back \in {<<p>>, <<q>>} /\ p.kind = "XidResponse" /\ q.kind = "Ua"
    BY <1>4, ControlType DEF SettingUp, FrameKinds
  <2>2. Tail(back) = <<>> /\ (back = <<q>> => Head(back) = q)
    <3> HIDE DEF p, q
    <3>1. \A h : Tail(<<h>>) = <<>> /\ Head(<<h>>) = h
      OBVIOUS
    <3> QED BY <2>1, <3>1
  <2>3. CASE x.state = "Discover" /\ back = <<p>>
    BY <1>4, <2>2, <2>3, LinkAsked
  <2>4. CASE x.state = "Snrm" /\ back = <<q>>
    BY <1>4, <2>2, <2>4, LinkBegins
  <2>5. CASE x.state = "Discover" /\ back = <<q>>
    <3>1. HandleIrdaBeamSenderFrame(x, Head(back)) = x
      BY <2>1, <2>2, <2>5 DEF HandleIrdaBeamSenderFrame
    <3>2. Fits(x, y, Tail(back), n, b) /\ LoadOf(x, y, Tail(back)) <= LoadOf(x, y, back)
      BY LosesAnswer
    <3>3. SenderHeard(x, y, x, b)
      BY DEF SenderHeard
    <3> QED BY <3>1, <3>2, <3>3
  <2>6. ~(x.state = "Snrm" /\ back = <<p>>)
    BY <1>4 DEF SettingUp
  <2> QED BY <1>4, <2>1, <2>3, <2>4, <2>5, <2>6
<1> QED BY <1>1, <1>2, <1>3, <1>4 DEF Mode, SendStates, LinkStates

----------------------------------------------------------------------------
(* The timers *)

\* Nothing is on a line that is empty, and nothing on it is out of order.
LEMMA NothingThere ==
    /\ <<>> \in Seq(Frames) /\ On(<<>>) = {}
    /\ \A A : Count(<<>>, A) = 0
    /\ \A A, B : Ordered(<<>>, A, B)
    /\ \A n : InStep(<<>>, n)
<1>1. <<>> \in Seq(Frames)
  OBVIOUS
<1>2. On(<<>>) = {}
  BY <1>1, OnFrames
<1>3. ASSUME NEW A, NEW B PROVE Ordered(<<>>, A, B)
  <2>1. DOMAIN <<>> = {}
    OBVIOUS
  <2> QED BY <2>1 DEF Ordered
<1>4. ASSUME NEW A PROVE Count(<<>>, A) = 0
  BY CountOne
<1> QED BY <1>1, <1>2, <1>3, <1>4 DEF InStep

\* Discovery repeated on lines that are quiet sets a link up, whatever was left before.
LEMMA DiscoveryGoesOn ==
    ASSUME NEW x, NEW y, NEW n, NEW b, Fits(x, y, <<>>, n, b), x.state = "Discover",
           x.serial = <<>>
    PROVE  LET t == SendIrdaBeamDiscovery(x)
           IN  Fits(t, y, <<>>, n, b) /\ LoadOf(t, y, <<>>) <= 2
<1> DEFINE t == SendIrdaBeamDiscovery(x)
<1>1. x \in Senders /\ y \in Receivers /\ InNumbers(x, y) /\ Tally(x, y, n, b)
  BY DEF Fits
<1>2. SameTurn(x, t) /\ t.last = x.last
      /\ \E k \in Nat : t.serial = Append(x.serial, Frame("Xid", k, 0, Message("none")))
  BY <1>1, SendsDiscovery
<1> HIDE DEF t
<1>3. /\ t \in Senders /\ t.state = x.state /\ t.file = x.file /\ t.offset = x.offset
      /\ t.pending = x.pending /\ t.endSent = x.endSent /\ t.last \in {x.last, None}
      /\ t.receiveNext = x.receiveNext /\ t.transmitNext = x.transmitNext
  BY <1>2 DEF SameTurn, SamePlace
<1>4. PICK k \in Nat : t.serial = Append(<<>>, Frame("Xid", k, 0, Message("none")))
  BY <1>2
<1> DEFINE g == Frame("Xid", k, 0, Message("none"))
<1>5. g \in Frames /\ g.kind = "Xid"
  <2>1. Message("none") \in Messages /\ "Xid" \in FrameKinds /\ 0 \in Nat
    BY MessageType DEF FrameKinds, MessageKinds
  <2> QED BY <2>1, FrameType
<1> HIDE DEF g
<1>6. On(t.serial) = {g} /\ Ordered(t.serial, Tokens, Tokens)
  <2>1. t.serial = Append(<<>>, g)
    BY <1>4 DEF g
  <2>2. /\ <<>> \in Seq(Frames) /\ On(<<>>) \intersect Tokens = {} /\ On(<<>>) = {}
        /\ Ordered(<<>>, Tokens, Tokens)
    BY NothingThere
  <2>3. On(Append(<<>>, g)) = On(<<>>) \union {g}
    BY <1>5, <2>2, OnAppend
  <2>4. Ordered(Append(<<>>, g), Tokens, Tokens)
    BY <1>5, <2>2, OrderedAppend
  <2> QED BY <2>1, <2>2, <2>3, <2>4
<1>7. SettingUp(t, y, <<>>)
  <2>1. g \in Kind({"Xid", "Snrm"})
    BY <1>5 DEF Kind
  <2>2. \A h : <<>> # <<h>>
    OBVIOUS
  <2>3. <<>> # <<Control("XidResponse")>> /\ <<>> # <<Control("Ua")>>
    BY <2>2
  <2> QED BY <1>3, <1>6, <2>1, <2>3 DEF SettingUp
<1>8. Tally(t, y, n, b)
  <2>1. ~HasSaved(t, y) /\ ~HasSaved(x, y)
    BY <1>3 DEF HasSaved
  <2> QED BY <1>1, <1>3, <2>1, TallyKept
<1>9. InNumbers(t, y) /\ Mode(t, y, <<>>, n)
  BY <1>1, <1>3, <1>7 DEF InNumbers, Mode, LinkStates
<1>10. LoadOf(t, y, <<>>) <= 2
  <2>1. /\ ~Waiting(t, y) /\ Count(t.serial, Kind({"I"})) = 0 /\ Count(t.serial, Kind({"RR"})) = 0
        /\ Count(<<>>, Kind({"I", "RR"})) = 0
    BY <1>3, <1>7, SetupLine
  <2>2. t.pending \in BOOLEAN
    BY <1>3 DEF Senders
  <2> QED BY <2>1, <2>2 DEF LoadOf
<1> QED BY <1>1, <1>3, <1>8, <1>9, <1>10, NothingThere DEF Fits, t

\* A send that is given up leaves nothing behind.
LEMMA SendGivenUp ==
    ASSUME NEW x, NEW y, NEW n, NEW b, Fits(x, y, <<>>, n, b), x.serial = <<>>
    PROVE  LET t == SenderReset(x.serial)
           IN  Fits(t, y, <<>>, n, b) /\ LoadOf(t, y, <<>>) <= 2
<1> DEFINE t == SenderReset(x.serial)
<1>1. y \in Receivers /\ InNumbers(x, y) /\ Tally(x, y, n, b)
  BY DEF Fits
<1>2. /\ t \in Senders /\ t.serial = <<>> /\ t.state = "Idle" /\ t.file = None
      /\ t.last = None /\ t.receiveNext = 0 /\ t.transmitNext = 0
      /\ t.pending = FALSE /\ t.endSent = FALSE /\ t.offset = 0
  BY ResetSender, NothingThere
<1> HIDE DEF t
<1>3. Leftover(t, y, <<>>, n)
  BY <1>2, NothingThere DEF Leftover, RequestsInStep
<1>4. Tally(t, y, n, b)
  <2>1. ~HasSaved(t, y)
    BY <1>2 DEF HasSaved
  <2> QED BY <1>1, <1>2, <2>1, BeamAssumption DEF Tally
<1>5. InNumbers(t, y) /\ Mode(t, y, <<>>, n)
  BY <1>1, <1>2, <1>3, NextNumber DEF InNumbers, Mode, LinkStates
<1>6. LoadOf(t, y, <<>>) <= 2
  <2>1. ~Waiting(t, y)
    BY <1>2, NothingThere DEF Waiting
  <2> QED BY <1>2, <2>1, NothingThere DEF LoadOf
<1> QED BY <1>1, <1>2, <1>4, <1>5, <1>6, NothingThere DEF Fits, t

\* A frame that is repeated is one more answer and its acknowledgement.
LEMMA RepeatPays ==
    ASSUME NEW x \in Senders, NEW t \in Senders, NEW y, NEW back \in Seq(Frames),
           t.pending = x.pending,
           t.serial = x.serial \/ \E f \in Frames : f.kind = "I" /\ t.serial = Append(x.serial, f)
    PROVE  /\ LoadOf(t, y, back) <= LoadOf(x, y, back) + 2
           /\ LoadOf(x, y, back) \in Int
<1> DEFINE A == Count(x.serial, Kind({"I"}))
           B == Count(x.serial, Kind({"RR"}))
           C == Count(back, Kind({"I", "RR"}))
           E == Count(t.serial, Kind({"I"}))
           F == Count(t.serial, Kind({"RR"}))
           p == IF x.pending THEN 1 ELSE 0
           w == IF Waiting(x, y) THEN 1 ELSE 0
           u == IF Waiting(t, y) THEN 1 ELSE 0
<1>1. x.serial \in Seq(Frames)
  BY DEF Senders
<1>2. A \in Nat /\ B \in Nat /\ C \in Nat
  BY <1>1, WeightNat
<1>3. p \in 0 .. 1 /\ w \in 0 .. 1 /\ u \in 0 .. 1
  OBVIOUS
<1>4. LoadOf(x, y, back) = 2 * A + B + C + p - w /\ LoadOf(t, y, back) = 2 * E + F + C + p - u
  BY DEF LoadOf
<1>5. CASE t.serial = x.serial
  <2>1. E = A /\ F = B /\ u = w
    BY <1>5 DEF Waiting
  <2> HIDE DEF A, B, C, E, F, p, w, u
  <2> QED BY <1>2, <1>3, <1>4, <2>1
<1>6. ASSUME NEW f \in Frames, f.kind = "I", t.serial = Append(x.serial, f)
      PROVE  LoadOf(t, y, back) <= LoadOf(x, y, back) + 2
  <2>1. E = A + 1 /\ F = B + 0
    BY <1>1, <1>6, WeightAppend
  <2>2. w <= u
    <3>1. On(t.serial) = On(x.serial) \union {f}
      BY <1>1, <1>6, OnAppend
    <3>2. Waiting(x, y) => Waiting(t, y)
      BY <3>1 DEF Waiting
    <3> QED BY <3>2
  <2> HIDE DEF A, B, C, E, F, p, w, u
  <2> QED BY <1>2, <1>3, <1>4, <2>1, <2>2
<1>7. LoadOf(x, y, back) \in Int
  <2> HIDE DEF A, B, C, E, F, p, w, u
  <2> QED BY <1>2, <1>3, <1>4
<1> HIDE DEF A, B, C, E, F, p, w, u
<1> QED BY <1>2, <1>3, <1>4, <1>5, <1>6, <1>7

\* A repeat keeps the invariant and adds two to the load at most; if the line was silent,
\* nothing was left of it before.
LEMMA FrameRepeated ==
    ASSUME NEW x, NEW y, NEW back, NEW n, NEW b, Fits(x, y, back, n, b), x.last # None
    PROVE  LET t == Timeout(x)
           IN  /\ Fits(t, y, back, n, b) /\ LoadOf(t, y, back) <= LoadOf(x, y, back) + 2
               /\ LoadOf(x, y, back) \in Int
               /\ x.serial = <<>> /\ back = <<>> => LoadOf(x, y, back) <= 0
<1> DEFINE t == Timeout(x)
<1>1. /\ x \in Senders /\ y \in Receivers /\ back \in Seq(Frames) /\ InNumbers(x, y)
      /\ Mode(x, y, back, n) /\ Tally(x, y, n, b)
  BY DEF Fits
<1>2. x.state \in LinkStates /\ InLink(x, y, back)
  BY <1>1 DEF Tally, Mode
<1>3. /\ t \in Senders /\ t.state = x.state /\ t.file = x.file /\ t.offset = x.offset
      /\ t.pending = x.pending /\ t.credits = x.credits /\ t.endSent = x.endSent
      /\ t.receiveNext = x.receiveNext /\ t.transmitNext = x.transmitNext
      /\ t.last = x.last
      /\ t.paced = x.paced \/ x.state = "ObexPutBody"
      /\ \/ t.serial = x.serial
         \/ x.last # None /\ x.last \in Frames /\ t.serial = Append(x.serial, x.last)
  BY <1>1, TimesOut
<1> HIDE DEF t
<1>4. InLink(t, y, back)
  <2>1. t.last \in {x.last, None}
    BY <1>3
  <2>2. \/ t.serial = x.serial
        \/ \E f \in Frames : /\ t.serial = Append(x.serial, f)
                             /\ \/ f.kind = "RR" /\ y.last # None
                                \/ f = x.last /\ x.last # None
    BY <1>3
  <2> QED BY <1>1, <1>2, <1>3, <2>1, <2>2, SenderRepeats
<1>5. Tally(t, y, n, b)
  <2>1. HasSaved(t, y) <=> HasSaved(x, y)
    BY <1>3 DEF HasSaved, Answering
  <2>2. t.last \in {x.last, None}
    BY <1>3
  <2> QED BY <1>1, <1>3, <2>1, <2>2, TallyKept
<1>6. InNumbers(t, y) /\ Mode(t, y, back, n)
  BY <1>1, <1>2, <1>3, <1>4 DEF InNumbers, Mode, LinkStates
<1>7. x.last.kind = "I" /\ ~x.pending
  BY <1>2 DEF InLink, SenderInLink, Before
<1>8. LoadOf(t, y, back) <= LoadOf(x, y, back) + 2 /\ LoadOf(x, y, back) \in Int
  <2>1. t.serial = x.serial \/ \E f \in Frames : f.kind = "I" /\ t.serial = Append(x.serial, f)
    BY <1>3, <1>7
  <2> QED BY <1>1, <1>3, <2>1, RepeatPays
<1>9. ASSUME x.serial = <<>>, back = <<>> PROVE LoadOf(x, y, back) <= 0
  <2>1. ~Waiting(x, y)
    BY <1>9, NothingThere DEF Waiting
  <2> QED BY <1>7, <1>9, <2>1, NothingThere DEF LoadOf
<1> QED BY <1>1, <1>3, <1>5, <1>6, <1>8, <1>9 DEF Fits, t

\* The time of a paced chunk comes: it is sent, or it waits once more.
LEMMA ChunkSent ==
    ASSUME NEW x, NEW y, NEW back, NEW n, NEW b, Fits(x, y, back, n, b), x.pending,
           NEW t, AfterChunk(x, t)
    PROVE  /\ Fits(t, y, back, n, b) /\ LoadOf(t, y, back) <= LoadOf(x, y, back)
           /\ t.file = x.file /\ t.state \in LinkStates
<1> DEFINE N == Units[x.file]
<1>1. /\ x \in Senders /\ y \in Receivers /\ back \in Seq(Frames) /\ InNumbers(x, y)
      /\ Mode(x, y, back, n) /\ Tally(x, y, n, b) /\ x.serial \in Seq(Frames)
  BY DEF Fits, Senders
<1>2. x.state \in LinkStates /\ InLink(x, y, back) /\ x.file \in Files
  BY <1>1 DEF Tally, Mode, LinkStates
<1>3. Pausing(x, y) /\ SenderPlace(x) /\ x.state = "ObexPutBody" /\ x.offset < N
      /\ y.body = Begun(x) /\ x.offset \in Nat /\ N \in Nat
  BY <1>1, <1>2, UnitsType DEF InLink, SenderInLink, ReceiverInLink, Senders
<1>4. /\ y.receiveNext = x.receiveNext /\ x.transmitNext = x.receiveNext
      /\ y.receiveNext \in Nat /\ y.receiveNext \in Numbers
  BY <1>1, <1>3 DEF Pausing, Receivers, InNumbers
<1>5. PICK m \in Messages :
          /\ Asks(x, t, m) /\ ~t.pending /\ t.state = "ObexPutBody"
          /\ t.offset \in 0 .. N /\ m = Put(m.units, t.offset = N)
          /\ Begun(x) \o m.units = Begun(t)
  <2>1. x.offset # N
    BY <1>3
  <2> QED BY <2>1, Zenon DEF AfterChunk
<1>6. /\ t \in Senders /\ t.file = x.file /\ t.receiveNext = y.receiveNext
      /\ t.transmitNext = NextSeq(y.receiveNext)
      /\ t.last = Frame("I", y.receiveNext, y.receiveNext, m)
      /\ t.serial = Append(x.serial, t.last)
  BY <1>4, <1>5 DEF Asks
<1>7. Asked(t, y, m)
  <2>1. m = Put(m.units, t.offset = Units[t.file]) /\ y.body \o m.units = Begun(t)
    BY <1>3, <1>5, <1>6
  <2> QED BY <1>5, <2>1 DEF Asked
<1>8. SenderPlace(t)
  BY <1>3, <1>5, <1>6 DEF SenderPlace
<1>9. InNumbers(t, y)
  BY <1>1, <1>6, NextNumber DEF InNumbers
<1>10. ~Asking(x, y) /\ ~Answering(x, y)
  BY <1>1, <1>3, OneTurn
<1>11. On(x.serial) \intersect Info(y.receiveNext) = {}
  BY <1>2, <1>10, NoRequest DEF InLink
<1>12. InLink(t, y, back)
  <2>1. /\ On(back) \subseteq Kind({"I"}) /\ InStep(back, y.receiveNext)
        /\ On(back) \intersect Info(y.receiveNext) = {}
    BY <1>2, <1>4, <1>10 DEF InLink, ReceiverInLink, AnswersInStep
  <2>2. /\ y.connected /\ y.transmitNext = y.receiveNext
        /\ y.last # None => y.last.ns \in Numbers /\ NextSeq(y.last.ns) = y.transmitNext
        /\ y.last # None
        /\ On(x.serial) \subseteq Kind({"Xid", "I", "RR"}) \ AnswerXids
        /\ InStep(x.serial, y.receiveNext)
    BY <1>2, <1>10 DEF InLink, ReceiverInLink, SenderInLink, RequestsInStep
  <2>3. t.state \in LinkStates
    BY <1>5 DEF LinkStates
  <2> QED BY <1>1, <1>5, <1>6, <1>7, <1>8, <1>9, <1>11, <2>1, <2>2, <2>3, RequestSent
<1>13. Mode(t, y, back, n) /\ t.state \in LinkStates
  BY <1>5, <1>12 DEF Mode, LinkStates
<1>14. t.last \in Info(y.receiveNext) /\ t.last \in Frames /\ t.last.kind = "I"
  BY <1>4, <1>6, FrameType DEF Info, FrameKinds
<1>15. Tally(t, y, n, b)
  <2>1. Asking(t, y) /\ ~Answering(t, y)
    <3>1. Asking(t, y)
      BY <1>4, <1>6 DEF Asking
    <3> QED BY <1>1, <1>6, <1>9, <3>1, OneTurn
  <2>2. ~HasSaved(t, y) /\ ~HasSaved(x, y)
    BY <1>3, <1>5, <1>10, <2>1 DEF HasSaved
  <2>3. t.state # "Idle" /\ x.state # "Idle"
    BY <1>3, <1>5
  <2> QED BY <1>1, <1>2, <1>6, <1>13, <2>2, <2>3 DEF Tally
<1>16. LoadOf(t, y, back) <= LoadOf(x, y, back)
  <2> DEFINE A == Count(x.serial, Kind({"I"}))
             B == Count(x.serial, Kind({"RR"}))
             C == Count(back, Kind({"I", "RR"}))
             E == Count(t.serial, Kind({"I"}))
             F == Count(t.serial, Kind({"RR"}))
  <2>1. ~Waiting(x, y)
    BY <1>11 DEF Waiting
  <2>2. Waiting(t, y)
    <3>1. On(t.serial) = On(x.serial) \union {t.last}
      BY <1>1, <1>6, <1>14, OnAppend
    <3>2. y.connected
      BY <1>2 DEF InLink, ReceiverInLink
    <3> QED BY <1>14, <3>1, <3>2 DEF Waiting
  <2>3. E = A + 1 /\ F = B + 0
    BY <1>1, <1>6, <1>14, WeightAppend
  <2>4. LoadOf(x, y, back) = 2 * A + B + C + 1 - 0 /\ LoadOf(t, y, back) = 2 * E + F + C + 0 - 1
    BY <1>5, <2>1, <2>2 DEF LoadOf
  <2>5. A \in Nat /\ B \in Nat /\ C \in Nat
    BY <1>1, WeightNat
  <2> HIDE DEF A, B, C, E, F
  <2> QED BY <2>3, <2>4, <2>5
<1> QED BY <1>1, <1>6, <1>9, <1>13, <1>15, <1>16 DEF Fits

\* The paced next chunk: it is sent with a credit, and no answer is awaited when it is.
LEMMA BodyGoesOn ==
    ASSUME NEW x, NEW y, NEW back, NEW n, NEW b, Fits(x, y, back, n, b), x.pending,
           x.last = None
    PROVE  LET t == SendIrdaBeamNextBodyChunk(x)
           IN  /\ Fits(t, y, back, n, b) /\ LoadOf(t, y, back) <= LoadOf(x, y, back)
               /\ t.file = x.file /\ t.state \in LinkStates /\ x.state \in LinkStates
<1> DEFINE t == SendIrdaBeamNextBodyChunk(x)
<1>1. /\ x \in Senders /\ y \in Receivers /\ back \in Seq(Frames) /\ InNumbers(x, y)
      /\ Mode(x, y, back, n) /\ Tally(x, y, n, b) /\ x.serial \in Seq(Frames)
  BY DEF Fits, Senders
<1>2. x.state \in LinkStates /\ InLink(x, y, back) /\ x.file \in Files
  BY <1>1 DEF Tally, Mode, LinkStates
<1>3. x.state = "ObexPutBody" /\ x.offset < Units[x.file] /\ x.credits > 0
      /\ x.offset \in 0 .. Units[x.file]
  BY <1>2 DEF InLink, SenderInLink, SenderPlace, ReceiverInLink
<1>4. \/ /\ t \in Senders /\ t.state = x.state /\ t.file = x.file
         /\ t.offset = x.offset /\ t.endSent = x.endSent /\ t.credits = x.credits
         /\ t.receiveNext = x.receiveNext /\ t.transmitNext = x.transmitNext
         /\ t.last = x.last /\ t.serial = x.serial /\ t.paced = x.paced
         /\ t.pending
      \/ AfterChunk(x, t)
  BY <1>1, <1>2, <1>3, NextChunk
<1> HIDE DEF t
<1>5. CASE AfterChunk(x, t)
  BY <1>2, <1>5, ChunkSent DEF t
<1>6. CASE /\ t \in Senders /\ t.state = x.state /\ t.file = x.file
           /\ t.offset = x.offset /\ t.endSent = x.endSent /\ t.credits = x.credits
           /\ t.receiveNext = x.receiveNext /\ t.transmitNext = x.transmitNext
           /\ t.last = x.last /\ t.serial = x.serial /\ t.paced = x.paced
           /\ t.pending
  <2>0. t.pending = x.pending /\ t.last \in {x.last, None}
    BY <1>1, <1>6 DEF Senders
  <2>1. InLink(t, y, back)
    BY <1>1, <1>2, <1>6, <2>0, SenderRepeats
  <2>2. HasSaved(t, y) <=> HasSaved(x, y)
    BY <1>6 DEF HasSaved, Answering
  <2>3. Tally(t, y, n, b)
    BY <1>1, <1>6, <2>0, <2>2, TallyKept
  <2>4. InNumbers(t, y) /\ Mode(t, y, back, n)
    BY <1>1, <1>2, <1>6, <2>1 DEF InNumbers, Mode, LinkStates
  <2>5. LoadOf(t, y, back) = LoadOf(x, y, back)
    <3>1. Waiting(t, y) <=> Waiting(x, y)
      BY <1>6 DEF Waiting
    <3> QED BY <1>6, <2>0, <3>1 DEF LoadOf
  <2>6. LoadOf(x, y, back) \in Int
    <3>1. x.serial = x.serial \/ \E f \in Frames : f.kind = "I" /\ x.serial = Append(x.serial, f)
      OBVIOUS
    <3> QED BY <1>1, <3>1, RepeatPays
  <2> QED BY <1>1, <1>2, <1>6, <2>3, <2>4, <2>5, <2>6 DEF Fits, t
<1> QED BY <1>4, <1>5, <1>6

----------------------------------------------------------------------------
(* A start *)

\* What a start makes of the counts.
Restarted(n, file) == [f \in Files |-> n[f] + (IF f = file THEN 1 ELSE 0)]

\* Whatever is on the way, a file begun anew adds no more to it than a frame of discovery.
LEMMA SendStarts ==
    ASSUME NEW x \in Senders, NEW file \in Files
    PROVE  LET t == StartIrdaBeamSend(x, file)
               g == Frame("Xid", 0, 0, Message("none"))
           IN  /\ t \in Senders /\ t.state = "Discover" /\ t.file = file /\ t.last = None
               /\ ~t.pending /\ ~t.endSent /\ t.offset = 0
               /\ t.transmitNext = 0 /\ t.receiveNext = 0
               /\ t.serial = Append(x.serial, g)
               /\ g \in Frames /\ g.kind = "Xid" /\ g.ns = 0
<1> DEFINE e == SenderReset(x.serial)
           w == [e EXCEPT !.file = file, !.state = "Discover"]
           t == StartIrdaBeamSend(x, file)
           g == Frame("Xid", 0, 0, Message("none"))
<1>1. /\ e \in Senders /\ e.serial = x.serial /\ e.last = None /\ e.slot = 0
      /\ e.receiveNext = 0 /\ e.transmitNext = 0
      /\ e.pending = FALSE /\ e.endSent = FALSE /\ e.offset = 0
  BY ResetSender DEF Senders
<1> HIDE DEF e
<1>2. file \in Files \union {None} /\ "Discover" \in SendStates
  BY DEF SendStates
<1>3. w \in Senders
  BY <1>1, <1>2, Zenon DEF Senders
<1>4. /\ w.serial = x.serial /\ w.last = None /\ w.slot = 0 /\ w.file = file
      /\ w.receiveNext = 0 /\ w.transmitNext = 0 /\ w.state = "Discover"
      /\ w.pending = FALSE /\ w.endSent = FALSE /\ w.offset = 0
  BY <1>1 DEF Senders
<1>5. t = SendIrdaBeamDiscovery(w)
  BY DEF StartIrdaBeamSend, e
<1> HIDE DEF w, t
<1>6. /\ SameTurn(w, t) /\ t.last = w.last
      /\ \E n \in Nat : /\ t.serial = Append(w.serial, Frame("Xid", n, 0, Message("none")))
                        /\ w.slot = 0 => n = 0
  BY <1>3, <1>5, SendsDiscovery
<1>7. g \in Frames /\ g.kind = "Xid" /\ g.ns = 0
  <2>1. Message("none") \in Messages /\ "Xid" \in FrameKinds /\ 0 \in Nat
    BY MessageType DEF FrameKinds, MessageKinds
  <2> QED BY <2>1, FrameType
<1>8. t.serial = Append(x.serial, g)
  BY <1>4, <1>6
<1> HIDE DEF g
<1> QED BY <1>4, <1>6, <1>7, <1>8 DEF t, g, SameTurn, SamePlace

\* How often each file was started, with one start more.
LEMMA RestartedType ==
    ASSUME NEW n \in [Files -> Nat], NEW file \in Files
    PROVE  /\ Restarted(n, file) \in [Files -> Nat]
           /\ \A f \in Files : /\ Restarted(n, file)[f] >= n[f]
                               /\ f = file => Restarted(n, file)[f] = n[f] + 1
<1>1. \A f \in Files : n[f] \in Nat
  OBVIOUS
<1>2. \A f \in Files : Restarted(n, file)[f] = n[f] + (IF f = file THEN 1 ELSE 0)
  BY DEF Restarted
<1>3. ASSUME NEW f \in Files PROVE n[f] + (IF f = file THEN 1 ELSE 0) \in Nat
  <2>1. n[f] \in Nat
    BY <1>1
  <2> QED BY <2>1
<1>4. Restarted(n, file) \in [Files -> Nat]
  BY <1>3 DEF Restarted
<1> QED BY <1>1, <1>2, <1>4

\* The last request of a link that is broken off may still save the file it was for.
LEMMA LinkLeft ==
    ASSUME NEW x \in Senders, NEW y \in Receivers, NEW back, NEW n \in [Files -> Nat], NEW b,
           InNumbers(x, y), InLink(x, y, back), Tally(x, y, n, b), NEW file \in Files,
           NEW f \in Frames, f \in On(x.serial) \intersect Info(y.receiveNext),
           f.data.kind = "PutBody", f.data.final
    PROVE  \E g \in Files : /\ Whole(y.body \o f.data.units, g)
                            /\ SavedTimes(y, g) + (IF file = g THEN 1 ELSE 0)
                                  < Restarted(n, file)[g]
<1>1. Asking(x, y) /\ Asked(x, y, f.data) /\ SenderPlace(x) /\ x.state \in LinkStates
  BY DEF InLink, SenderInLink
<1>2. x.state = "ObexPutBody"
  <2>1. /\ Message("LmpConnect").kind # "PutBody" /\ Message("IasQuery").kind # "PutBody"
        /\ ToObex("LmpConnect").kind # "PutBody" /\ ToObex("ObexConnect").kind # "PutBody"
        /\ ToObex("PutMeta").kind # "PutBody" /\ ToObex("ObexDisconnect").kind # "PutBody"
    BY MessageType DEF MessageKinds
  <2> QED BY <1>1, <2>1 DEF Asked, LinkStates
<1>3. x.file \in Files
  BY <1>2 DEF Tally
<1>4. f.data = Put(f.data.units, x.offset = Units[x.file]) /\ y.body \o f.data.units = Begun(x)
  BY <1>1, <1>2 DEF Asked
<1>5. x.offset = Units[x.file]
  <2>1. f.data.units \in Seq(Parts) /\ (x.offset = Units[x.file]) \in BOOLEAN
    BY DEF Frames, Messages
  <2>2. f.data.final = (x.offset = Units[x.file])
    BY <1>4, <2>1, PutType
  <2> QED BY <2>2
<1>6. Whole(y.body \o f.data.units, x.file)
  <2>1. y.body \o f.data.units = UnitsOf(x.file)
    BY <1>3, <1>4, <1>5, WholeBody
  <2>2. Units[x.file] > 0 \/ x.file \in TextFiles
    BY <1>1, <1>2 DEF SenderPlace
  <2> QED BY <2>1, <2>2 DEF Whole
<1>7. SavedTimes(y, x.file) < n[x.file]
  <2>1. ~HasSaved(x, y)
    BY <1>1, <1>2, OneTurn DEF HasSaved
  <2> QED BY <1>3, <2>1 DEF Tally
<1>8. /\ n[x.file] \in Nat /\ SavedTimes(y, x.file) \in Nat
      /\ Restarted(n, file)[x.file] = n[x.file] + (IF x.file = file THEN 1 ELSE 0)
  BY <1>3, SavedCount DEF Restarted
<1>9. SavedTimes(y, x.file) + (IF file = x.file THEN 1 ELSE 0) < Restarted(n, file)[x.file]
  BY <1>7, <1>8
<1> QED BY <1>3, <1>6, <1>9

\* StartIrdaBeamSend, from whatever the last send left on the lines: the file it starts may
\* still be saved by a frame that is under way only if it was started before.
LEMMA SendBegun ==
    ASSUME NEW x, NEW y, NEW back, NEW n, NEW b, Fits(x, y, back, n, b), NEW file \in Files
    PROVE  LET t == StartIrdaBeamSend(x, file)
           IN  /\ Fits(t, y, back, Restarted(n, file), Len(y.saved))
               /\ LoadOf(t, y, back) <= LoadOf(x, y, back)
               /\ t.file = file /\ t.state = "Discover"
<1> DEFINE t == StartIrdaBeamSend(x, file)
           g == Frame("Xid", 0, 0, Message("none"))
           r0 == Restarted(n, file)
<1>1. /\ x \in Senders /\ y \in Receivers /\ back \in Seq(Frames) /\ InNumbers(x, y)
      /\ Mode(x, y, back, n) /\ Tally(x, y, n, b) /\ n \in [Files -> Nat]
      /\ x.serial \in Seq(Frames) /\ x.state \in SendStates
  BY DEF Fits, Senders, Tally
<1>2. /\ t \in Senders /\ t.state = "Discover" /\ t.file = file /\ t.last = None
      /\ ~t.pending /\ ~t.endSent /\ t.offset = 0
      /\ t.transmitNext = 0 /\ t.receiveNext = 0
      /\ t.serial = Append(x.serial, g)
      /\ g \in Frames /\ g.kind = "Xid" /\ g.ns = 0
  BY <1>1, SendStarts
<1> HIDE DEF t, g
<1>3. /\ r0 \in [Files -> Nat]
      /\ \A f \in Files : r0[f] >= n[f] /\ (f = file => r0[f] = n[f] + 1)
      /\ \A f \in Files : n[f] \in Nat /\ r0[f] \in Nat
  BY <1>1, RestartedType
<1>4. /\ On(t.serial) = On(x.serial) \union {g}
      /\ g \in Kind({"Xid"}) /\ g \notin AnswerXids /\ g \notin Tokens
      /\ \A k : g \notin Info(k)
      /\ g \notin Kind({"Disc"})
  <2>1. AnswerSlot # 0
    BY BeamAssumption
  <2> QED BY <1>1, <1>2, <2>1, OnAppend DEF Kind, AnswerXids, Tokens, Info
<1>5. RequestsInStep(x, y) => RequestsInStep(t, y)
  <2>1. ASSUME InStep(x.serial, y.receiveNext) PROVE InStep(t.serial, y.receiveNext)
    <3>1. g.kind # "I" /\ y.receiveNext \in Numbers
      BY <1>1, <1>2 DEF InNumbers
    <3> QED BY <1>1, <1>2, <2>1, <3>1, InStepAppend
  <2> QED BY <1>4, <2>1 DEF RequestsInStep
<1>6. InLink(x, y, back) => Leftover(t, y, back, r0)
  <2> SUFFICES ASSUME InLink(x, y, back) PROVE Leftover(t, y, back, r0)
    OBVIOUS
  <2>1. /\ On(t.serial) \subseteq Kind({"Xid", "I", "RR", "Disc"}) \ AnswerXids
        /\ On(t.serial) \intersect Kind({"Disc"}) = {}
        /\ On(back) \subseteq Kind({"I", "RR", "Ua"})
    BY <1>4 DEF InLink, SenderInLink, ReceiverInLink, AnswersInStep, Kind
  <2>2. RequestsInStep(t, y)
    BY <1>5 DEF InLink, SenderInLink
  <2>3. ASSUME NEW f \in On(t.serial) \intersect Info(y.receiveNext), f.data.kind = "PutBody",
               f.data.final
        PROVE  \E h \in Files : /\ Whole(y.body \o f.data.units, h)
                                /\ SavedTimes(y, h) + (IF t.file = h THEN 1 ELSE 0) < r0[h]
    <3>1. f \in On(x.serial) \intersect Info(y.receiveNext) /\ f \in Frames
      BY <1>4 DEF Info
    <3> QED BY <1>1, <1>2, <2>3, <3>1, LinkLeft
  <2> QED BY <1>2, <2>1, <2>2, <2>3 DEF Leftover
<1>7. Leftover(x, y, back, n) => Leftover(t, y, back, r0)
  <2> SUFFICES ASSUME Leftover(x, y, back, n) PROVE Leftover(t, y, back, r0)
    OBVIOUS
  <2>1. /\ On(t.serial) \subseteq Kind({"Xid", "I", "RR", "Disc"}) \ AnswerXids
        /\ On(back) \subseteq Kind({"I", "RR", "Ua"})
    BY <1>4 DEF Leftover, Kind
  <2>2. ASSUME y.connected
        PROVE /\ RequestsInStep(t, y)
              /\ \A f \in On(t.serial) \intersect Info(y.receiveNext) :
                    /\ On(t.serial) \intersect Kind({"Disc"}) = {}
                    /\ f.data.kind = "PutBody" /\ f.data.final =>
                          \E h \in Files : /\ Whole(y.body \o f.data.units, h)
                                           /\ SavedTimes(y, h) + (IF t.file = h THEN 1 ELSE 0) < r0[h]
    <3>1. RequestsInStep(t, y)
      BY <1>5, <2>2 DEF Leftover
    <3>2. ASSUME NEW f \in On(t.serial) \intersect Info(y.receiveNext)
          PROVE  /\ On(t.serial) \intersect Kind({"Disc"}) = {}
                 /\ f.data.kind = "PutBody" /\ f.data.final =>
                       \E h \in Files : /\ Whole(y.body \o f.data.units, h)
                                        /\ SavedTimes(y, h) + (IF x.file = h THEN 1 ELSE 0) < n[h]
      <4>1. f \in On(x.serial) \intersect Info(y.receiveNext)
        BY <1>4
      <4>2. On(t.serial) \intersect Kind({"Disc"}) = On(x.serial) \intersect Kind({"Disc"})
        BY <1>4
      <4> QED BY <2>2, <4>1, <4>2 DEF Leftover
    <3>3. ASSUME NEW h \in Files, SavedTimes(y, h) + (IF x.file = h THEN 1 ELSE 0) < n[h]
          PROVE  SavedTimes(y, h) + (IF t.file = h THEN 1 ELSE 0) < r0[h]
      <4>1. SavedTimes(y, h) \in Nat /\ SavedTimes(y, h) < n[h]
        BY <1>1, <1>3, <3>3, SavedCount
      <4>2. h \in Files /\ n[h] \in Nat /\ r0[h] \in Nat /\ r0[h] >= n[h]
            /\ (h = file => r0[h] = n[h] + 1)
        BY <1>3
      <4> HIDE DEF r0
      <4> QED BY <1>2, <4>1, <4>2
    <3> QED BY <3>1, <3>2, <3>3
  <2> QED BY <1>2, <2>1, <2>2 DEF Leftover
<1>8. SettingUp(x, y, back) => SettingUp(t, y, back)
  <2> SUFFICES ASSUME SettingUp(x, y, back) PROVE SettingUp(t, y, back)
    OBVIOUS
  <2>1. On(t.serial) \subseteq Kind({"Xid", "Snrm"})
    BY <1>4 DEF SettingUp, Kind
  <2>2. Ordered(t.serial, Tokens, Tokens)
    <3>1. Ordered(x.serial, Tokens, Tokens) /\ g \notin Tokens
      BY <1>4 DEF SettingUp
    <3> QED BY <1>1, <1>2, <3>1, OrderedAppend
  <2>3. On(t.serial) \intersect Tokens = On(x.serial) \intersect Tokens
    BY <1>4
  <2>4. t.state = "Discover" /\ t.state # "Snrm"
    BY <1>2
  <2> QED BY <2>1, <2>2, <2>3, <2>4 DEF SettingUp
<1>9. Mode(t, y, back, r0)
  <2>1. Leftover(t, y, back, r0) \/ SettingUp(t, y, back)
    BY <1>1, <1>6, <1>7, <1>8 DEF Mode, SendStates, LinkStates
  <2> QED BY <1>2, <2>1 DEF Mode, LinkStates
<1>10. Tally(t, y, r0, Len(y.saved))
  <2>1. y.saved \in Seq(Seq(Parts)) /\ Len(y.saved) \in Nat
    BY <1>1 DEF Receivers
  <2>2. ~HasSaved(t, y)
    BY <1>2 DEF HasSaved
  <2>3. ASSUME NEW f \in Files
        PROVE SavedTimes(y, f) <= r0[f] /\ (f = file => SavedTimes(y, f) < r0[f])
    <3>1. SavedTimes(y, f) \in Nat /\ SavedTimes(y, f) <= n[f] /\ n[f] \in Nat /\ r0[f] \in Nat
          /\ r0[f] >= n[f] /\ (f = file => r0[f] = n[f] + 1)
      BY <1>1, <1>3, SavedCount DEF Tally
    <3> HIDE DEF r0
    <3> QED BY <3>1
  <2>4. \A k \in DOMAIN y.saved : \E f \in Files : Whole(y.saved[k], f)
    BY <1>1 DEF Tally
  <2>5. t.file \in Files /\ t.file # None /\ t.state # "Idle" /\ t.state \notin LinkStates
    BY <1>2, BeamAssumption DEF LinkStates
  <2>6. Len(y.saved) <= Len(y.saved)
    BY <2>1
  <2> HIDE DEF r0
  <2> QED BY <1>2, <1>3, <2>1, <2>2, <2>3, <2>4, <2>5, <2>6 DEF Tally
<1>11. InNumbers(t, y)
  BY <1>1, <1>2, NextNumber DEF InNumbers
<1>12. LoadOf(t, y, back) <= LoadOf(x, y, back)
  <2> DEFINE A == Count(x.serial, Kind({"I"}))
             B == Count(x.serial, Kind({"RR"}))
             C == Count(back, Kind({"I", "RR"}))
             E == Count(t.serial, Kind({"I"}))
             F == Count(t.serial, Kind({"RR"}))
             p == IF x.pending THEN 1 ELSE 0
             w == IF Waiting(x, y) THEN 1 ELSE 0
             u == IF Waiting(t, y) THEN 1 ELSE 0
  <2>1. u = w
    BY <1>4 DEF Waiting
  <2>2. E = A + 0 /\ F = B + 0
    BY <1>1, <1>2, WeightAppend
  <2>3. LoadOf(x, y, back) = 2 * A + B + C + p - w /\ LoadOf(t, y, back) = 2 * E + F + C + 0 - u
    BY <1>2 DEF LoadOf
  <2>4. A \in Nat /\ B \in Nat /\ C \in Nat /\ p \in 0 .. 1 /\ w \in 0 .. 1
    BY <1>1, WeightNat
  <2> HIDE DEF A, B, C, E, F, p, w, u
  <2> QED BY <2>1, <2>2, <2>3, <2>4
<1> QED BY <1>1, <1>2, <1>9, <1>10, <1>11, <1>12 DEF Fits, t

----------------------------------------------------------------------------
(* The invariant *)

\* The load is a number.
LEMMA LoadInt ==
    ASSUME NEW x \in Senders, NEW y, NEW back \in Seq(Frames)
    PROVE  LoadOf(x, y, back) \in Int
  BY WeightNat DEF LoadOf, Senders

\* How often a file was started is a number, and a start adds one.
LEMMA StartedType ==
    ASSUME started \in Seq(Files)
    PROVE  /\ StartedOf \in [Files -> Nat]
           /\ \A f \in Files : StartedOf[f] = Count(started, {f})
<1>1. ASSUME NEW f \in Files PROVE StartedTimes(f) = Count(started, {f}) /\ StartedTimes(f) \in Nat
  <2>1. {k \in DOMAIN started : started[k] = f} = {k \in DOMAIN started : started[k] \in {f}}
    OBVIOUS
  <2>2. StartedTimes(f) = Count(started, {f})
    BY <2>1 DEF StartedTimes, Count
  <2> QED BY <2>2, CountNat
<1> QED BY <1>1 DEF StartedOf

\* A start counts for its file.
LEMMA StartCounted ==
    ASSUME started \in Seq(Files), NEW file \in Files, started' = Append(started, file)
    PROVE  /\ started' \in Seq(Files)
           /\ StartedOf' = Restarted(StartedOf, file)
<1>1. started' \in Seq(Files)
  BY AppendProperties
<1>2. ASSUME NEW f \in Files
      PROVE  StartedTimes(f)' = StartedOf[f] + (IF f = file THEN 1 ELSE 0)
  <2>1. {k \in DOMAIN started' : started'[k] = f} = {k \in DOMAIN started' : started'[k] \in {f}}
    OBVIOUS
  <2>2. StartedTimes(f)' = Count(started', {f})
    BY <2>1 DEF StartedTimes, Count
  <2>3. Count(Append(started, file), {f}) = Count(started, {f}) + (IF file \in {f} THEN 1 ELSE 0)
    BY CountAppend
  <2>4. StartedOf[f] = Count(started, {f})
    BY StartedType
  <2> QED BY <2>2, <2>3, <2>4
<1> QED BY <1>1, <1>2 DEF StartedOf, Restarted

\* The invariant holds at power on.
LEMMA InitInv == Init => IInv
<1> SUFFICES ASSUME Init PROVE IInv
  OBVIOUS
<1>1. /\ s = SenderReset(<<>>) /\ r = ReceiverAtStart /\ toSender = <<>>
      /\ started = <<>> /\ before = 0 /\ past = "gone" /\ outcome = "none" /\ faults = 0
  BY DEF Init
<1>2. /\ s \in Senders /\ s.serial = <<>> /\ s.state = "Idle" /\ s.file = None
      /\ s.last = None /\ s.receiveNext = 0 /\ s.transmitNext = 0
      /\ s.pending = FALSE /\ s.endSent = FALSE /\ s.offset = 0
  BY <1>1, ResetSender, NothingThere
<1>3. /\ r \in Receivers /\ ~r.connected /\ r.receiveNext = 0 /\ r.transmitNext = 0
      /\ r.slot = None /\ r.queue = <<>> /\ r.saved = <<>>
  <2>1. <<>> \in Seq(Frames) /\ <<>> \in Seq(Parts) /\ <<>> \in Seq(Seq(Parts))
    OBVIOUS
  <2> QED BY <1>1, <2>1 DEF ReceiverAtStart, Receivers
<1>4. started \in Seq(Files) /\ toSender \in Seq(Frames)
  <2>1. <<>> \in Seq(Files) /\ <<>> \in Seq(Frames)
    OBVIOUS
  <2> QED BY <1>1, <2>1
<1>5. Line = <<>>
  BY <1>1, <1>3, NothingOn, <1>4 DEF Line
<1>6. Leftover(s, r, <<>>, StartedOf)
  BY <1>2, <1>3, NothingThere DEF Leftover
<1>7. Tally(s, r, StartedOf, before)
  <2>1. ~HasSaved(s, r)
    BY <1>2 DEF HasSaved
  <2>2. DOMAIN r.saved = {} /\ Len(r.saved) = 0
    BY <1>3
  <2>3. ASSUME NEW f \in Files PROVE SavedTimes(r, f) <= StartedOf[f]
    <3>1. SavedTimes(r, f) = 0
      BY <2>2, FS_EmptySet DEF SavedTimes
    <3>2. StartedOf[f] \in Nat
      BY <1>4, StartedType
    <3> QED BY <3>1, <3>2
  <2>4. StartedOf \in [Files -> Nat]
    BY <1>4, StartedType
  <2> QED BY <1>1, <1>2, <2>1, <2>2, <2>3, <2>4, BeamAssumption DEF Tally
<1>8. Fits(s, r, Line, StartedOf, before)
  <2>1. InNumbers(s, r)
    <3>1. 0 \in Numbers
      BY BeamAssumption DEF Numbers
    <3> QED BY <1>2, <1>3, <3>1 DEF InNumbers
  <2>2. Mode(s, r, <<>>, StartedOf)
    BY <1>2, <1>6 DEF Mode, LinkStates
  <2> QED BY <1>2, <1>3, <1>5, <1>7, <2>1, <2>2, NothingThere DEF Fits
<1>9. LoadOf(s, r, Line) <= 2 + 2 * faults
  <2>1. ~Waiting(s, r)
    BY <1>3 DEF Waiting
  <2>2. Count(<<>>, Kind({"I"})) = 0 /\ Count(<<>>, Kind({"RR"})) = 0
        /\ Count(<<>>, Kind({"I", "RR"})) = 0
    BY NothingThere
  <2> QED BY <1>1, <1>2, <1>5, <2>1, <2>2 DEF LoadOf
<1> QED BY <1>1, <1>2, <1>3, <1>4, <1>8, <1>9 DEF IInv, TypeOK, Pasts

\* What a step of the sender or of the line is to the rest: the counts, and what is saved.

\* Nothing was started, so the counts stay.
LEMMA Rested ==
    ASSUME UNCHANGED <<started>>
    PROVE  StartedOf' = StartedOf
  BY DEF StartedOf, StartedTimes

\* How the steps bound what is under way.
LEMMA Bound ==
    ASSUME NEW p \in Nat, NEW q \in Nat, NEW l \in Int, NEW m \in Int, m <= 2 + 2 * p,
           \/ q >= p /\ (l <= m \/ l <= 2)
           \/ q = p + 1 /\ l <= m + 2
    PROVE  l <= 2 + 2 * q
<1>1. CASE q >= p /\ l <= m
  BY <1>1
<1>2. CASE q >= p /\ l <= 2
  BY <1>2
<1>3. CASE q = p + 1 /\ l <= m + 2
  BY <1>3
<1> QED BY <1>1, <1>2, <1>3

\* The bound on the load survives a step that adds two to it and counts a fault.
LEMMA LoadBound ==
    ASSUME IInv, faults' \in Nat, NEW l \in Int,
           \/ faults' >= faults /\ (l <= LoadOf(s, r, Line) \/ l <= 2)
           \/ faults' = faults + 1 /\ l <= LoadOf(s, r, Line) + 2
    PROVE  l <= 2 + 2 * faults'
<1> DEFINE m == LoadOf(s, r, Line)
<1>1. m \in Int /\ m <= 2 + 2 * faults /\ faults \in Nat
  BY LoadInt DEF IInv, TypeOK, Fits
<1>2. \/ faults' >= faults /\ (l <= m \/ l <= 2)
      \/ faults' = faults + 1 /\ l <= m + 2
  OBVIOUS
<1> HIDE DEF m
<1> QED BY <1>1, <1>2, Bound

----------------------------------------------------------------------------
(* Each step keeps the invariant, and what it is to the one who started the send *)

\* It shows nothing; it saves a file; it ends a send.
Hidden == /\ s'.file = s.file /\ r'.saved = r.saved
          /\ UNCHANGED <<started, before, outcome>>
Saving == /\ s'.file = s.file /\ Saves(r, r', StartedOf)
          /\ UNCHANGED <<started, before, outcome>>
Ending(how) == /\ s.file \in Files /\ s'.file = None /\ outcome' = how
               /\ r'.saved = r.saved /\ UNCHANGED <<started, before>>
Starting == \E file \in Files : /\ s'.file = file /\ started' = Append(started, file)
                                /\ before' = Len(r.saved) /\ outcome' = "none"
                                /\ r'.saved = r.saved

\* What an action has to show.
LEMMA InvKept ==
    ASSUME IInv, started' \in Seq(Files), past' \in Pasts \ {"mixed"}, faults' \in Nat,
           outcome' \in {"none", "complete", "aborted"}, toSender' \in Seq(Frames),
           NEW x, NEW y, NEW back, NEW n, NEW b, s' = x, r' = y, Line' = back,
           StartedOf' = n, before' = b, Fits(x, y, back, n, b),
           \/ faults' >= faults /\ (LoadOf(x, y, back) <= LoadOf(s, r, Line) \/ LoadOf(x, y, back) <= 2)
           \/ faults' = faults + 1 /\ LoadOf(x, y, back) <= LoadOf(s, r, Line) + 2
    PROVE  IInv'
<1>1. x \in Senders /\ y \in Receivers /\ back \in Seq(Frames) /\ b \in Nat
  BY DEF Fits, Tally
<1>2. LoadOf(x, y, back) \in Int
  BY <1>1, LoadInt
<1> DEFINE l == LoadOf(x, y, back)
<1>3. l \in Int /\ \/ faults' >= faults /\ (l <= LoadOf(s, r, Line) \/ l <= 2)
                   \/ faults' = faults + 1 /\ l <= LoadOf(s, r, Line) + 2
  BY <1>2
<1>4. LoadOf(s', r', Line') = l
  OBVIOUS
<1> HIDE DEF l
<1>5. l <= 2 + 2 * faults'
  BY <1>3, LoadBound
<1>6. LoadOf(s, r, Line)' = LoadOf(s', r', Line')
  BY DEF LoadOf, Waiting, On, Kind, Count, Info
<1>7. Fits(s, r, Line, StartedOf, before)' = Fits(s', r', Line', StartedOf', before')
  OBVIOUS
<1> QED BY <1>1, <1>4, <1>5, <1>6, <1>7 DEF IInv, TypeOK

\* What the invariant says of the state.
LEMMA Here ==
    ASSUME IInv
    PROVE  /\ s \in Senders /\ r \in Receivers /\ toSender \in Seq(Frames)
           /\ started \in Seq(Files) /\ before \in Nat /\ past \in Pasts \ {"mixed"}
           /\ outcome \in {"none", "complete", "aborted"} /\ faults \in Nat
           /\ Fits(s, r, Line, StartedOf, before)
           /\ LoadOf(s, r, Line) \in Int /\ LoadOf(s, r, Line) <= LoadOf(s, r, Line)
           /\ faults >= faults
           /\ Line = toSender \o Answers(r) /\ Line \in Seq(Frames)
<1>1. Line \in Seq(Frames)
  BY LineBack DEF IInv, TypeOK, Line
<1>2. LoadOf(s, r, Line) \in Int
  BY <1>1, LoadInt DEF IInv, TypeOK
<1>3. LoadOf(s, r, Line) <= LoadOf(s, r, Line) /\ faults >= faults
  BY <1>2 DEF IInv, TypeOK
<1> QED BY <1>1, <1>2, <1>3 DEF IInv, TypeOK, Line

\* On quiet lines there is nothing, and no answer is on its way.
LEMMA QuietLine ==
    ASSUME IInv, Quiet
    PROVE  s.serial = <<>> /\ Line = <<>>
<1>1. r \in Receivers /\ toSender \in Seq(Frames)
  BY Here
<1> QED BY <1>1, NothingOn DEF Quiet, Line

\* StartIrdaBeamSend keeps the invariant.
LEMMA UserSendsInv ==
    ASSUME IInv, UserSends
    PROVE  IInv' /\ Starting
<1>1. PICK file \in Files :
        /\ s' = StartIrdaBeamSend(s, file)
        /\ started' = Append(started, file)
        /\ before' = Len(r.saved) /\ outcome' = "none"
        /\ past' = IF Quiet THEN "gone" ELSE IF past = "gone" THEN "left" ELSE past
        /\ r' = r /\ toSender' = toSender /\ faults' = faults
  BY DEF UserSends
<1>2. /\ Fits(s', r, Line, Restarted(StartedOf, file), Len(r.saved))
      /\ LoadOf(s', r, Line) <= LoadOf(s, r, Line)
      /\ s'.file = file
  BY <1>1, Here, SendBegun
<1>3. Line' = Line
  BY <1>1 DEF Line
<1>4. started' \in Seq(Files) /\ StartedOf' = Restarted(StartedOf, file)
  BY <1>1, Here, StartCounted
<1>5. past' \in Pasts \ {"mixed"}
  BY <1>1, Here DEF Pasts
<1>6. faults' >= faults /\ faults' \in Nat
  BY <1>1, Here
<1>7. outcome' \in {"none", "complete", "aborted"} /\ toSender' \in Seq(Frames)
  BY <1>1, Here
<1>8. IInv'
  BY <1>1, <1>2, <1>3, <1>4, <1>5, <1>6, <1>7, InvKept
<1> QED BY <1>1, <1>2, <1>8 DEF Starting

\* HandleIrdaBeamSenderFrame keeps the invariant, and reports a file complete only when it
\* was saved or had nothing to send.
LEMMA SenderHearsInv ==
    ASSUME IInv, SenderHears
    PROVE  IInv' /\ (Hidden \/ (Ending("complete")
                                /\ (HasDelivered(s, r, before) \/ s.file \in EmptyFiles)))
<1>1. /\ toSender # <<>> /\ toSender' = Tail(toSender)
      /\ s' = HandleIrdaBeamSenderFrame(s, Head(toSender))
      /\ outcome' = IF s.state # "Idle" /\ s'.state = "Idle" THEN "complete" ELSE outcome
      /\ r' = r /\ started' = started /\ before' = before /\ past' = past /\ faults' = faults
  BY DEF SenderHears
<1>2. Line # <<>> /\ Head(Line) = Head(toSender) /\ Line' = Tail(Line)
      /\ toSender' \in Seq(Frames)
  <2>1. Answers(r) \in Seq(Frames)
    BY Here, AnswersType
  <2>2. toSender \in Seq(Frames) /\ Line = toSender \o Answers(r)
    BY Here
  <2>3. Line' = Tail(toSender) \o Answers(r)
    BY <1>1 DEF Line
  <2>4. /\ toSender \o Answers(r) # <<>> /\ Head(toSender \o Answers(r)) = Head(toSender)
        /\ Tail(toSender \o Answers(r)) = Tail(toSender) \o Answers(r)
        /\ Tail(toSender) \in Seq(Frames)
    BY <1>1, <2>1, <2>2, JoinTail
  <2> QED BY <1>1, <2>2, <2>3, <2>4
<1>3. /\ Fits(s', r, Tail(Line), StartedOf, before) /\ SenderHeard(s, r, s', before)
      /\ LoadOf(s', r, Tail(Line)) <= LoadOf(s, r, Line) \/ LoadOf(s', r, Tail(Line)) <= 2
  BY <1>1, <1>2, Here, SenderTakes
<1>4. StartedOf' = StartedOf
  BY <1>1, Rested
<1>5. outcome' \in {"none", "complete", "aborted"} /\ faults' >= faults /\ faults' \in Nat
      /\ started' \in Seq(Files) /\ past' \in Pasts \ {"mixed"}
  BY <1>1, Here
<1>6. IInv'
  BY <1>1, <1>2, <1>3, <1>4, <1>5, InvKept
<1>7. CASE s'.file = s.file /\ (s'.state = "Idle" <=> s.state = "Idle")
  BY <1>1, <1>6, <1>7 DEF Hidden
<1>8. CASE /\ s'.file = None /\ s'.state = "Idle" /\ s.file \in Files
           /\ HasDelivered(s, r, before) \/ s.file \in EmptyFiles
  <2>1. s.state # "Idle"
    BY <1>8, Here DEF Fits, Tally
  <2> QED BY <1>1, <1>6, <1>8, <2>1 DEF Ending
<1> QED BY <1>3, <1>7, <1>8 DEF SenderHeard

\* The discovery timer keeps the invariant.
LEMMA DiscoveryTimerInv ==
    ASSUME IInv, DiscoveryTimer
    PROVE  IInv' /\ Hidden
<1>1. /\ s.state = "Discover" /\ Quiet /\ s' = SendIrdaBeamDiscovery(s)
      /\ r' = r /\ toSender' = toSender /\ started' = started /\ before' = before
      /\ past' = "gone" /\ outcome' = outcome /\ faults' = faults
  BY DEF DiscoveryTimer
<1>2. s.serial = <<>> /\ Line = <<>> /\ Line' = Line
  BY <1>1, QuietLine DEF Line
<1>3. Fits(s', r, Line, StartedOf, before) /\ LoadOf(s', r, Line) <= 2
  BY <1>1, <1>2, Here, DiscoveryGoesOn
<1>4. StartedOf' = StartedOf
  BY <1>1, Rested
<1>5. past' \in Pasts \ {"mixed"}
  BY <1>1 DEF Pasts
<1>6. IInv'
  BY <1>1, <1>2, <1>3, <1>4, <1>5, Here, InvKept
<1>7. s'.file = s.file
  BY <1>1, Here, SendsDiscovery DEF SameTurn, SamePlace
<1> QED BY <1>1, <1>6, <1>7 DEF Hidden

\* The timer of the next chunk keeps the invariant.
LEMMA BodyTimerInv ==
    ASSUME IInv, BodyTimer
    PROVE  IInv' /\ Hidden
<1>1. /\ s.pending /\ s.last = None /\ s' = SendIrdaBeamNextBodyChunk(s)
      /\ r' = r /\ toSender' = toSender /\ started' = started /\ before' = before
      /\ past' = past /\ outcome' = outcome /\ faults' = faults
  BY DEF BodyTimer, BodyWaits, SenderMoves
<1>2. Line' = Line
  BY <1>1 DEF Line
<1>3. /\ Fits(s', r, Line, StartedOf, before) /\ LoadOf(s', r, Line) <= LoadOf(s, r, Line)
      /\ s'.file = s.file
  BY <1>1, Here, BodyGoesOn
<1>4. StartedOf' = StartedOf
  BY <1>1, Rested
<1>5. IInv'
  BY <1>1, <1>2, <1>3, <1>4, Here, InvKept
<1> QED BY <1>1, <1>3, <1>5 DEF Hidden

\* The retransmit timer keeps the invariant, whether it was due or early.
LEMMA RetransmitTimerInv ==
    ASSUME IInv, RetransmitTimer \/ RetransmitTimerEarly
    PROVE  IInv' /\ Hidden
<1>1. /\ TimeoutDue(s) /\ s' = Timeout(s)
      /\ r' = r /\ toSender' = toSender /\ started' = started /\ before' = before
      /\ past' = past /\ outcome' = outcome
      /\ (Quiet /\ faults' = faults) \/ faults' = faults + 1
  BY DEF RetransmitTimer, RetransmitTimerEarly, SenderMoves
<1>2. Line' = Line /\ s.last # None
  BY <1>1 DEF Line, TimeoutDue, CanRetransmit
<1>3. /\ Fits(s', r, Line, StartedOf, before)
      /\ LoadOf(s', r, Line) <= LoadOf(s, r, Line) + 2
      /\ LoadOf(s, r, Line) \in Int
      /\ s.serial = <<>> /\ Line = <<>> => LoadOf(s, r, Line) <= 0
  BY <1>1, <1>2, Here, FrameRepeated
<1>4. StartedOf' = StartedOf
  BY <1>1, Rested
<1>5. \/ faults' >= faults /\ LoadOf(s', r, Line) <= 2
      \/ faults' = faults + 1 /\ LoadOf(s', r, Line) <= LoadOf(s, r, Line) + 2
  <2>1. CASE Quiet /\ faults' = faults
    <3>1. LoadOf(s, r, Line) <= 0
      BY <1>3, <2>1, QuietLine
    <3>2. s' \in Senders /\ Line \in Seq(Frames)
      BY <1>3 DEF Fits
    <3>3. LoadOf(s', r, Line) \in Int
      BY <3>2, LoadInt
    <3> DEFINE l == LoadOf(s', r, Line)
               m == LoadOf(s, r, Line)
    <3>4. m \in Int /\ l \in Int /\ l <= m + 2 /\ m <= 0
      BY <1>3, <3>1, <3>3
    <3> HIDE DEF l, m
    <3>5. l <= 2
      BY <3>4
    <3> QED BY <2>1, <3>5, Here DEF l
  <2>2. CASE faults' = faults + 1
    BY <1>3, <2>2
  <2> QED BY <1>1, <2>1, <2>2
<1>6. faults' \in Nat
  BY <1>1, Here
<1>7. IInv'
  BY <1>1, <1>2, <1>3, <1>4, <1>5, <1>6, Here, InvKept
<1>8. s'.file = s.file
  BY <1>1, Here, TimesOut
<1> QED BY <1>1, <1>7, <1>8 DEF Hidden

\* The last retry that runs out keeps the invariant.
LEMMA GiveUpTimerInv ==
    ASSUME IInv, GiveUpTimer
    PROVE  IInv' /\ Ending("aborted")
<1>1. /\ s.state # "Idle" /\ Quiet /\ s' = SenderReset(s.serial) /\ outcome' = "aborted"
      /\ r' = r /\ toSender' = toSender /\ started' = started /\ before' = before
      /\ past' = past /\ faults' = faults
  BY DEF GiveUpTimer, GiveUpDue, SenderMoves
<1>2. s.serial = <<>> /\ Line = <<>> /\ Line' = Line
  BY <1>1, QuietLine DEF Line
<1>3. Fits(s', r, Line, StartedOf, before) /\ LoadOf(s', r, Line) <= 2
  BY <1>1, <1>2, Here, SendGivenUp
<1>4. StartedOf' = StartedOf
  BY <1>1, Rested
<1>5. outcome' \in {"none", "complete", "aborted"}
  BY <1>1
<1>6. IInv'
  BY <1>1, <1>2, <1>3, <1>4, <1>5, Here, InvKept
<1>7. s'.file = None
  BY <1>1 DEF SenderReset
<1>8. s.file \in Files
  BY <1>1, Here DEF Fits, Tally
<1> QED BY <1>1, <1>6, <1>7, <1>8 DEF Ending

\* HandleIrdaFrame of the receiver keeps the invariant, and saves at most one object, whole.
LEMMA ReceiverHearsInv ==
    ASSUME IInv, ReceiverHears
    PROVE  IInv' /\ Saving
<1> DEFINE f == Head(s.serial)
           t == [s EXCEPT !.serial = Tail(s.serial)]
<1>1. /\ s.serial # <<>> /\ r' = TakeUp(HandleIrdaFrame(r, f))
      /\ toSender' = (IF f.kind = "Disc" THEN Append(toSender, Control("Ua")) ELSE toSender)
      /\ s' = t
      /\ started' = started /\ before' = before
      /\ past' = past /\ outcome' = outcome /\ faults' = faults
  BY DEF ReceiverHears
<1>3. Line' = LineAfter(toSender, Head(s.serial)) \o Answers(r')
  <2>1. Line' = toSender' \o Answers(r')
    BY DEF Line, Answers
  <2> QED BY <1>1, <2>1 DEF LineAfter
<1>4. /\ Fits(t, r', Line', StartedOf, before) /\ Saves(r, r', StartedOf) /\ t.file = s.file
      /\ LoadOf(t, r', Line') <= LoadOf(s, r, Line)
  <2>1. Fits(s, r, toSender \o Answers(r), StartedOf, before) /\ toSender \in Seq(Frames)
        /\ Line = toSender \o Answers(r) /\ s.serial # <<>>
    BY <1>1, Here
  <2> DEFINE v == TakeUp(HandleIrdaFrame(r, f))
             new == LineAfter(toSender, f) \o Answers(v)
  <2>2. /\ Fits(t, v, new, StartedOf, before) /\ Saves(r, v, StartedOf) /\ t.file = s.file
        /\ LoadOf(t, v, new) <= LoadOf(s, r, toSender \o Answers(r))
    BY <2>1, ReceiverStep
  <2> QED BY <1>1, <1>3, <2>1, <2>2
<1> HIDE DEF t
<1>5. StartedOf' = StartedOf
  BY <1>1, Rested
<1>6. toSender' \in Seq(Frames)
  <2>1. Control("Ua") \in Frames
    BY ControlType DEF FrameKinds
  <2> QED BY <1>1, <2>1, Here, OnAppend
<1>7. IInv'
  BY <1>1, <1>4, <1>5, <1>6, Here, InvKept
<1>8. s'.file = s.file
  BY <1>1, <1>4
<1> QED BY <1>1, <1>4, <1>7, <1>8 DEF Saving

\* An answer that moves to the slot, or from the slot to the line.
LEMMA AnswerMoves ==
    ASSUME IInv, SendPendingIrdaResponse \/ ResponseTakenUp
    PROVE  IInv' /\ Hidden
<1> DEFINE u == TakeUp(r)
<1>1. /\ s' = s /\ started' = started /\ before' = before
      /\ past' = past /\ outcome' = outcome /\ faults' = faults
  BY DEF SendPendingIrdaResponse, ResponseTakenUp
<1>2. SameLink(r, u) /\ Answers(u) = Answers(r) /\ u \in Receivers
  BY Here, TakesUp DEF SameLink
<1>3. SameLink(r, r') /\ toSender' \in Seq(Frames) /\ toSender' \o Answers(r') = Line
  <2>1. CASE ResponseTakenUp
    <3>1. r' = u /\ toSender' = toSender
      BY <2>1 DEF ResponseTakenUp
    <3> QED BY <1>2, <3>1, Here
  <2>2. CASE SendPendingIrdaResponse
    <3>1. /\ u.slot # None /\ toSender' = Append(toSender, u.slot)
          /\ r' = [u EXCEPT !.slot = None]
      BY <2>2 DEF SendPendingIrdaResponse
    <3> HIDE DEF u
    <3>2. /\ SameLink(u, [u EXCEPT !.slot = None])
          /\ Append(toSender, u.slot) \in Seq(Frames)
          /\ Append(toSender, u.slot) \o Answers([u EXCEPT !.slot = None]) = toSender \o Answers(u)
      BY <1>2, <3>1, Here, AnswerWritten
    <3>3. SameLink(u, r') /\ toSender' \in Seq(Frames) /\ toSender' \o Answers(r') = toSender \o Answers(u)
      BY <3>1, <3>2
    <3>4. SameLink(r, r')
      BY <1>2, <3>3 DEF SameLink
    <3> QED BY <1>2, <3>3, <3>4, Here
  <2> QED BY <2>1, <2>2
<1>4. Line' = Line
  <2>1. Line' = toSender' \o Answers(r')
    BY DEF Line, Answers
  <2> QED BY <1>3, <2>1
<1>5. /\ Fits(s, r', Line, StartedOf, before) /\ LoadOf(s, r', Line) = LoadOf(s, r, Line)
      /\ r'.saved = r.saved
  BY <1>3, Here, FitsMoved DEF SameLink
<1>6. StartedOf' = StartedOf
  BY <1>1, Rested
<1>7. LoadOf(s, r', Line) <= LoadOf(s, r, Line)
  BY <1>5, Here
<1>8. IInv'
  BY <1>1, <1>3, <1>4, <1>5, <1>6, <1>7, Here, InvKept
<1> QED BY <1>1, <1>5, <1>8 DEF Hidden

\* A frame lost on either line keeps the invariant.
LEMMA LineLosesInv ==
    ASSUME IInv, LineLoses
    PROVE  IInv' /\ Hidden
<1>1. /\ r' = r /\ started' = started /\ before' = before
      /\ past' = past /\ outcome' = outcome /\ faults' = faults + 1
  BY DEF LineLoses
<1>2. StartedOf' = StartedOf /\ faults' \in Nat /\ faults' >= faults
  BY <1>1, Here, Rested
<1>3. CASE s.serial # <<>> /\ s' = [s EXCEPT !.serial = Tail(s.serial)] /\ toSender' = toSender
  <2> DEFINE t == [s EXCEPT !.serial = Tail(s.serial)]
  <2>1. SameSender(s, t) /\ t.serial = Tail(s.serial)
    BY <1>3, Here, TakesFrame
  <2>2. Line' = Line
    BY <1>1, <1>3 DEF Line
  <2> HIDE DEF t
  <2>3. Fits(t, r, Line, StartedOf, before) /\ LoadOf(t, r, Line) <= LoadOf(s, r, Line)
    BY <1>3, <2>1, Here, LosesRequest
  <2>4. s' = t
    BY <1>3 DEF t
  <2>5. IInv'
    BY <1>1, <1>2, <1>3, <2>2, <2>3, <2>4, Here, InvKept
  <2> QED BY <1>1, <2>1, <2>4, <2>5 DEF Hidden, SameSender, SamePlace
<1>4. CASE toSender # <<>> /\ toSender' = Tail(toSender) /\ s' = s
  <2>1. Answers(r) \in Seq(Frames)
    BY Here, AnswersType
  <2>2. toSender \in Seq(Frames) /\ Line = toSender \o Answers(r)
    BY Here
  <2>3. Line' = Tail(toSender) \o Answers(r)
    BY <1>1, <1>4 DEF Line
  <2>4. /\ toSender \o Answers(r) # <<>>
        /\ Tail(toSender \o Answers(r)) = Tail(toSender) \o Answers(r)
        /\ Tail(toSender) \in Seq(Frames)
    BY <1>4, <2>1, <2>2, JoinTail
  <2>5. Fits(s, r, Tail(Line), StartedOf, before) /\ LoadOf(s, r, Tail(Line)) <= LoadOf(s, r, Line)
    BY <2>2, <2>4, Here, LosesAnswer
  <2>6. Line' = Tail(Line) /\ toSender' \in Seq(Frames)
    BY <1>4, <2>2, <2>3, <2>4
  <2>7. IInv'
    BY <1>1, <1>2, <1>4, <2>5, <2>6, Here, InvKept
  <2> QED BY <1>1, <1>4, <2>7 DEF Hidden
<1> QED BY <1>3, <1>4 DEF LineLoses

\* Every step keeps the invariant and is one of those that the promise knows.
LEMMA NextInv ==
    ASSUME IInv, [Next]_vars, [~DiscoveryTimerEarly]_vars
    PROVE  /\ IInv'
           /\ \/ Hidden \/ Saving \/ Starting \/ Ending("aborted")
              \/ Ending("complete") /\ (HasDelivered(s, r, before) \/ s.file \in EmptyFiles)
<1>1. CASE UNCHANGED vars
  <2>1. /\ s' = s /\ r' = r /\ toSender' = toSender /\ started' = started /\ before' = before
        /\ past' = past /\ outcome' = outcome /\ faults' = faults
    BY <1>1 DEF vars
  <2>2. Line' = Line /\ StartedOf' = StartedOf
    BY <2>1, Rested DEF Line
  <2>3. IInv'
    BY <2>1, <2>2, Here, InvKept
  <2> QED BY <2>1, <2>3 DEF Hidden
<1>2. CASE Next /\ ~DiscoveryTimerEarly
  BY <1>2, UserSendsInv, SenderHearsInv, DiscoveryTimerInv, BodyTimerInv, RetransmitTimerInv,
     GiveUpTimerInv, ReceiverHearsInv, AnswerMoves, LineLosesInv DEF Next
<1> QED BY <1>1, <1>2

----------------------------------------------------------------------------
(* Credits, also when links are mixed *)

\* The line back holds the frame in the slot and the queued ones.
LEMMA OnAnswers ==
    ASSUME NEW y \in Receivers, NEW line \in Seq(Frames)
    PROVE  On(line \o Answers(y))
             = On(line) \union On(y.queue) \union (IF y.slot = None THEN {} ELSE {y.slot})
<1>1. Answers(y) \in Seq(Frames) /\ y.queue \in Seq(Frames)
  BY AnswersType DEF Receivers
<1>2. On(line \o Answers(y)) = On(line) \union On(Answers(y))
  BY <1>1, OnJoin
<1>3. CASE y.slot = None
  BY <1>2, <1>3, AnswersType
<1>4. CASE y.slot # None
  <2> DEFINE one == <<y.slot>>
  <2>1. Answers(y) = one \o y.queue /\ y.slot \in Frames
    BY <1>4, AnswersType
  <2>2. one \in Seq(Frames) /\ On(one) = {y.slot}
    BY <2>1 DEF On
  <2> HIDE DEF one
  <2>3. On(Answers(y)) = {y.slot} \union On(y.queue)
    BY <1>1, <2>1, <2>2, OnJoin
  <2> QED BY <1>2, <1>4, <2>3
<1> QED BY <1>3, <1>4

\* An answer that goes into the slot in place of another, or answers that are dropped.
LEMMA CreditsSlot ==
    ASSUME NEW y \in Receivers, NEW u \in Receivers, NEW line \in Seq(Frames),
           u.queue \in {y.queue, <<>>}, u.last \in {y.last, None},
           u.slot \in {y.slot, None} \/ Credits(u.slot.data), Crediting(y, line \o Answers(y))
    PROVE  Crediting(u, line \o Answers(u))
<1>1. /\ On(line \o Answers(y))
           = On(line) \union On(y.queue) \union (IF y.slot = None THEN {} ELSE {y.slot})
      /\ On(line \o Answers(u))
           = On(line) \union On(u.queue) \union (IF u.slot = None THEN {} ELSE {u.slot})
  BY OnAnswers
<1>2. On(<<>>) = {}
  BY DEF On
<1> QED BY <1>1, <1>2 DEF Crediting

\* HandleIrdaFrame leaves a receiver whose answers credit.
LEMMA FrameCredits ==
    ASSUME NEW y \in Receivers, NEW line \in Seq(Frames), NEW f \in Frames
    PROVE  LET u == HandleIrdaFrame(y, f)
           IN  /\ u \in Receivers
               /\ Crediting(y, line \o Answers(y)) => Crediting(u, line \o Answers(u))
<1> DEFINE u == HandleIrdaFrame(y, f)
           Good == /\ u \in Receivers
                   /\ Crediting(y, line \o Answers(y)) => Crediting(u, line \o Answers(u))
<1>0. f.data \in Messages
  BY DEF Frames
<1>1. ASSUME NEW kind \in FrameKinds
      PROVE  Control(kind) \in Frames /\ Credits(Control(kind).data)
  <2>1. Control(kind).data = Message("none") /\ Message("none").kind = "none"
    BY MessageType DEF Control, Frame, MessageKinds
  <2> QED BY <1>1, <2>1, ControlType DEF Credits
<1>2. CASE f.kind = "Xid"
  <2> DEFINE v == [y EXCEPT !.responded = FALSE]
             w == [y EXCEPT !.responded = TRUE, !.slot = Control("XidResponse")]
  <2>1. u \in {y, v, w}
    BY <1>2 DEF HandleIrdaFrame, HandleIrdaXidFrame
  <2>2. Control("XidResponse") \in Frames /\ Credits(Control("XidResponse").data)
    BY <1>1 DEF FrameKinds
  <2> DEFINE c == Control("XidResponse")
  <2> HIDE DEF c
  <2>3. /\ v \in Receivers /\ v.queue = y.queue /\ v.last = y.last /\ v.slot = y.slot
        /\ w \in Receivers /\ w.queue = y.queue /\ w.last = y.last /\ w.slot = c
    BY <2>2 DEF Receivers, c
  <2> HIDE DEF u, v, w
  <2>4. /\ Crediting(y, line \o Answers(y)) => Crediting(v, line \o Answers(v))
        /\ Crediting(y, line \o Answers(y)) => Crediting(w, line \o Answers(w))
    BY <2>2, <2>3, CreditsSlot DEF c
  <2> QED BY <2>1, <2>3, <2>4 DEF u
<1>3. CASE f.kind = "Snrm"
  <2> DEFINE c == Control("Ua")
             w == [y EXCEPT !.connected = TRUE, !.receiveNext = 0, !.transmitNext = 0,
                            !.last = None, !.slot = c]
  <2>1. u = w
    BY <1>3 DEF HandleIrdaFrame, HandleIrdaSnrmFrame
  <2>2. c \in Frames /\ Credits(c.data)
    BY <1>1 DEF FrameKinds
  <2> HIDE DEF c
  <2>3. w \in Receivers /\ w.queue = y.queue /\ w.last = None /\ w.slot = c
    BY <2>2 DEF Receivers
  <2> HIDE DEF u, w
  <2>4. Crediting(y, line \o Answers(y)) => Crediting(w, line \o Answers(w))
    BY <2>2, <2>3, CreditsSlot
  <2> QED BY <2>1, <2>3, <2>4 DEF u
<1>4. CASE f.kind = "I" /\ y.connected /\ f.ns # y.receiveNext
  <2>1. u = HandleIrdaInformationFrame(y, f)
    BY <1>4 DEF HandleIrdaFrame
  <2> DEFINE v == HandleIrdaInformationFrame(y, f)
  <2>2. /\ SameLink(y, v)
        /\ Crediting(y, line \o Answers(y)) => Crediting(v, line \o Answers(v))
    BY <1>4, OldFrameTaken
  <2>3. u = v
    BY <2>1
  <2> HIDE DEF u, v
  <2> QED BY <2>2, <2>3 DEF u, SameLink
<1>5. CASE f.kind = "I" /\ y.connected /\ f.ns = y.receiveNext
  <2> DEFINE v == HandleIrdaReceiveAck(y, f.nr, FALSE)
             z == Turned(v)
             w == HandleIrdaInformationPayload(z, f.data)
  <2>1. /\ SameLink(y, v)
        /\ Crediting(y, line \o Answers(y)) => Crediting(v, line \o Answers(v))
    BY AcknowledgementTaken
  <2>2. u = w
    <3>1. u = HandleIrdaInformationFrame(y, f)
      BY <1>5 DEF HandleIrdaFrame
    <3>2. v.receiveNext = y.receiveNext
      BY <2>1 DEF SameLink
    <3> QED BY <1>5, <3>1, <3>2 DEF HandleIrdaInformationFrame, Turned
  <2> HIDE DEF v
  <2>3. z \in Receivers /\ z.last = v.last /\ Answers(z) = Answers(v)
    BY <2>1, TurnedType DEF SameLink
  <2> HIDE DEF z
  <2>4. Looked(z, f.data, w, line)
    BY <1>0, <2>3, LooksAtAny
  <2> HIDE DEF u, w
  <2>5. Crediting(v, line \o Answers(v)) => Crediting(z, line \o Answers(z))
    BY <2>3 DEF Crediting
  <2> QED BY <2>1, <2>2, <2>4, <2>5 DEF u, Looked
<1>6. CASE f.kind = "RR" /\ y.connected
  <2> DEFINE v == HandleIrdaReceiveAck(y, f.nr, TRUE)
  <2>1. u = v
    BY <1>6 DEF HandleIrdaFrame
  <2>2. /\ SameLink(y, v)
        /\ Crediting(y, line \o Answers(y)) => Crediting(v, line \o Answers(v))
    BY AcknowledgementTaken
  <2> HIDE DEF u, v
  <2> QED BY <2>1, <2>2 DEF u, SameLink
<1>7. CASE f.kind = "Disc" /\ y.connected
  <2> DEFINE w == Disconnected(y)
  <2>1. u = w
    BY <1>7 DEF HandleIrdaFrame
  <2>2. w \in Receivers /\ w.queue = <<>> /\ w.last = None /\ w.slot = None
    <3>1. <<>> \in Seq(Frames) /\ <<>> \in Seq(Parts)
      OBVIOUS
    <3> QED BY <3>1 DEF Disconnected, ReceiverAtStart, Receivers
  <2> HIDE DEF u, w
  <2>3. Crediting(y, line \o Answers(y)) => Crediting(w, line \o Answers(w))
    BY <2>2, CreditsSlot
  <2> QED BY <2>1, <2>2, <2>3 DEF u
<1>8. CASE f.kind \notin {"Xid", "Snrm"} /\ ~(f.kind \in {"I", "RR", "Disc"} /\ y.connected)
  <2>1. u = y
    BY <1>8 DEF HandleIrdaFrame
  <2> HIDE DEF u
  <2> QED BY <2>1 DEF u
<1> HIDE DEF u
<1> QED BY <1>2, <1>3, <1>4, <1>5, <1>6, <1>7, <1>8 DEF u

\* A sender in the same place keeps its credits.
LEMMA PlaceCredited ==
    ASSUME NEW x, NEW t, Credited(x), t.state = x.state, t.file = x.file,
           t.pending = x.pending, t.credits = x.credits
    PROVE  Credited(t)
  BY DEF Credited

\* With a credit, the next chunk is sent or waits; either way it has its credit.
LEMMA ChunkCredited ==
    ASSUME NEW x \in Senders, x.file \in Files, x.credits > 0,
           x.state \in {"ObexPutBody", "ObexDisconnect"}
    PROVE  SendIrdaBeamNextBodyChunk(x) \in Senders /\ Credited(SendIrdaBeamNextBodyChunk(x))
<1> DEFINE t == SendIrdaBeamNextBodyChunk(x)
<1>0. x.credits \in Nat /\ x.credits - 1 \in Nat /\ x.credits # 0
      /\ FALSE \in BOOLEAN /\ TRUE \in BOOLEAN
  BY DEF Senders
<1>1. CASE x.last # None
  <2>1. t = x
    BY <1>1 DEF SendIrdaBeamNextBodyChunk
  <2> HIDE DEF t
  <2> QED BY <2>1 DEF Credited, t
<1>2. CASE x.last = None /\ x.paced /\ ~x.due
  <2>1. t = [x EXCEPT !.due = TRUE, !.pending = TRUE]
    BY <1>2 DEF SendIrdaBeamNextBodyChunk
  <2> HIDE DEF t
  <2>2. t \in Senders
    BY <1>0, <2>1, Zenon DEF Senders
  <2>3. t.state = x.state /\ t.file = x.file /\ t.credits = x.credits
    BY <2>1 DEF Senders
  <2> QED BY <2>2, <2>3 DEF Credited, t
<1>3. CASE x.last = None /\ ~(x.paced /\ ~x.due)
  <2> DEFINE z == [x EXCEPT !.due = FALSE]
  <2>1. t = IF z.offset >= Units[z.file] THEN SendAfterBody(z) ELSE SendChunk(z)
    BY <1>3 DEF SendIrdaBeamNextBodyChunk
  <2>2. z \in Senders
    BY <1>0, Zenon DEF Senders
  <2>3. z.state = x.state /\ z.file = x.file /\ z.credits = x.credits
        /\ z.offset = x.offset /\ z.offset \in Nat /\ z.chunk \in Nat
    BY <2>2 DEF Senders
  <2> HIDE DEF z, t
  <2>4. \E w \in Senders, m \in Messages :
            /\ t = SendIrdaBeamInformation(w, m) /\ w.file = x.file
            /\ w.state \in {"ObexPutBody", "ObexDisconnect"}
            /\ w.pending => w.credits > 0
    <3>1. CASE z.offset >= Units[z.file] /\ (z.file \notin TextFiles \/ z.endSent)
      <4> DEFINE w == [z EXCEPT !.state = "ObexDisconnect"]
                 m == ToObex("ObexDisconnect")
      <4>1. t = SendIrdaBeamInformation(w, m)
        BY <2>1, <3>1 DEF SendAfterBody
      <4>2. "ObexDisconnect" \in SendStates
        BY DEF SendStates
      <4>3. w \in Senders
        BY <2>2, <4>2, Zenon DEF Senders
      <4>4. w.state = "ObexDisconnect" /\ w.file = x.file /\ w.credits = x.credits
        BY <2>2, <2>3 DEF Senders
      <4>5. m \in Messages
        BY MessageType DEF MessageKinds
      <4> HIDE DEF w, m
      <4> QED BY <4>1, <4>3, <4>4, <4>5
    <3>2. CASE z.offset >= Units[z.file] /\ ~(z.file \notin TextFiles \/ z.endSent)
      <4> DEFINE w == [z EXCEPT !.credits = z.credits - 1, !.pending = FALSE, !.due = FALSE,
                                !.endSent = TRUE]
                 m == Put(<<>>, TRUE)
      <4>1. t = SendIrdaBeamInformation(w, m)
        BY <1>0, <2>1, <2>3, <3>2 DEF SendAfterBody
      <4>2. w \in Senders
        BY <1>0, <2>2, <2>3, Zenon DEF Senders
      <4>3. w.state = z.state /\ w.file = x.file /\ w.pending = FALSE
        BY <2>2, <2>3 DEF Senders
      <4>4. m \in Messages
        <5>1. <<>> \in Seq(Parts)
          OBVIOUS
        <5> QED BY <1>0, <5>1, PutType
      <4> HIDE DEF w, m
      <4> QED BY <2>3, <4>1, <4>2, <4>3, <4>4
    <3>3. CASE ~(z.offset >= Units[z.file])
      <4> DEFINE end == IF z.offset + z.chunk < Units[z.file] THEN z.offset + z.chunk
                        ELSE Units[z.file]
                 l == UnitsOf(z.file)
                 units == SubSeq(l, z.offset + 1, end)
                 last == end = Units[z.file]
                 m == Put(units, last)
                 w == [z EXCEPT !.credits = z.credits - 1, !.pending = FALSE, !.due = FALSE,
                                !.offset = end]
      <4>1. t = SendIrdaBeamInformation(w, m)
        BY <1>0, <2>1, <2>3, <3>3 DEF SendChunk
      <4>2. Units[z.file] \in Nat /\ l \in Seq(Parts) /\ Len(l) = Units[z.file]
        BY <2>3, UnitsType
      <4>3. end \in Nat /\ end <= Units[z.file]
        BY <2>3, <3>3, <4>2
      <4> HIDE DEF end, l
      <4>4. units \in Seq(Parts) /\ last \in BOOLEAN
        BY <2>3, <4>2, <4>3
      <4> HIDE DEF units, last
      <4>5. m \in Messages
        BY <4>4, PutType
      <4>6. w \in Senders
        BY <1>0, <2>2, <2>3, <4>3, Zenon DEF Senders
      <4>7. w.state = z.state /\ w.file = x.file /\ w.pending = FALSE
        BY <2>2, <2>3 DEF Senders
      <4> HIDE DEF w, m
      <4> QED BY <2>3, <4>1, <4>5, <4>6, <4>7
    <3> QED BY <3>1, <3>2, <3>3
  <2>5. PICK w \in Senders, m \in Messages :
            /\ t = SendIrdaBeamInformation(w, m) /\ w.file = x.file
            /\ w.state \in {"ObexPutBody", "ObexDisconnect"}
            /\ w.pending => w.credits > 0
    BY <2>4
  <2>6. t \in Senders /\ t.file = w.file /\ SamePlace(w, t)
    BY <2>5, SendsInformation DEF Asks
  <2> QED BY <2>5, <2>6 DEF t, Credited, SamePlace
<1> QED BY <1>1, <1>2, <1>3

\* A request in another state of the link leaves the credits as they are.
LEMMA RequestCredited ==
    ASSUME NEW x \in Senders, x.file \in Files, NEW st \in LinkStates, NEW m \in Messages,
           x.pending => x.credits > 0 /\ st = "ObexDisconnect"
    PROVE  Request(x, st, m) \in Senders /\ Credited(Request(x, st, m))
<1> DEFINE z == [x EXCEPT !.state = st]
           t == SendIrdaBeamInformation(z, m)
<1>1. Request(x, st, m) = t
  BY DEF Request
<1>2. st \in SendStates
  BY DEF LinkStates, SendStates
<1>3. z \in Senders
  BY <1>2, Zenon DEF Senders
<1>4. z.state = st /\ z.file = x.file /\ z.pending = x.pending /\ z.credits = x.credits
  BY DEF Senders
<1> HIDE DEF z
<1>5. t \in Senders /\ SamePlace(z, t)
  BY <1>3, SendsInformation DEF Asks
<1> QED BY <1>1, <1>4, <1>5 DEF SamePlace, Credited

\* HandleIrdaBeamSenderPayload never leaves a chunk waiting without a credit.
LEMMA PayloadCredited ==
    ASSUME NEW a \in Senders, Credited(a), a.state # "Idle", NEW m \in Messages, Credits(m)
    PROVE  /\ HandleIrdaBeamSenderPayload(a, m) \in Senders
           /\ Credited(HandleIrdaBeamSenderPayload(a, m))
<1> DEFINE c == AddIrdaBeamTinyTpCredit(a, m)
           t == HandleIrdaBeamSenderPayload(a, m)
           Good == t \in Senders /\ Credited(t)
<1>1. /\ c \in Senders /\ c.state = a.state /\ c.file = a.file /\ c.pending = a.pending
      /\ c.credits >= a.credits /\ (m.obex /\ m.kind # "LmpConfirm" => c.credits > 0)
  BY AddsCredit
<1>2. Credited(c) /\ c.file \in Files
  <2>1. a.credits \in Nat /\ c.credits \in Nat
    BY <1>1 DEF Senders
  <2> HIDE DEF c
  <2> QED BY <1>1, <2>1 DEF Credited
<1>3. m.kind \in {"ObexContinue", "ObexOk"} => c.credits > 0
  BY <1>1 DEF Credits
<1>4. CASE c.state = "IasConnect" /\ m.kind = "LmpConfirm" /\ ~m.obex
  <2>1. t = Request(c, "IasQuery", Message("IasQuery"))
    BY <1>4 DEF HandleIrdaBeamSenderPayload
  <2>2. "IasQuery" \in LinkStates /\ Message("IasQuery") \in Messages /\ ~c.pending
    BY <1>2, <1>4, MessageType DEF LinkStates, MessageKinds, Credited
  <2> HIDE DEF c, t
  <2> QED BY <1>1, <1>2, <2>1, <2>2, RequestCredited DEF t
<1>5. CASE c.state = "IasQuery" /\ m.kind = "IasLsap"
  <2>1. t = Request(c, "ObexLmpConnect", ToObex("LmpConnect"))
    BY <1>5 DEF HandleIrdaBeamSenderPayload
  <2>2. "ObexLmpConnect" \in LinkStates /\ ToObex("LmpConnect") \in Messages /\ ~c.pending
    BY <1>2, <1>5, MessageType DEF LinkStates, MessageKinds, Credited
  <2> HIDE DEF c, t
  <2> QED BY <1>1, <1>2, <2>1, <2>2, RequestCredited DEF t
<1>6. CASE c.state = "ObexLmpConnect" /\ m.kind = "LmpConfirm"
  <2> DEFINE d == [c EXCEPT !.credits = IF m.obex THEN Grant ELSE 0]
  <2>1. t = Request(d, "ObexConnect", ToObex("ObexConnect"))
    BY <1>6 DEF HandleIrdaBeamSenderPayload
  <2>2. "ObexConnect" \in LinkStates /\ ToObex("ObexConnect") \in Messages /\ ~c.pending
    BY <1>2, <1>6, MessageType DEF LinkStates, MessageKinds, Credited
  <2>3. (IF m.obex THEN Grant ELSE 0) \in Nat
    BY BeamAssumption
  <2> HIDE DEF c
  <2>4. d \in Senders
    BY <1>1, <2>3, Zenon DEF Senders
  <2>5. d.file = c.file /\ d.pending = c.pending
    BY <1>1 DEF Senders
  <2> HIDE DEF d, t
  <2> QED BY <1>2, <2>1, <2>2, <2>4, <2>5, RequestCredited DEF t
<1>7. CASE c.state = "ObexConnect" /\ m.kind = "ObexOk"
  <2>1. t = Request(c, "ObexPutMeta", ToObex("PutMeta"))
    BY <1>7 DEF HandleIrdaBeamSenderPayload
  <2>2. "ObexPutMeta" \in LinkStates /\ ToObex("PutMeta") \in Messages /\ ~c.pending
    BY <1>2, <1>7, MessageType DEF LinkStates, MessageKinds, Credited
  <2> HIDE DEF c, t
  <2> QED BY <1>1, <1>2, <2>1, <2>2, RequestCredited DEF t
<1>8. CASE c.state = "ObexPutMeta" /\ m.kind \in {"ObexContinue", "ObexOk"}
  <2> DEFINE d == [c EXCEPT !.state = "ObexPutBody"]
  <2>1. t = SendIrdaBeamNextBodyChunk(d)
    BY <1>8 DEF HandleIrdaBeamSenderPayload
  <2>2. "ObexPutBody" \in SendStates
    BY DEF SendStates
  <2> HIDE DEF c
  <2>3. d \in Senders
    BY <1>1, <2>2, Zenon DEF Senders
  <2>4. d.state = "ObexPutBody" /\ d.file = c.file /\ d.credits = c.credits
    BY <1>1 DEF Senders
  <2> HIDE DEF d, t
  <2> QED BY <1>2, <1>3, <1>8, <2>1, <2>3, <2>4, ChunkCredited DEF t
<1>9. CASE c.state = "ObexPutBody" /\ m.kind = "ObexContinue"
  <2>1. t = SendIrdaBeamNextBodyChunk(c)
    BY <1>9 DEF HandleIrdaBeamSenderPayload
  <2> HIDE DEF c, t
  <2> QED BY <1>1, <1>2, <1>3, <1>9, <2>1, ChunkCredited DEF t
<1>10. CASE c.state = "ObexPutBody" /\ m.kind = "ObexOk"
  <2>1. t = Request(c, "ObexDisconnect", ToObex("ObexDisconnect"))
    BY <1>10 DEF HandleIrdaBeamSenderPayload
  <2>2. "ObexDisconnect" \in LinkStates /\ ToObex("ObexDisconnect") \in Messages
    BY MessageType DEF LinkStates, MessageKinds
  <2> HIDE DEF c, t
  <2> QED BY <1>1, <1>2, <1>3, <1>10, <2>1, <2>2, RequestCredited DEF t
<1>11. CASE c.state = "ObexDisconnect" /\ m.kind = "ObexOk"
  <2>1. t = SendDisc(c)
    BY <1>11 DEF HandleIrdaBeamSenderPayload
  <2> HIDE DEF c
  <2> DEFINE f == Control("Disc")
             line == Write(c, f).serial
  <2>2. f \in Frames
    BY ControlType DEF FrameKinds
  <2>3. t = SenderReset(line)
    BY <2>1 DEF SendDisc
  <2> HIDE DEF f, t
  <2>4. line \in Seq(Frames)
    BY <1>1, <2>2, WritesFrame DEF SameTurn, Senders
  <2> HIDE DEF line
  <2>5. SenderReset(line) \in Senders /\ SenderReset(line).state = "Idle"
        /\ SenderReset(line).pending = FALSE
    BY <2>4, ResetSender
  <2> QED BY <2>3, <2>5 DEF t, Credited
<1>12. CASE /\ ~(c.state = "IasConnect" /\ m.kind = "LmpConfirm" /\ ~m.obex)
            /\ ~(c.state = "IasQuery" /\ m.kind = "IasLsap")
            /\ ~(c.state = "ObexLmpConnect" /\ m.kind = "LmpConfirm")
            /\ ~(c.state = "ObexConnect" /\ m.kind = "ObexOk")
            /\ ~(c.state = "ObexPutMeta" /\ m.kind \in {"ObexContinue", "ObexOk"})
            /\ ~(c.state = "ObexPutBody" /\ m.kind = "ObexContinue")
            /\ ~(c.state = "ObexPutBody" /\ m.kind = "ObexOk")
            /\ ~(c.state = "ObexDisconnect" /\ m.kind = "ObexOk")
  <2>1. t = c
    BY <1>12 DEF HandleIrdaBeamSenderPayload
  <2> HIDE DEF c, t
  <2> QED BY <1>1, <1>2, <2>1 DEF t
<1> HIDE DEF c, t
<1> QED BY <1>4, <1>5, <1>6, <1>7, <1>8, <1>9, <1>10, <1>11, <1>12 DEF t

\* HandleIrdaBeamSenderFrame never leaves a chunk waiting without a credit.
LEMMA AnswerCredited ==
    ASSUME NEW x \in Senders, Credited(x), NEW f \in Frames, Credits(f.data)
    PROVE  HandleIrdaBeamSenderFrame(x, f) \in Senders /\ Credited(HandleIrdaBeamSenderFrame(x, f))
<1> DEFINE t == HandleIrdaBeamSenderFrame(x, f)
           b == Acknowledged(x, f.nr)
           Good == t \in Senders /\ Credited(t)
<1>1. SameTurn(x, b)
  BY Acknowledges
<1>2. b \in Senders /\ Credited(b) /\ b.state = x.state /\ b.receiveNext = x.receiveNext
  BY <1>1, PlaceCredited DEF SameTurn, SamePlace
<1>3. CASE x.state = "Idle"
  <2>1. t = x
    BY <1>3 DEF HandleIrdaBeamSenderFrame
  <2> HIDE DEF t
  <2> QED BY <2>1 DEF t
<1>4. CASE x.state = "Discover" /\ f.kind = "XidResponse"
  <2> DEFINE e == Control("Snrm")
             w == Write(x, e)
  <2>1. t = [w EXCEPT !.state = "Snrm"]
    BY <1>4 DEF HandleIrdaBeamSenderFrame
  <2>2. e \in Frames /\ "Snrm" \in SendStates
    BY ControlType DEF FrameKinds, SendStates
  <2> HIDE DEF e, t
  <2>3. SameTurn(x, w)
    BY <2>2, WritesFrame
  <2> HIDE DEF w
  <2>4. w \in Senders /\ w.file = x.file /\ w.pending = x.pending
    BY <2>3 DEF SameTurn, SamePlace
  <2>5. t \in Senders
    BY <2>1, <2>2, <2>4, Zenon DEF Senders
  <2>6. t.state = "Snrm" /\ t.file = x.file /\ t.pending = x.pending
    BY <2>1, <2>4 DEF Senders
  <2> QED BY <1>4, <2>5, <2>6 DEF t, Credited
<1>5. CASE x.state = "Snrm" /\ f.kind = "Ua"
  <2> DEFINE w == [x EXCEPT !.chunk = MaxChunk, !.paced = FALSE, !.due = FALSE,
                            !.transmitNext = 0, !.receiveNext = 0]
  <2>1. t = Request(w, "IasConnect", Message("LmpConnect"))
    BY <1>5 DEF HandleIrdaBeamSenderFrame
  <2>2. MaxChunk \in Nat /\ FALSE \in BOOLEAN /\ 0 \in Nat
    BY BeamAssumption
  <2>3. w \in Senders
    BY <2>2, Zenon DEF Senders
  <2>4. w.file = x.file /\ w.pending = x.pending
    BY DEF Senders
  <2>5. "IasConnect" \in LinkStates /\ Message("LmpConnect") \in Messages
        /\ x.file \in Files /\ ~x.pending
    BY <1>5, MessageType DEF LinkStates, MessageKinds, Credited
  <2> HIDE DEF w, t
  <2> QED BY <2>1, <2>3, <2>4, <2>5, RequestCredited DEF t
<1>6. CASE x.state # "Idle" /\ f.kind = "RR"
  <2>1. t = HandleReceiveReady(x, f)
    BY <1>6 DEF HandleIrdaBeamSenderFrame
  <2>2. t = b \/ t = RetransmitLast(x)
    BY <2>1 DEF HandleReceiveReady
  <2>3. SameTurn(x, RetransmitLast(x))
    BY Retransmits
  <2>4. RetransmitLast(x) \in Senders /\ Credited(RetransmitLast(x))
    BY <2>3, PlaceCredited DEF SameTurn, SamePlace
  <2> HIDE DEF t, b
  <2> QED BY <1>2, <2>2, <2>4 DEF t
<1>7. CASE x.state # "Idle" /\ f.kind = "I" /\ f.ns # x.receiveNext
  <2> DEFINE g == Frame("RR", 0, b.receiveNext, Message("none"))
  <2>1. t = Write(b, g)
    <3>1. t = HandleInformation(x, f)
      BY <1>7 DEF HandleIrdaBeamSenderFrame
    <3> QED BY <1>7, <3>1 DEF HandleInformation, SendIrdaBeamReceiveReady
  <2> HIDE DEF b, t
  <2>2. g \in Frames
    <3>1. b.receiveNext \in Nat /\ Message("none") \in Messages /\ "RR" \in FrameKinds
      BY <1>2, MessageType DEF Senders, MessageKinds, FrameKinds
    <3> QED BY <3>1, FrameType
  <2> HIDE DEF g
  <2>3. SameTurn(b, Write(b, g))
    BY <1>2, <2>2, WritesFrame
  <2> QED BY <1>2, <2>1, <2>3, PlaceCredited DEF t, SameTurn, SamePlace
<1>8. CASE x.state # "Idle" /\ f.kind = "I" /\ f.ns = x.receiveNext
  <2> DEFINE a == [b EXCEPT !.receiveNext = NextSeq(b.receiveNext)]
  <2>1. t = HandleIrdaBeamSenderPayload(a, f.data)
    <3>1. t = HandleInformation(x, f)
      BY <1>8 DEF HandleIrdaBeamSenderFrame
    <3> QED BY <1>8, <3>1 DEF HandleInformation
  <2> HIDE DEF b, t
  <2>2. NextSeq(b.receiveNext) \in Nat
    BY <1>2, NextNat DEF Senders
  <2>3. a \in Senders
    BY <1>2, <2>2, Zenon DEF Senders
  <2>4. a.state = b.state /\ a.file = b.file /\ a.pending = b.pending /\ a.credits = b.credits
    BY <1>2 DEF Senders
  <2> HIDE DEF a
  <2>5. Credited(a) /\ a.state # "Idle"
    BY <1>2, <1>8, <2>4, PlaceCredited
  <2>6. f.data \in Messages
    BY DEF Frames
  <2> QED BY <2>1, <2>3, <2>5, <2>6, PayloadCredited DEF t
<1>9. CASE /\ x.state # "Idle" /\ f.kind \notin {"I", "RR"}
           /\ ~(x.state = "Discover" /\ f.kind = "XidResponse")
           /\ ~(x.state = "Snrm" /\ f.kind = "Ua")
  <2>1. t = x
    BY <1>9 DEF HandleIrdaBeamSenderFrame
  <2> HIDE DEF t
  <2> QED BY <2>1 DEF t
<1> HIDE DEF t
<1> QED BY <1>3, <1>4, <1>5, <1>6, <1>7, <1>8, <1>9 DEF t

\* It holds at power on.
LEMMA InitCredits == Init => CreditInv
<1>1. IInv => TypeOK
  BY DEF IInv
<1>2. ASSUME Init PROVE CreditInv
  <2>1. TypeOK
    BY <1>1, <1>2, InitInv
  <2>2. /\ s.state = "Idle" /\ s.pending = FALSE /\ toSender = <<>>
        /\ r.slot = None /\ r.queue = <<>> /\ r.last = None
    BY <1>2 DEF Init, SenderReset, ReceiverAtStart
  <2>3. Line = <<>>
    BY <2>1, <2>2, NothingOn DEF Line, TypeOK
  <2>4. On(<<>>) = {}
    BY DEF On
  <2> QED BY <2>1, <2>2, <2>3, <2>4 DEF CreditInv, Credited, Crediting
<1> QED BY <1>2

\* Every step keeps it, an early discovery timer as well.
LEMMA NextCredits ==
    ASSUME CreditInv, [Next]_vars
    PROVE  CreditInv'
<1>0. /\ s \in Senders /\ r \in Receivers /\ toSender \in Seq(Frames) /\ Credited(s)
      /\ started \in Seq(Files) /\ before \in Nat /\ past \in Pasts
      /\ outcome \in {"none", "complete", "aborted"} /\ faults \in Nat
      /\ Crediting(r, toSender \o Answers(r)) /\ s.serial \in Seq(Frames)
  BY DEF CreditInv, TypeOK, Line, Senders
<1> DEFINE Kept == /\ s' \in Senders /\ Credited(s')
                   /\ r' \in Receivers /\ toSender' \in Seq(Frames)
                   /\ Crediting(r', toSender' \o Answers(r'))
           Counted == /\ started' \in Seq(Files) /\ before' \in Nat /\ past' \in Pasts
                      /\ outcome' \in {"none", "complete", "aborted"} /\ faults' \in Nat
<1>1. Counted
  <2>1. CASE UNCHANGED vars
    BY <1>0, <2>1 DEF vars
  <2>2. CASE UserSends
    <3>1. PICK file \in Files : started' = Append(started, file)
      BY <2>2 DEF UserSends
    <3>2. started' \in Seq(Files)
      BY <1>0, <3>1, AppendProperties
    <3>3. before' = Len(r.saved) /\ Len(r.saved) \in Nat
      BY <1>0, <2>2 DEF UserSends, Receivers
    <3> QED BY <1>0, <2>2, <3>2, <3>3 DEF UserSends, Pasts
  <2>3. CASE SenderHears \/ DiscoveryTimer \/ DiscoveryTimerEarly \/ BodyTimer
    BY <1>0, <2>3 DEF SenderHears, DiscoveryTimer, DiscoveryTimerEarly, BodyTimer, SenderMoves,
       Pasts
  <2>4. CASE RetransmitTimer \/ RetransmitTimerEarly \/ GiveUpTimer
    BY <1>0, <2>4 DEF RetransmitTimer, RetransmitTimerEarly, GiveUpTimer, SenderMoves
  <2>5. CASE ReceiverHears \/ SendPendingIrdaResponse \/ ResponseTakenUp \/ LineLoses
    BY <1>0, <2>5 DEF ReceiverHears, SendPendingIrdaResponse, ResponseTakenUp, LineLoses
  <2> QED BY <2>1, <2>2, <2>3, <2>4, <2>5 DEF Next
<1> HIDE DEF Counted
<1> HIDE DEF Kept
<1>2. Line' = toSender' \o Answers(r')
  BY DEF Line, Answers
<1>3. Credited(s)' = Credited(s') /\ Crediting(r, Line)' = Crediting(r', Line')
  BY DEF Credited, Crediting, On, Credits
<1>4. SUFFICES Kept
  BY <1>1, <1>2, <1>3 DEF Kept, Counted, CreditInv, TypeOK
<1> USE DEF Kept
<1>5. ASSUME r' = r, toSender' = toSender, s' \in Senders, Credited(s') PROVE Kept
  BY <1>0, <1>5
<1>6. CASE UNCHANGED vars
  BY <1>0, <1>6 DEF vars
<1>7. CASE UserSends
  <2>1. PICK file \in Files : s' = StartIrdaBeamSend(s, file)
    BY <1>7 DEF UserSends
  <2> DEFINE e == SenderReset(s.serial)
             z == [e EXCEPT !.file = file, !.state = "Discover"]
  <2>2. e \in Senders /\ e.pending = FALSE
    BY <1>0, ResetSender
  <2>3. s' = SendIrdaBeamDiscovery(z)
    BY <2>1 DEF StartIrdaBeamSend
  <2> HIDE DEF e
  <2>4. file \in Files \union {None} /\ "Discover" \in SendStates
    BY DEF SendStates
  <2>5. z \in Senders
    BY <2>2, <2>4, Zenon DEF Senders
  <2>6. z.state = "Discover" /\ z.file = file /\ z.pending = FALSE
    BY <2>2 DEF Senders
  <2> HIDE DEF z
  <2>7. SameTurn(z, s')
    BY <2>3, <2>5, SendsDiscovery
  <2>8. s' \in Senders /\ Credited(s')
    BY <2>6, <2>7 DEF SameTurn, SamePlace, Credited
  <2> QED BY <1>5, <1>7, <2>8 DEF UserSends
<1>8. CASE SenderHears
  <2> DEFINE f == Head(toSender)
  <2>1. toSender # <<>> /\ toSender' = Tail(toSender) /\ r' = r
        /\ s' = HandleIrdaBeamSenderFrame(s, f)
    BY <1>8 DEF SenderHears
  <2>2. f \in On(toSender) /\ f \in Frames /\ On(Tail(toSender)) \subseteq On(toSender)
        /\ Tail(toSender) \in Seq(Frames)
    BY <1>0, <2>1, OnTail
  <2>3. /\ On(toSender \o Answers(r)) = On(toSender) \union On(Answers(r))
        /\ On(Tail(toSender) \o Answers(r)) = On(Tail(toSender)) \union On(Answers(r))
    BY <1>0, <2>2, OnJoin, AnswersType
  <2> HIDE DEF f
  <2>4. Credits(f.data) /\ Crediting(r, Tail(toSender) \o Answers(r))
    BY <1>0, <2>2, <2>3 DEF Crediting
  <2>5. s' \in Senders /\ Credited(s')
    BY <1>0, <2>1, <2>2, <2>4, AnswerCredited
  <2> QED BY <1>0, <2>1, <2>2, <2>4, <2>5
<1>9. CASE DiscoveryTimer \/ DiscoveryTimerEarly
  <2>1. s' = SendIrdaBeamDiscovery(s) /\ r' = r /\ toSender' = toSender
    BY <1>9 DEF DiscoveryTimer, DiscoveryTimerEarly
  <2>2. SameTurn(s, s')
    BY <1>0, <2>1, SendsDiscovery
  <2>3. s' \in Senders /\ Credited(s')
    BY <1>0, <2>2, PlaceCredited DEF SameTurn, SamePlace
  <2> QED BY <1>5, <2>1, <2>3
<1>10. CASE BodyTimer
  <2>1. s.pending /\ s' = SendIrdaBeamNextBodyChunk(s) /\ r' = r /\ toSender' = toSender
    BY <1>10 DEF BodyTimer, BodyWaits, SenderMoves
  <2>2. /\ s.file \in Files /\ s.credits > 0 /\ s.state \in {"ObexPutBody", "ObexDisconnect"}
    BY <1>0, <2>1 DEF Credited
  <2>3. s' \in Senders /\ Credited(s')
    BY <1>0, <2>1, <2>2, ChunkCredited
  <2> QED BY <1>5, <2>1, <2>3
<1>11. CASE RetransmitTimer \/ RetransmitTimerEarly
  <2>1. s' = Timeout(s) /\ r' = r /\ toSender' = toSender
    BY <1>11 DEF RetransmitTimer, RetransmitTimerEarly, SenderMoves
  <2>2. s' \in Senders /\ s'.state = s.state /\ s'.file = s.file
        /\ s'.pending = s.pending /\ s'.credits = s.credits
    BY <1>0, <2>1, TimesOut
  <2> QED BY <1>0, <1>5, <2>1, <2>2, PlaceCredited
<1>12. CASE GiveUpTimer
  <2>1. s' = SenderReset(s.serial) /\ r' = r /\ toSender' = toSender
    BY <1>12 DEF GiveUpTimer, SenderMoves
  <2>2. s' \in Senders /\ s'.state = "Idle" /\ s'.pending = FALSE
    BY <1>0, <2>1, ResetSender
  <2>3. Credited(s')
    BY <2>2 DEF Credited
  <2> QED BY <1>5, <2>1, <2>2, <2>3
<1>13. CASE ReceiverHears
  <2> DEFINE f == Head(s.serial)
             u == HandleIrdaFrame(r, f)
             line == LineAfter(toSender, f)
             t == [s EXCEPT !.serial = Tail(s.serial)]
  <2>1. /\ s.serial # <<>> /\ r' = TakeUp(u) /\ toSender' = line /\ s' = t
    BY <1>13 DEF ReceiverHears, LineAfter
  <2>2. SameSender(s, t)
    BY <1>0, <2>1, TakesFrame
  <2>3. t \in Senders /\ Credited(t)
    <3> HIDE DEF t
    <3> QED BY <1>0, <2>2, PlaceCredited DEF SameSender, SamePlace
  <2>4. f \in Frames
    BY <1>0, <2>1, OnTail
  <2>5. line \in Seq(Frames) /\ Crediting(r, line \o Answers(r))
    <3>1. CASE f.kind = "Disc"
      <4> DEFINE e == Control("Ua")
      <4>1. line = Append(toSender, e)
        BY <3>1 DEF LineAfter
      <4>2. e \in Frames /\ e.data = Message("none") /\ Message("none").kind = "none"
        BY ControlType, MessageType DEF FrameKinds, MessageKinds, Control, Frame
      <4> HIDE DEF e, f
      <4>3. Append(toSender, e) \in Seq(Frames) /\ On(Append(toSender, e)) = On(toSender) \union {e}
        BY <1>0, <4>2, OnAppend
      <4>4. /\ On(toSender \o Answers(r)) = On(toSender) \union On(Answers(r))
            /\ On(Append(toSender, e) \o Answers(r))
                 = On(Append(toSender, e)) \union On(Answers(r))
        BY <1>0, <4>3, OnJoin, AnswersType
      <4>5. Crediting(r, Append(toSender, e) \o Answers(r))
        BY <1>0, <4>2, <4>3, <4>4 DEF Crediting, Credits
      <4> QED BY <4>1, <4>3, <4>5
    <3>2. CASE f.kind # "Disc"
      BY <1>0, <3>2 DEF LineAfter
    <3> QED BY <3>1, <3>2
  <2> HIDE DEF f, line, t
  <2>6. u \in Receivers /\ Crediting(u, line \o Answers(u))
    BY <1>0, <2>4, <2>5, FrameCredits
  <2> HIDE DEF u
  <2>7. SameLink(u, TakeUp(u)) /\ Answers(TakeUp(u)) = Answers(u)
    BY <2>6, TakesUp
  <2>8. TakeUp(u) \in Receivers /\ Crediting(TakeUp(u), line \o Answers(TakeUp(u)))
    BY <2>6, <2>7 DEF SameLink, Crediting
  <2> QED BY <2>1, <2>3, <2>5, <2>8
<1>14. CASE SendPendingIrdaResponse \/ ResponseTakenUp
  <2> DEFINE u == TakeUp(r)
  <2>0. s' = s
    BY <1>14 DEF SendPendingIrdaResponse, ResponseTakenUp
  <2>1. SameLink(r, u) /\ Answers(u) = Answers(r) /\ u \in Receivers
    BY <1>0, TakesUp DEF SameLink
  <2>2. Crediting(u, toSender \o Answers(u))
    BY <1>0, <2>1 DEF SameLink, Crediting
  <2>3. CASE ResponseTakenUp
    <3>1. r' = u /\ toSender' = toSender
      BY <2>3 DEF ResponseTakenUp
    <3> HIDE DEF u
    <3> QED BY <1>0, <2>0, <2>1, <2>2, <3>1
  <2>4. CASE SendPendingIrdaResponse
    <3>1. /\ u.slot # None /\ toSender' = Append(toSender, u.slot)
          /\ r' = [u EXCEPT !.slot = None]
      BY <2>4 DEF SendPendingIrdaResponse
    <3> HIDE DEF u
    <3>2. /\ SameLink(u, [u EXCEPT !.slot = None])
          /\ Append(toSender, u.slot) \in Seq(Frames)
          /\ Append(toSender, u.slot) \o Answers([u EXCEPT !.slot = None]) = toSender \o Answers(u)
      BY <1>0, <2>1, <3>1, AnswerWritten
    <3>3. SameLink(u, r') /\ toSender' \in Seq(Frames)
          /\ toSender' \o Answers(r') = toSender \o Answers(u)
      BY <3>1, <3>2
    <3>4. r' \in Receivers /\ Crediting(r', toSender' \o Answers(r'))
      BY <2>2, <3>3 DEF SameLink, Crediting
    <3> QED BY <1>0, <2>0, <3>3, <3>4
  <2> QED BY <1>14, <2>3, <2>4
<1>15. CASE LineLoses
  <2>0. r' = r
    BY <1>15 DEF LineLoses
  <2>1. CASE s.serial # <<>> /\ s' = [s EXCEPT !.serial = Tail(s.serial)] /\ toSender' = toSender
    <3> DEFINE t == [s EXCEPT !.serial = Tail(s.serial)]
    <3>1. SameSender(s, t) /\ s' = t
      BY <1>0, <2>1, TakesFrame
    <3> HIDE DEF t
    <3>2. s' \in Senders /\ Credited(s')
      BY <1>0, <3>1, PlaceCredited DEF SameSender, SamePlace
    <3> QED BY <1>5, <2>0, <2>1, <3>2
  <2>2. CASE toSender # <<>> /\ toSender' = Tail(toSender) /\ s' = s
    <3>1. On(Tail(toSender)) \subseteq On(toSender) /\ Tail(toSender) \in Seq(Frames)
      BY <1>0, <2>2, OnTail
    <3>2. /\ On(toSender \o Answers(r)) = On(toSender) \union On(Answers(r))
          /\ On(Tail(toSender) \o Answers(r)) = On(Tail(toSender)) \union On(Answers(r))
      BY <1>0, <3>1, OnJoin, AnswersType
    <3>3. Crediting(r, Tail(toSender) \o Answers(r))
      BY <1>0, <3>1, <3>2 DEF Crediting
    <3> QED BY <1>0, <2>0, <2>2, <3>1, <3>3
  <2> QED BY <1>15, <2>1, <2>2 DEF LineLoses
<1> QED BY <1>6, <1>7, <1>8, <1>9, <1>10, <1>11, <1>12, <1>13, <1>14, <1>15 DEF Next

----------------------------------------------------------------------------
(* The theorems *)

\* No window is busy for so long that discovery goes on over frames under way.
TimelyDiscovery == [][~DiscoveryTimerEarly]_vars

\* The invariant holds as long as discovery is timely.
LEMMA Inductive == Spec /\ TimelyDiscovery => []IInv
<1>1. IInv /\ [Next]_vars /\ [~DiscoveryTimerEarly]_vars => IInv'
  BY NextInv
<1> QED BY <1>1, InitInv, PTL DEF Spec, TimelyDiscovery

\* That of the credits always holds.
LEMMA InductiveCredits == Spec => []CreditInv
<1>1. CreditInv /\ [Next]_vars => CreditInv'
  BY NextCredits
<1> QED BY <1>1, InitCredits, PTL DEF Spec

\* Type correctness: whatever is lost, repeated, early or mixed, numbers stay numbers and
\* lines of frames.
THEOREM TypeCorrect == Spec => []TypeOK
<1>1. CreditInv => TypeOK
  BY DEF CreditInv
<1> QED BY <1>1, InductiveCredits, PTL

\* A body chunk never waits for a credit (ServiceIrdaBeamSender), not even when answers of
\* two links are mixed.
THEOREM NeverStarves == Spec => []NeverStarved
<1>1. CreditInv => NeverStarved
  BY DEF CreditInv, Credited, NeverStarved
<1> QED BY <1>1, InductiveCredits, PTL

\* Frames of two kinds are those of the one and those of the other.
LEMMA CountBoth ==
    ASSUME NEW line \in Seq(Frames)
    PROVE  Count(line, Kind({"I", "RR"})) = Count(line, Kind({"I"})) + Count(line, Kind({"RR"}))
<1> DEFINE A == {k \in DOMAIN line : line[k] \in Kind({"I"})}
           B == {k \in DOMAIN line : line[k] \in Kind({"RR"})}
           C == {k \in DOMAIN line : line[k] \in Kind({"I", "RR"})}
<1>1. C = A \union B /\ A \intersect B = {}
  BY DEF Kind
<1>2. IsFiniteSet(A) /\ IsFiniteSet(B)
  BY CountNat
<1>3. Cardinality(A) \in Nat /\ Cardinality(B) \in Nat
  BY <1>2, FS_CardinalityType
<1>4. Count(line, Kind({"I", "RR"})) = Cardinality(C) /\ Count(line, Kind({"I"})) = Cardinality(A)
      /\ Count(line, Kind({"RR"})) = Cardinality(B)
  BY DEF Count
<1> HIDE DEF A, B, C
<1>5. Cardinality(C) = Cardinality(A) + Cardinality(B) - Cardinality(A \intersect B)
  BY <1>1, <1>2, FS_Union
<1>6. Cardinality(A \intersect B) = 0
  BY <1>1, FS_EmptySet
<1> QED BY <1>3, <1>4, <1>5, <1>6

\* The frames that FewFrames counts are the information and supervisory ones.
LEMMA NumberedCount ==
    ASSUME NEW line \in Seq(Frames)
    PROVE  Numbered(line) = Count(line, Kind({"I", "RR"}))
<1>1. \A k \in DOMAIN line : line[k] \in Frames
  OBVIOUS
<1>2. {k \in DOMAIN line : line[k].kind \in {"I", "RR"}}
      = {k \in DOMAIN line : line[k] \in Kind({"I", "RR"})}
  BY <1>1 DEF Kind
<1> QED BY <1>2 DEF Numbered, Count

\* What is under way is no more than what is still paid for.
LEMMA LoadCovers ==
    ASSUME IInv
    PROVE  Numbered(s.serial) + Numbered(toSender) + Numbered(r.queue) <= LoadOf(s, r, Line)
<1> DEFINE K == Kind({"I", "RR"})
           A == Count(s.serial, Kind({"I"}))
           B == Count(s.serial, Kind({"RR"}))
           C == Count(Line, K)
           T == Count(toSender, K)
           Q == Count(r.queue, K)
           S == Count(<<r.slot>>, K)
           p == IF s.pending THEN 1 ELSE 0
           w == IF Waiting(s, r) THEN 1 ELSE 0
<1>1. s.serial \in Seq(Frames) /\ r.queue \in Seq(Frames) /\ toSender \in Seq(Frames)
      /\ Answers(r) \in Seq(Frames)
  BY Here, AnswersType DEF Senders, Receivers
<1>2. Numbered(s.serial) = A + B /\ Numbered(toSender) = T /\ Numbered(r.queue) = Q
  BY <1>1, NumberedCount, CountBoth
<1>3. C = T + Count(Answers(r), K)
  <2> HIDE DEF K
  <2> QED BY <1>1, CountJoin DEF Line
<1>4. Count(Answers(r), K) >= Q
  <2>1. CASE r.slot = None
    <3>1. Answers(r) = r.queue
      BY <2>1, Here, AnswersType
    <3>2. Q \in Nat
      BY <1>1, WeightNat
    <3> QED BY <3>1, <3>2
  <2>2. CASE r.slot # None
    <3>1. Answers(r) = <<r.slot>> \o r.queue /\ r.slot \in Frames
      BY <2>2, Here, AnswersType
    <3>2. <<r.slot>> \in Seq(Frames)
      BY <3>1
    <3>3. Q \in Nat /\ S \in Nat
      BY <1>1, <3>2, WeightNat
    <3>4. Count(Answers(r), K) = S + Q
      <4> DEFINE h == <<r.slot>>
      <4>1. h \in Seq(Frames) /\ r.queue \in Seq(Frames) /\ Answers(r) = h \o r.queue
        BY <1>1, <3>1, <3>2
      <4>2. S = Count(h, K)
        OBVIOUS
      <4> HIDE DEF K, h, S
      <4>3. Count(h \o r.queue, K) = Count(h, K) + Count(r.queue, K)
        BY <4>1, CountJoin
      <4> QED BY <4>1, <4>2, <4>3
    <3> HIDE DEF S, Q, K
    <3> QED BY <3>3, <3>4
  <2> QED BY <2>1, <2>2
<1>5. w <= A
  <2>1. CASE Waiting(s, r)
    <3>1. On(s.serial) \intersect Kind({"I"}) # {}
      <4>1. PICK f : f \in On(s.serial) \intersect Info(r.receiveNext)
        BY <2>1 DEF Waiting
      <4>2. f \in Kind({"I"})
        BY <4>1 DEF Info, Kind
      <4> QED BY <4>1, <4>2
    <3>2. A # 0 /\ A \in Nat
      BY <1>1, <3>1, CountSome, WeightNat
    <3> QED BY <3>2
  <2>2. CASE ~Waiting(s, r)
    <3>1. A \in Nat
      BY <1>1, WeightNat
    <3> QED BY <2>2, <3>1
  <2> QED BY <2>1, <2>2
<1>6. LoadOf(s, r, Line) = 2 * A + B + C + p - w
  BY DEF LoadOf
<1>7. A \in Nat /\ B \in Nat /\ T \in Nat /\ Q \in Nat /\ Count(Answers(r), K) \in Nat
      /\ p \in 0 .. 1 /\ w \in 0 .. 1
  <2>1. A \in Nat /\ B \in Nat
    BY <1>1, WeightNat
  <2>2. T \in Nat /\ Q \in Nat /\ Count(Answers(r), K) \in Nat
    BY <1>1, WeightNat
  <2>3. p \in 0 .. 1 /\ w \in 0 .. 1
    OBVIOUS
  <2> QED BY <2>1, <2>2, <2>3
<1> DEFINE Z == Count(Answers(r), K)
<1>8. C = T + Z /\ Z >= Q /\ Z \in Nat
  BY <1>3, <1>4, <1>7
<1> HIDE DEF A, B, C, T, Q, S, Z, p, w, K
<1> QED BY <1>2, <1>5, <1>6, <1>7, <1>8

\* A repeat does not snowball (HandleIrdaReceiveAck) while discovery is timely; when links
\* are mixed FewFrames says nothing.
THEOREM FramesStayFew == Spec /\ TimelyDiscovery => []FewFrames
<1>1. IInv => FewFrames
  <2> SUFFICES ASSUME IInv PROVE FewFrames
    OBVIOUS
  <2> DEFINE a == Numbered(s.serial) + Numbered(toSender) + Numbered(r.queue)
             l == LoadOf(s, r, Line)
  <2>1. a <= l
    BY LoadCovers
  <2>2. l <= 2 + 2 * faults /\ l \in Int /\ faults \in Nat
    BY Here DEF IInv
  <2>3. a \in Nat
    <3>1. s.serial \in Seq(Frames) /\ r.queue \in Seq(Frames) /\ toSender \in Seq(Frames)
      BY Here DEF Senders, Receivers
    <3>2. Numbered(s.serial) \in Nat /\ Numbered(toSender) \in Nat /\ Numbered(r.queue) \in Nat
      BY <3>1, NumberedCount, WeightNat
    <3> QED BY <3>2
  <2> HIDE DEF l
  <2>4. a <= 2 + 2 * faults
    <3> HIDE DEF a
    <3> QED BY <2>1, <2>2, <2>3
  <2> QED BY <2>4 DEF FewFrames
<1> QED BY <1>1, Inductive, PTL

----------------------------------------------------------------------------
(* The promise *)

FilesOf(y) == [k \in 1 .. Len(y.saved) |-> FileOf(y.saved[k])]
DeliveredOf(x, y, b) == /\ x.file # None
                        /\ \E k \in b + 1 .. Len(y.saved) : FileOf(y.saved[k]) = x.file

\* Each object that is saved tells which file it is.
LEMMA FilesTold ==
    ASSUME NEW x, NEW y \in Receivers, NEW n, NEW b, Tally(x, y, n, b)
    PROVE  /\ FilesOf(y) \in Seq(Files)
           /\ \A k \in 1 .. Len(y.saved) : FileOf(y.saved[k]) \in Files
           /\ \A k \in 1 .. Len(y.saved), f \in Files : FileOf(y.saved[k]) = f <=> Whole(y.saved[k], f)
           /\ \A f \in Files : Cardinality({k \in DOMAIN FilesOf(y) : FilesOf(y)[k] = f}) = SavedTimes(y, f)
<1>1. y.saved \in Seq(Seq(Parts)) /\ DOMAIN y.saved = 1 .. Len(y.saved) /\ Len(y.saved) \in Nat
  BY DEF Receivers
<1>2. ASSUME NEW k \in 1 .. Len(y.saved)
      PROVE  /\ FileOf(y.saved[k]) \in Files
             /\ \A f \in Files : FileOf(y.saved[k]) = f <=> Whole(y.saved[k], f)
  <2>1. PICK g \in Files : Whole(y.saved[k], g)
    BY <1>1, <1>2 DEF Tally
  <2>2. FileOf(y.saved[k]) = g
    BY <2>1, FileOfWhole
  <2>3. ASSUME NEW f \in Files PROVE Whole(y.saved[k], f) <=> f = g
    BY <2>1, WholeOnce
  <2> QED BY <2>2, <2>3
<1>3. FilesOf(y) \in Seq(Files) /\ DOMAIN FilesOf(y) = 1 .. Len(y.saved)
      /\ \A k \in 1 .. Len(y.saved) : FilesOf(y)[k] = FileOf(y.saved[k])
  BY <1>1, <1>2 DEF FilesOf
<1>4. ASSUME NEW f \in Files
      PROVE  Cardinality({k \in DOMAIN FilesOf(y) : FilesOf(y)[k] = f}) = SavedTimes(y, f)
  <2>1. {k \in DOMAIN FilesOf(y) : FilesOf(y)[k] = f} = {k \in DOMAIN y.saved : Whole(y.saved[k], f)}
    BY <1>1, <1>2, <1>3
  <2> QED BY <2>1 DEF SavedTimes
<1> QED BY <1>2, <1>3, <1>4

\* The one being sent has been saved since its start exactly if its object is among those
\* saved since.
LEMMA DeliveredTold ==
    ASSUME NEW x, NEW y \in Receivers, NEW n, NEW b, Tally(x, y, n, b)
    PROVE  DeliveredOf(x, y, b) <=> x.file \in Files /\ HasDelivered(x, y, b)
<1>1. x.file # None <=> x.file \in Files
  BY BeamAssumption DEF Tally
<1>2. b \in Nat /\ Len(y.saved) \in Nat
  BY DEF Tally, Receivers
<1>3. ASSUME NEW k \in b + 1 .. Len(y.saved), x.file \in Files
      PROVE  FileOf(y.saved[k]) = x.file <=> Whole(y.saved[k], x.file)
  <2>1. k \in 1 .. Len(y.saved)
    BY <1>2
  <2> QED BY <1>3, <2>1, FilesTold
<1> QED BY <1>1, <1>3 DEF DeliveredOf, HasDelivered

\* A file that is saved is one more of those told.
LEMMA SavedTold ==
    ASSUME NEW x, NEW t, NEW y \in Receivers, NEW v \in Receivers, NEW n, NEW b,
           Tally(x, y, n, b), t.file = x.file,
           NEW g \in Files, NEW o \in Seq(Parts), Whole(o, g), v.saved = Append(y.saved, o)
    PROVE  /\ FilesOf(v) = Append(FilesOf(y), g)
           /\ DeliveredOf(t, v, b) <=> DeliveredOf(x, y, b) \/ g = x.file
<1>1. y.saved \in Seq(Seq(Parts)) /\ v.saved \in Seq(Seq(Parts))
      /\ b \in Nat /\ b <= Len(y.saved) /\ Len(y.saved) \in Nat
  BY DEF Receivers, Tally
<1>2. /\ Len(v.saved) = Len(y.saved) + 1 /\ v.saved[Len(v.saved)] = o
      /\ \A k \in 1 .. Len(y.saved) : v.saved[k] = y.saved[k]
  BY SavesWhole
<1>3. FileOf(o) = g
  BY FileOfWhole
<1>4. FilesOf(y) \in Seq(Files) /\ Len(FilesOf(y)) = Len(y.saved)
      /\ \A k \in 1 .. Len(y.saved) : FilesOf(y)[k] = FileOf(y.saved[k])
  <2>1. FilesOf(y) \in Seq(Files)
    BY FilesTold
  <2> QED BY <1>1, <2>1 DEF FilesOf
<1>5. FilesOf(v) = Append(FilesOf(y), g)
  <2> DEFINE a == FilesOf(y)
             l == Len(y.saved)
  <2>1. FilesOf(v) = [k \in 1 .. l + 1 |-> FileOf(v.saved[k])]
    BY <1>2 DEF FilesOf
  <2>2. /\ Append(a, g) \in Seq(Files) /\ Len(Append(a, g)) = l + 1
        /\ \A k \in 1 .. l : Append(a, g)[k] = a[k]
        /\ Append(a, g)[l + 1] = g
    BY <1>4, AppendProperties
  <2>3. ASSUME NEW k \in 1 .. l + 1 PROVE Append(a, g)[k] = FileOf(v.saved[k])
    <3>1. CASE k \in 1 .. l
      BY <1>2, <1>4, <2>2, <3>1
    <3>2. CASE k = l + 1
      BY <1>2, <1>3, <2>2, <3>2
    <3>3. k \in 1 .. l \/ k = l + 1
      BY <1>1
    <3> QED BY <3>1, <3>2, <3>3
  <2> HIDE DEF a, l
  <2>4. Append(a, g) = [k \in 1 .. l + 1 |-> FileOf(v.saved[k])]
    <3> DEFINE w == Append(a, g)
    <3>1. w \in Seq(Files) /\ Len(w) = l + 1 /\ \A k \in 1 .. l + 1 : w[k] = FileOf(v.saved[k])
      BY <2>2, <2>3
    <3> HIDE DEF w
    <3>2. w = [k \in 1 .. Len(w) |-> w[k]]
      BY <3>1
    <3>3. w = [k \in 1 .. l + 1 |-> w[k]]
      BY <3>1, <3>2
    <3> QED BY <3>1, <3>3 DEF w
  <2> QED BY <2>1, <2>4 DEF a
<1>6. DeliveredOf(t, v, b) <=> DeliveredOf(x, y, b) \/ g = x.file
  <2>1. b + 1 .. Len(v.saved) = (b + 1 .. Len(y.saved)) \union {Len(v.saved)}
    BY <1>1, <1>2
  <2>2. ASSUME NEW k \in b + 1 .. Len(y.saved) PROVE v.saved[k] = y.saved[k]
    <3>1. k \in 1 .. Len(y.saved)
      BY <1>1
    <3> QED BY <1>2, <3>1
  <2>3. g # None
    BY BeamAssumption
  <2> QED BY <1>2, <1>3, <2>1, <2>2, <2>3 DEF DeliveredOf
<1> QED BY <1>5, <1>6

\* The promise's initial state.
LEMMA InitTransfer == Init => Transfer!Init
<1> SUFFICES ASSUME Init PROVE Transfer!Init
  OBVIOUS
<1>1. /\ s = SenderReset(<<>>) /\ r = ReceiverAtStart /\ started = <<>> /\ before = 0
      /\ outcome = "none" /\ past = "gone"
  BY DEF Init
<1>2. s.file = None /\ r.saved = <<>>
  BY <1>1 DEF SenderReset, ReceiverAtStart
<1>3. ASSUME NEW f \in Files PROVE Cardinality({k \in DOMAIN started : started[k] = f}) = 0
  <2>1. {k \in DOMAIN started : started[k] = f} = {}
    BY <1>1
  <2> QED BY <2>1, FS_EmptySet
<1>4. [k \in 1 .. Len(r.saved) |-> FileOf(r.saved[k])] = <<>>
  BY <1>2
<1> QED BY <1>1, <1>2, <1>3, <1>4 DEF Transfer!Init

\* How the parts of the promise are seen here.
LEMMA Seen ==
    ASSUME IInv, past' # "mixed"
    PROVE  /\ \A file \in Files : Transfer!Start(file) <=>
                 /\ s'.file = file /\ StartedOf' = [StartedOf EXCEPT ![file] = @ + 1]
                 /\ DeliveredOf(s', r', before') = FALSE /\ outcome' = "none"
                 /\ FilesOf(r') = FilesOf(r)
           /\ \A file \in Files : Transfer!Save(file) <=>
                 /\ SavedTimes(r, file) < StartedOf[file]
                 /\ FilesOf(r') = Append(FilesOf(r), file)
                 /\ DeliveredOf(s', r', before') = (DeliveredOf(s, r, before) \/ file = s.file)
                 /\ s'.file = s.file /\ StartedOf' = StartedOf /\ outcome' = outcome
           /\ Transfer!Complete <=>
                 /\ s.file # None /\ (DeliveredOf(s, r, before) \/ s.file \in EmptyFiles)
                 /\ outcome' = "complete" /\ s'.file = None
                 /\ DeliveredOf(s', r', before') = FALSE
                 /\ StartedOf' = StartedOf /\ FilesOf(r') = FilesOf(r)
           /\ Transfer!Abort <=>
                 /\ s.file # None
                 /\ outcome' = "aborted" /\ s'.file = None
                 /\ DeliveredOf(s', r', before') = FALSE
                 /\ StartedOf' = StartedOf /\ FilesOf(r') = FilesOf(r)
<1>0. past # "mixed"
  BY Here
<1>1. \A f \in Files : Transfer!SavedTimes(f) = SavedTimes(r, f)
  <2>1. r \in Receivers /\ Tally(s, r, StartedOf, before)
    BY Here DEF Fits
  <2>2. \A f \in Files : Cardinality({k \in DOMAIN FilesOf(r) : FilesOf(r)[k] = f}) = SavedTimes(r, f)
    BY <2>1, FilesTold
  <2>3. ASSUME NEW f \in Files
        PROVE  Transfer!SavedTimes(f) = Cardinality({k \in DOMAIN FilesOf(r) : FilesOf(r)[k] = f})
    <3>1. \A S : Transfer!Cardinality(S) = Cardinality(S)
      BY DEF Transfer!Cardinality, Cardinality
    <3> QED BY <3>1 DEF Transfer!SavedTimes, FilesOf
  <2> QED BY <2>2, <2>3
<1>2. /\ StartedOf = [f \in Files |-> Cardinality({k \in DOMAIN started : started[k] = f})]
      /\ StartedOf' = [f \in Files |-> Cardinality({k \in DOMAIN started' : started'[k] = f})]
  BY DEF StartedOf, StartedTimes
<1>3. ASSUME NEW file \in Files
      PROVE  Transfer!Start(file) <=>
                 /\ s'.file = file /\ StartedOf' = [StartedOf EXCEPT ![file] = @ + 1]
                 /\ DeliveredOf(s', r', before') = FALSE /\ outcome' = "none"
                 /\ FilesOf(r') = FilesOf(r)
  BY <1>2, <1>0 DEF Transfer!Start, FilesOf, DeliveredOf
<1>4. ASSUME NEW file \in Files
      PROVE  Transfer!Save(file) <=>
                 /\ SavedTimes(r, file) < StartedOf[file]
                 /\ FilesOf(r') = Append(FilesOf(r), file)
                 /\ DeliveredOf(s', r', before') = (DeliveredOf(s, r, before) \/ file = s.file)
                 /\ s'.file = s.file /\ StartedOf' = StartedOf /\ outcome' = outcome
  BY <1>0, <1>1, <1>2 DEF Transfer!Save, FilesOf, DeliveredOf
<1>5. Transfer!Complete <=>
                 /\ s.file # None /\ (DeliveredOf(s, r, before) \/ s.file \in EmptyFiles)
                 /\ outcome' = "complete" /\ s'.file = None
                 /\ DeliveredOf(s', r', before') = FALSE
                 /\ StartedOf' = StartedOf /\ FilesOf(r') = FilesOf(r)
  BY <1>2, <1>0 DEF Transfer!Complete, FilesOf, DeliveredOf, EmptyFiles
<1>6. Transfer!Abort <=>
                 /\ s.file # None
                 /\ outcome' = "aborted" /\ s'.file = None
                 /\ DeliveredOf(s', r', before') = FALSE
                 /\ StartedOf' = StartedOf /\ FilesOf(r') = FilesOf(r)
  BY <1>2, <1>0 DEF Transfer!Abort, FilesOf, DeliveredOf
<1> QED BY <1>3, <1>4, <1>5, <1>6

\* Every step of the link is a step of the promise or none.
LEMMA NextTransfer ==
    ASSUME IInv, IInv',
           \/ Hidden \/ Saving \/ Starting \/ Ending("aborted")
           \/ Ending("complete") /\ (HasDelivered(s, r, before) \/ s.file \in EmptyFiles)
    PROVE  [Transfer!Next]_(Transfer!vars)
<1>2. /\ r \in Receivers /\ Tally(s, r, StartedOf, before)
      /\ r' \in Receivers /\ Tally(s', r', StartedOf', before')
      /\ started \in Seq(Files)
  BY DEF IInv, TypeOK, Fits
<1>0. past # "mixed" /\ past' # "mixed"
  BY DEF IInv
<1>3. /\ UNCHANGED <<s.file, started>> /\ r'.saved = r.saved /\ before' = before
         /\ outcome' = outcome => UNCHANGED Transfer!vars
  <2> SUFFICES ASSUME UNCHANGED <<s.file, started>>, r'.saved = r.saved, before' = before,
                      outcome' = outcome
               PROVE  UNCHANGED Transfer!vars
    OBVIOUS
  <2>1. FilesOf(r') = FilesOf(r) /\ DeliveredOf(s', r', before') = DeliveredOf(s, r, before)
    BY DEF FilesOf, DeliveredOf
  <2> QED BY <1>0, <2>1 DEF Transfer!vars, FilesOf, DeliveredOf
<1>4. CASE Hidden
  BY <1>3, <1>4 DEF Hidden
<1>5. CASE Saving
  <2>1. s'.file = s.file /\ started' = started /\ before' = before /\ outcome' = outcome
        /\ Saves(r, r', StartedOf) /\ StartedOf' = StartedOf
    BY <1>5, Rested DEF Saving
  <2>2. CASE r'.saved = r.saved
    BY <1>3, <2>1, <2>2
  <2>3. CASE r'.saved # r.saved
    <3>1. PICK g \in Files, o \in Seq(Parts) :
            Whole(o, g) /\ r'.saved = Append(r.saved, o) /\ SavedTimes(r, g) < StartedOf[g]
      BY <2>1, <2>3 DEF Saves
    <3>2. /\ FilesOf(r') = Append(FilesOf(r), g)
          /\ DeliveredOf(s', r', before) <=> DeliveredOf(s, r, before) \/ g = s.file
      <4> DEFINE t == s'
                 v == r'
                 n == StartedOf
      <4>1. /\ r \in Receivers /\ v \in Receivers /\ Tally(s, r, n, before)
            /\ t.file = s.file /\ v.saved = Append(r.saved, o)
        BY <1>2, <2>1, <3>1
      <4> HIDE DEF t, v, n
      <4>2. /\ FilesOf(v) = Append(FilesOf(r), g)
            /\ DeliveredOf(t, v, before) <=> DeliveredOf(s, r, before) \/ g = s.file
        BY <3>1, <4>1, SavedTold
      <4> QED BY <4>2 DEF t, v
    <3>3. DeliveredOf(s', r', before') = (DeliveredOf(s, r, before) \/ g = s.file)
      BY <2>1, <3>2 DEF DeliveredOf
    <3>4. Transfer!Save(g)
      BY <2>1, <3>1, <3>2, <3>3, <1>0, Seen
    <3> QED BY <3>4 DEF Transfer!Next
  <2> QED BY <2>2, <2>3
<1>6. CASE Starting
  <2>1. PICK file \in Files : /\ s'.file = file /\ started' = Append(started, file)
                              /\ before' = Len(r.saved) /\ outcome' = "none"
                              /\ r'.saved = r.saved
    BY <1>6 DEF Starting
  <2>2. StartedOf' = [StartedOf EXCEPT ![file] = @ + 1]
    <3>1. StartedOf' = Restarted(StartedOf, file) /\ StartedOf \in [Files -> Nat]
      BY <1>2, <2>1, StartCounted, StartedType
    <3>2. \A f \in Files : StartedOf[f] \in Nat
      BY <3>1
    <3>3. Restarted(StartedOf, file) = [StartedOf EXCEPT ![file] = @ + 1]
      <4> DEFINE e == [StartedOf EXCEPT ![file] = @ + 1]
      <4>1. e = [f \in Files |-> e[f]]
        BY <3>1
      <4>2. ASSUME NEW f \in Files
            PROVE  e[f] = StartedOf[f] + (IF f = file THEN 1 ELSE 0)
        BY <3>1, <3>2
      <4> HIDE DEF e
      <4> QED BY <4>1, <4>2 DEF Restarted, e
    <3> QED BY <3>1, <3>3
  <2>3. DeliveredOf(s', r', before') = FALSE
    <3>1. Len(r.saved) \in Nat /\ Len(r'.saved) = Len(r.saved)
      BY <1>2, <2>1 DEF Receivers
    <3>2. before' + 1 .. Len(r'.saved) = {}
      BY <2>1, <3>1
    <3> QED BY <3>2 DEF DeliveredOf
  <2>4. FilesOf(r') = FilesOf(r)
    BY <2>1 DEF FilesOf
  <2>5. Transfer!Start(file)
    BY <2>1, <2>2, <2>3, <2>4, <1>0, Seen
  <2> QED BY <2>5 DEF Transfer!Next
<1>7. ASSUME NEW how, Ending(how)
      PROVE  /\ s.file \in Files /\ s.file # None /\ s'.file = None /\ outcome' = how
             /\ StartedOf' = StartedOf
             /\ FilesOf(r') = FilesOf(r) /\ DeliveredOf(s', r', before') = FALSE
  <2>1. /\ s.file \in Files /\ s'.file = None /\ outcome' = how
        /\ r'.saved = r.saved /\ started' = started /\ before' = before
    BY <1>7 DEF Ending
  <2>2. FilesOf(r') = FilesOf(r) /\ DeliveredOf(s', r', before') = FALSE
    BY <2>1 DEF FilesOf, DeliveredOf
  <2> QED BY <2>1, <2>2, Rested, BeamAssumption
<1>8. CASE Ending("aborted")
  <2>1. /\ s.file # None /\ s'.file = None /\ outcome' = "aborted" /\ StartedOf' = StartedOf
        /\ FilesOf(r') = FilesOf(r) /\ DeliveredOf(s', r', before') = FALSE
    BY <1>7, <1>8
  <2>2. Transfer!Abort
    BY <1>0, <2>1, Seen
  <2> QED BY <2>2 DEF Transfer!Next
<1>9. CASE Ending("complete") /\ (HasDelivered(s, r, before) \/ s.file \in EmptyFiles)
  <2>1. DeliveredOf(s, r, before) \/ s.file \in EmptyFiles
    BY <1>2, <1>7, <1>9, DeliveredTold
  <2>2. Transfer!Complete
    BY <1>7, <1>0, <1>9, <2>1, Seen
  <2> QED BY <2>2 DEF Transfer!Next
<1> QED BY <1>4, <1>5, <1>6, <1>8, <1>9

\* A beam keeps the promise of BeamTransfer while discovery is timely, so that the frames of
\* one link are never taken for those of the next (HandleIrdaSnrmFrame keeps the queue).
THEOREM BeamImplementsTransfer == Spec /\ TimelyDiscovery => ImplementsTransfer
<1>1. IInv /\ [Next]_vars /\ [~DiscoveryTimerEarly]_vars => [Transfer!Next]_(Transfer!vars)
  BY NextInv, NextTransfer
<1> QED BY <1>1, InitTransfer, Inductive, PTL
   DEF Spec, TimelyDiscovery, ImplementsTransfer, Transfer!Spec
=============================================================================
