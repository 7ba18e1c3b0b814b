---------------------------- MODULE MCPalmInputs ----------------------------
(* Inputs for model checking PalmInputs: a corner of the key matrix of each  *)
(* family of devices and the configurations Palm OS uses on it.              *)
EXTENDS PalmInputs

IIIcSleepColumn == [k \in Key |-> IF k = "hard3" THEN {"INT2"} ELSE {"INT1"}]

\* Three keys of the IIIc on two columns; hard2 is wired into two rows.
Matrix == {<<"row0", "hard2", "INT1">>, <<"row0", "hard3", "INT2">>,
           <<"row2", "contrast", "INT1">>, <<"row2", "hard2", "INT2">>}
ScanRows == {{}, {"row0"}, Row}
KeyRegisters == [outputs |-> {{}, {"INT2"}}, polarity |-> {{}, Col}, request |-> {{}, Col},
                 kbdEnable |-> {{}, Col}, edge |-> {{}, {"INT1"}}]

AnyIcr == Icr
Masked == {Source, {"IRQ1"}}

\* Bound: a foreign request comes, and a snapshot is taken, with pen and cradle at rest, at
\* most one key down and every column listened to; a sleeping guest is saved, and leaves the
\* configuration of port D alone until it is restored.
AtRest ==
  /\ ~penDown /\ ~lineLow /\ icr = [et1 |-> FALSE, pol1 |-> FALSE]
  /\ down \subseteq {"hard2"}
  /\ \/ portD.polarity = Col /\ portD.request = Col /\ portD.outputs = {} /\ mask = {"IRQ1"}
     \/ portD = NoPortD /\ mask = Source

FewSnapshots ==
  /\ saved # <<>> \/ "TIMER" \in pending => AtRest
  /\ saved # <<>> =>
       /\ saved[1].asleep /\ saved[1].portD.polarity = Col
       /\ portD \in {saved[1].portD, NoPortD}
=============================================================================
