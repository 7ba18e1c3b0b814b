--------------------------- MODULE SnapshotStore ---------------------------
(***************************************************************************)
(* Saving the emulated machine to the SD card and restoring it at boot     *)
(* (ESP32-PALM.ino, savePalmStateToSd and restorePalmStateFromSd): a save  *)
(* writes a temporary file section by section, removes the old snapshot    *)
(* and renames; a restore copies section by section into the live machine. *)
(* Both run inside the loop task, so the guest stands still meanwhile.     *)
(* Power may fail between any two steps, and each call on the card may     *)
(* fail.                                                                   *)
(*                                                                         *)
(* A snapshot has Last sections: 1 the header, 2 the registers, 3 up to    *)
(* Last - 1 the RAM chunks, Last the SED1375.  The machine has the same    *)
(* parts and part 0, the CPU, which travels in the header.  The content of *)
(* a part is the number of the guest burst that wrote it: 0 when cold, 1   *)
(* when it comes from an earlier session.                                  *)
(***************************************************************************)
EXTENDS Naturals

CONSTANTS
  Last,       \* number of sections
  Touched,    \* sets of parts one guest burst may write
  Faults,     \* calls that may fail: "open", "write", "flush", "remove", "rename", "read"
  Found,      \* kinds of file the card may hold before the first boot
  MaxGen      \* bound: number of guest bursts

ASSUME StoreConstants ==
  /\ Last \in Nat /\ Last >= 4
  /\ Touched \subseteq SUBSET (0 .. Last)
  /\ Faults \subseteq {"open", "write", "flush", "remove", "rename", "read"}
  /\ Found \subseteq {"none", "native", "foreign", "raw"}
  /\ MaxGen \in Nat \ {0}

Part    == 0 .. Last
Content == [Part -> 0 .. MaxGen]
File    == [kind : {"none", "native", "foreign", "raw"}, size : 0 .. Last, data : Content]
Cold    == [p \in Part |-> 0]
NoFile  == [kind |-> "none", size |-> 0, data |-> Cold]
NewFile == [kind |-> "native", size |-> 0, data |-> Cold]

VARIABLES
  final,      \* PALM_STATE_SD_PATH
  tmp,        \* PALM_STATE_SD_TEMP_PATH
  machine,    \* RAM, registers, UART, display controller and CPU
  pc,         \* what the loop task is doing
  at,         \* next section of a restore
  captured,   \* the machine when the save began: stateHeaderBuffer and stateIoBuffer
  restored,   \* "no", "raw" or "native" (restoredStateLoaded)
  gen,        \* number of guest bursts
  committed,  \* history: what the last save that reported success captured
  tails       \* history: "lost" once closing a file has lost the end of it

card == <<final, tmp>>
storeVars == <<card, machine, pc, at, captured, restored, gen, committed, tails>>

-----------------------------------------------------------------------------
\* The section a part is stored in.
SectionOf(p) == IF p = 0 THEN 1 ELSE p

Whole(f) == f.kind = "native" /\ f.size = Last

\* What is left of a file whose last n sections never reached the card.
Truncated(f, n) ==
  [kind |-> f.kind, size |-> n,
   data |-> [p \in Part |-> IF SectionOf(p) <= n THEN f.data[p] ELSE 0]]

Appended(f, k, content) ==
  [kind |-> "native", size |-> k,
   data |-> [p \in Part |-> IF SectionOf(p) = k THEN content[p] ELSE f.data[p]]]

\* The machine after the parts in S were loaded from f.
Loaded(f, S) == [p \in Part |-> IF p \in S THEN f.data[p] ELSE machine[p]]

-----------------------------------------------------------------------------
(* Boot. *)

\* setup: memory and hardware are initialised and the CPU reset.
PowerOn ==
  /\ pc = "off"
  /\ pc' = "open" /\ machine' = Cold /\ restored' = "no"
  /\ UNCHANGED <<card, at, captured, gen, committed, tails>>

\* restorePalmStateFromSd: a file that is missing, too short or of another build is left
\* alone; a file of exactly the size of the RAM is a RAM image.
FindsNothing ==
  /\ pc = "open"
  /\ final.kind \in {"none", "foreign"} \/ (final.kind = "native" /\ final.size < Last)
       \/ "open" \in Faults
  /\ pc' = "run"
  /\ UNCHANGED <<card, machine, at, captured, restored, gen, committed, tails>>

\* Mutant: the size of the file is not compared with the header's.
FindsNativeShort ==
  /\ pc = "open" /\ final.kind = "native"
  /\ pc' = "restore" /\ at' = 2
  /\ UNCHANGED <<card, machine, captured, restored, gen, committed, tails>>

FindsNative ==
  /\ pc = "open" /\ Whole(final)
  /\ pc' = "restore" /\ at' = 2
  /\ UNCHANGED <<card, machine, captured, restored, gen, committed, tails>>

FindsRaw ==
  /\ pc = "open" /\ final.kind = "raw"
  /\ pc' = "restore" /\ at' = 3
  /\ UNCHANGED <<card, machine, captured, restored, gen, committed, tails>>

\* Mutant: the CPU stays at its reset vector.
PartsReadHeadless == IF at = 2 THEN {1, 2} ELSE {at}

\* The registers and the header's device state go in together, the CPU comes last.
PartsRead == (IF at = 2 THEN {1, 2} ELSE {at}) \cup (IF at = Last THEN {0} ELSE {})

RestoreSection ==
  /\ pc = "restore"
  /\ machine' = Loaded(final, PartsRead)
  /\ IF at < (IF final.kind = "raw" THEN Last - 1 ELSE Last)
     THEN at' = at + 1 /\ UNCHANGED <<pc, restored>>
     ELSE at' = 0 /\ pc' = "run" /\ restored' = final.kind
  /\ UNCHANGED <<card, captured, gen, committed, tails>>

\* A read that fails ends the restore where it is, and the boot goes on.
RestoreFails ==
  /\ pc = "restore" /\ "read" \in Faults
  /\ pc' = "run" /\ at' = 0
  /\ UNCHANGED <<card, machine, captured, restored, gen, committed, tails>>

-----------------------------------------------------------------------------
\* Mutant: the guest runs on while a save copies.
RunGuestSaving(S) ==
  /\ pc \in {"run", "write"} /\ gen < MaxGen
  /\ gen' = gen + 1
  /\ machine' = [p \in Part |-> IF p \in S THEN gen + 1 ELSE machine[p]]
  /\ UNCHANGED <<card, pc, at, captured, restored, committed, tails>>

\* executePalmCpuSlice between two services of the save request.
RunGuest(S) ==
  /\ pc = "run" /\ gen < MaxGen
  /\ gen' = gen + 1
  /\ machine' = [p \in Part |-> IF p \in S THEN gen + 1 ELSE machine[p]]
  /\ UNCHANGED <<card, pc, at, captured, restored, committed, tails>>

-----------------------------------------------------------------------------
(* savePalmStateToSd. *)

\* Mutant: room is made before the new snapshot is written.
SaveBeginsInPlace ==
  /\ pc = "run"
  /\ captured' = machine
  /\ final' = NoFile /\ tmp' = NewFile
  /\ pc' = "write"
  /\ UNCHANGED <<machine, at, restored, gen, committed, tails>>

\* The temporary file of an earlier save is removed, whatever it holds.
SaveBegins ==
  /\ pc = "run"
  /\ captured' = machine
  /\ tmp' = NewFile
  /\ pc' = "write"
  /\ UNCHANGED <<final, machine, at, restored, gen, committed, tails>>

SaveCannotOpen ==
  /\ pc = "run" /\ "open" \in Faults
  /\ tmp' = NoFile
  /\ UNCHANGED <<final, machine, pc, at, captured, restored, gen, committed, tails>>

\* The header and the registers come from the buffers filled when the save began, the
\* rest from the machine itself.
WriteSection ==
  /\ pc = "write"
  /\ LET k == tmp.size + 1
     IN /\ tmp' = Appended(tmp, k, IF k <= 2 THEN captured ELSE machine)
        /\ pc' = IF k = Last THEN "close" ELSE "write"
  /\ UNCHANGED <<final, machine, at, captured, restored, gen, committed, tails>>

WriteFails ==
  /\ pc = "write" /\ "write" \in Faults
  /\ tmp' = NoFile /\ pc' = "run"
  /\ UNCHANGED <<final, machine, at, captured, restored, gen, committed, tails>>

\* flush and close: their result is not looked at.
CloseTemp ==
  /\ pc = "close"
  /\ \E n \in 0 .. tmp.size : /\ n < tmp.size => "flush" \in Faults
                              /\ tmp' = Truncated(tmp, n)
                              /\ tails' = IF n < tmp.size THEN "lost" ELSE tails
  /\ pc' = "swap"
  /\ UNCHANGED <<final, machine, at, captured, restored, gen, committed>>

\* Nor is the result of removing the old snapshot.
RemoveFinal ==
  /\ pc = "swap"
  /\ final' = NoFile \/ ("remove" \in Faults /\ final' = final)
  /\ pc' = "rename"
  /\ UNCHANGED <<tmp, machine, at, captured, restored, gen, committed, tails>>

RenameTemp ==
  /\ pc = "rename" /\ final.kind = "none"
  /\ final' = tmp /\ tmp' = NoFile /\ committed' = captured
  /\ pc' = "run"
  /\ UNCHANGED <<machine, at, captured, restored, gen, tails>>

\* A rename onto a file that is still there fails too; the new snapshot is then removed.
RenameFails ==
  /\ pc = "rename" /\ (final.kind # "none" \/ "rename" \in Faults)
  /\ tmp' = NoFile /\ pc' = "run"
  /\ UNCHANGED <<final, machine, at, captured, restored, gen, committed, tails>>

-----------------------------------------------------------------------------
\* Power is lost; what was written to a file not yet closed may be lost with it.
PowerLoss ==
  /\ pc # "off"
  /\ pc' = "off" /\ machine' = Cold /\ captured' = Cold /\ at' = 0 /\ restored' = "no"
  /\ IF pc \in {"write", "close"} THEN \E n \in 0 .. tmp.size : tmp' = Truncated(tmp, n)
                                  ELSE tmp' = tmp
  /\ UNCHANGED <<final, gen, committed, tails>>

-----------------------------------------------------------------------------
\* A card from an earlier session: a snapshot of its machine, a RAM image, another
\* build's file, or nothing.
Earlier == [p \in Part |-> 1]

StoreInit ==
  /\ \E kind \in Found :
       final = [kind |-> kind, size |-> IF kind = "none" THEN 0 ELSE Last, data |-> Earlier]
  /\ tmp = NoFile
  /\ machine = Cold /\ pc = "off" /\ at = 0 /\ captured = Cold /\ restored = "no" /\ gen = 1
  /\ committed = Earlier /\ tails = "kept"

Boot == PowerOn \/ FindsNothing \/ FindsNative \/ FindsRaw \/ RestoreSection \/ RestoreFails
Save == \/ SaveBegins \/ SaveCannotOpen \/ WriteSection \/ WriteFails
        \/ CloseTemp \/ RemoveFinal \/ RenameTemp \/ RenameFails

StoreNext == Boot \/ Save \/ PowerLoss \/ \E S \in Touched : RunGuest(S)

StoreSpec == StoreInit /\ [][StoreNext]_storeVars

-----------------------------------------------------------------------------
(* Properties. *)

\* Files, machine and program counter hold values they can hold.
StoreTypeOK ==
  /\ final \in File /\ tmp \in File /\ machine \in Content /\ captured \in Content
  /\ committed \in Content /\ tails \in {"kept", "lost"}
  /\ pc \in {"off", "open", "restore", "run", "write", "close", "swap", "rename"}
  /\ at \in 0 .. Last /\ restored \in {"no", "raw", "native"} /\ gen \in 0 .. MaxGen

\* A torn snapshot comes to lie under the final name only where closing the file lost
\* its end, the one failure savePalmStateToSd cannot see: no power loss and no call that
\* reports its failure leaves one there.
FinalNeverTorn == final.kind = "native" => Whole(final) \/ tails = "lost"

\* A snapshot that a boot would accept is the machine as it stood when the last
\* successful save began, every part of it.
FinalIsCommitted == Whole(final) => final.data = committed

\* restorePalmStateFromSd tells setup the truth: after TRUE with a native file the machine
\* is the saved one, CPU included; after FALSE it is cold, except when a read failed
\* half-way, where the boot goes on with a mixture.
BootColdOrSaved ==
  [][(pc = "open" \/ pc = "restore") /\ pc' = "run" =>
       \/ restored' = "native" /\ machine' = committed
       \/ restored' = "raw" /\ machine' = [p \in Part |-> IF p \in 3 .. Last - 1
                                                         THEN final.data[p] ELSE 0]
       \/ restored' = "no" /\ machine' = Cold
       \/ RestoreFails]_storeVars

\* Once the card holds a whole snapshot it always holds one, except after a failed rename,
\* after a save that follows a power loss between remove and rename, and where closing
\* the file lost its end.
HasCopy == Whole(final) \/ (pc \notin {"write", "close"} /\ Whole(tmp))

CopyOutlivesSave ==
  [][HasCopy /\ ~HasCopy' =>
       \/ RenameFails
       \/ ~Whole(final) /\ (SaveBegins \/ SaveCannotOpen)
       \/ tails' = "lost"]_storeVars
=============================================================================
