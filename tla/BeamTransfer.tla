---------------------------- MODULE BeamTransfer ----------------------------
(***************************************************************************)
(* What a beam promises to the one who starts it and to the one who looks  *)
(* into the folder of received files: a file that is started is saved at   *)
(* most once, whole, and is reported complete only when it was saved. A    *)
(* send may be broken off; what was started may still be saved after that. *)
(* A file is reported without being saved only if it leaves nothing to     *)
(* send, or while the answers to a send before may be taken for its own.   *)
(***************************************************************************)
EXTENDS Naturals, Sequences, FiniteSets

CONSTANTS Files, None,
          Empty       \* files that leave nothing to send

VARIABLES sending,    \* the file that is being sent
          started,    \* how often each file was started
          saved,      \* the files saved, in order
          delivered,  \* the one being sent has been saved since it was started
          apart,      \* no answer to a send before can be taken for one to this
          outcome     \* how the last send ended

vars == <<sending, started, saved, delivered, apart, outcome>>

SavedTimes(file) == Cardinality({k \in DOMAIN saved : saved[k] = file})

Init ==
    /\ sending = None /\ started = [f \in Files |-> 0] /\ saved = <<>>
    /\ delivered = FALSE /\ apart = TRUE /\ outcome = "none"

Start(file) ==
    /\ sending' = file
    /\ started' = [started EXCEPT ![file] = @ + 1]
    /\ delivered' = FALSE /\ apart' \in BOOLEAN /\ outcome' = "none"
    /\ UNCHANGED saved

Save(file) ==
    /\ SavedTimes(file) < started[file]
    /\ saved' = Append(saved, file)
    /\ delivered' = (delivered \/ file = sending)
    /\ UNCHANGED <<sending, started, apart, outcome>>

Complete ==
    /\ sending # None /\ (delivered \/ sending \in Empty \/ ~apart)
    /\ outcome' = "complete" /\ sending' = None /\ delivered' = FALSE
    /\ UNCHANGED <<started, saved, apart>>

Abort ==
    /\ sending # None
    /\ outcome' = "aborted" /\ sending' = None /\ delivered' = FALSE
    /\ UNCHANGED <<started, saved, apart>>

\* Answers come to be mixed, or apart again.
Mix ==
    /\ sending # None /\ apart' = ~apart
    /\ UNCHANGED <<sending, started, saved, delivered, outcome>>

Next == \/ \E file \in Files : Start(file) \/ Save(file)
        \/ Complete \/ Abort \/ Mix

Spec == Init /\ [][Next]_vars
=============================================================================
