----------------------------- MODULE MCBeamLink -----------------------------
(* Values for checking BeamLink with TLC. *)
EXTENDS BeamLink

\* A program of two chunks or three, an empty memo, and an empty file.
MCFiles == {"prc", "memo", "nil"}
MCUnits == [f \in MCFiles |-> IF f = "prc" THEN 3 ELSE 0]
MCTextFiles == {"memo"}

\* Of two sends one is the memo: enough for what a first leaves behind to meet a second.
OneMemo == Len(started') = 2 => (started'[1] = "memo") # (started'[2] = "memo")
=============================================================================
