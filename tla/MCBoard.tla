------------------------------- MODULE MCBoard -------------------------------
(***************************************************************************)
(* Small instances of AvailabilityBoard for TLC.                           *)
(***************************************************************************)
EXTENDS AvailabilityBoard, TLC

CONSTANT c1

OneCellWindows == {{c1}, {}}
OneCellAnswers == {[c \in {c1} |-> "available"]}
=============================================================================
