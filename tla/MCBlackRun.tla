------------------------------ MODULE MCBlackRun ------------------------------
(* Small instances of BlackRun. *)
EXTENDS BlackRun, TLC
CONSTANTS f1, f2
\* The second run may be a check of what the first left, or overlap it.
TheModes == <<{"write", "check"}, {"write", "check", "checkdiff"}>>
OnlyCheck == <<{"check"}>>
TwoFiles == {f1, f2}
=============================================================================
