--------------------------- MODULE MCPyperfManager ---------------------------
(* A small instance of PyperfManager. *)
EXTENDS PyperfManager
\* Powers of two, enough of them to pass the limit of calibrations by doubling.
SixLoops == {1, 2, 4, 8, 16, 32}
SixWarmups == 1..6
\* Not given, and one value.
GivenOrNot == {0, 4}
NoneOrGiven == {None, 2}
=============================================================================
