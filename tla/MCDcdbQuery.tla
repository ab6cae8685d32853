----------------------------- MODULE MCDcdbQuery -----------------------------
(***************************************************************************)
(* Instances of DcdbQuery for TLC.                                         *)
(***************************************************************************)
EXTENDS DcdbQuery

NoPorts == {}

\* A port too large for uint16_t.
LargePort == {65546}
TwoTimes == 0 .. 1
==============================================================================
