----------------------------- MODULE MCDcdbResults -----------------------------
(***************************************************************************)
(* Instances of DcdbResults for TLC, with the sessions of MCDcdbQuery.     *)
(***************************************************************************)
EXTENDS DcdbResults

NoPorts == {}
OneTime == {0}
================================================================================
