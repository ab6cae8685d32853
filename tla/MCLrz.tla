--------------------------------- MODULE MCLrz ---------------------------------
(***************************************************************************)
(* Instances of LrzJob for TLC: two resources of two and of three qubits.  *)
(***************************************************************************)
EXTENDS LrzJob, TLC

CONSTANTS small, big

TwoQubits == small :> 2 @@ big :> 3
TwoGates == small :> <<0, 1>> @@ big :> <<1, 2>>
TwoCouplings == small :> <<0, 1>> @@ big :> <<0, 1, 1, 2>>
================================================================================
