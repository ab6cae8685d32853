------------------------------- MODULE MCTwoCalls -------------------------------
(***************************************************************************)
(* Instances of TwoCalls for TLC: all buffers up to the size of the        *)
(* values and one byte more, and the sizes of the larger dense tables.     *)
(***************************************************************************)
EXTENDS TwoCalls

AllValues == {"string", "list", "single", "timestamps", "names", "keys",
              "probabilities", "dense"}
Readings == {"readings"}
KeysOnly == {"keys"}
Buffers == 0 .. 33 \cup {40, 41, 63, 64}
================================================================================
