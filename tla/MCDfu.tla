------------------------------- MODULE MCDfu -------------------------------
(* Images of a few blocks for TLC. Blocks of three bytes, writes of four: a *)
(* write leaves a remainder and the last one runs into the next sector.     *)
EXTENDS Dfu

\* The third one does not fit into the slot
ThreeImages == <<4, 3, 6>>
ThreeLasts == <<2, 3, 3>>
=============================================================================
