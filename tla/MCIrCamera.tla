------------------------------ MODULE MCIrCamera ------------------------------
(* Instances of IrCamera for TLC.                                            *)
EXTENDS IrCamera

MCWaves == {"none", "850", "940_single"}
MCOnTimes == {0, 5000, 65536 + 2500}
=============================================================================
