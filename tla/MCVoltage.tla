----------------------------- MODULE MCVoltage ------------------------------
(* Instance of Voltage for TLC.                                             *)
EXTENDS Voltage

MCI2cPins == {101}
MCVolts == [c \in Channels |-> IF c = "3V3_UC" THEN {1, 2} ELSE {1}]
=============================================================================
