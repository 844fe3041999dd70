----------------------------- MODULE MCBattery ------------------------------
(* Instances of Battery for TLC: two batteries that can be swapped, and two *)
(* of the four RTR messages.                                                *)
EXTENDS Battery

MCAnswers == <<"524", "525">>
=============================================================================
