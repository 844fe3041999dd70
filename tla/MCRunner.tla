------------------------------ MODULE MCRunner ------------------------------
(* An instance of Runner for TLC: requests that are answered at once, twice,  *)
(* by the DFU thread and by a reset, and a shell command of two jobs.         *)
EXTENDS Runner

MCPayloads == {"dfu_block", "reboot_orb", "diag_test", "unknown"}
MCCommands == {"ir_leds"}
=============================================================================
