---------------------------- MODULE MCPolarizer ----------------------------
(***************************************************************************)
(* A wheel of 36 steps of ten degrees: the bumps are three steps wide, the *)
(* vertical one five and the extra one, four steps before the horizontal   *)
(* one, one.                                                               *)
(***************************************************************************)
EXTENDS Polarizer

MCHalf == [b \in Bumps |-> CASE b = "extra" -> 0 [] b = "vertical" -> 2 [] OTHER -> 1]

=============================================================================
