------------------------------ MODULE MCPower ------------------------------
(* Power with a short press and few delays for TLC.                         *)
EXTENDS Power

\* At once, shown for a second first, and refused
SomeDelays == {0, 2, 61}
\* Without a timeout, refused and accepted
SomeForcedDelays == {0, 5, 10}
=============================================================================
