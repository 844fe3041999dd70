----------------------------- MODULE MCThermal ------------------------------
(* Instances of Thermal for TLC: a sensor of the main board with a callback *)
(* and one of the front unit, which only the front unit average watches.    *)
EXTENDS Thermal

MCOrder == <<"main_board", "front_unit">>
=============================================================================
