---------------------------- MODULE MCBrewModule ----------------------------
(***************************************************************************)
(* Instances of BrewModule for TLC: processes of the hot liquor tank as    *)
(* Main.cpp wires them, and two that share, as in the tests.               *)
(***************************************************************************)
EXTENDS BrewModule

CONSTANTS SwitchElement, ControlTemperature, ShareElement, SharePump,
          element, pump

\* Main.cpp:81-83: two processes of the tank use the element.
\* TestProcesses.cpp:47-79: one process shares the pump, one the element.
TankUses == [p \in Procs |-> IF p = SharePump THEN pump ELSE element]
=============================================================================
