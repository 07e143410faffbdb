---------------------------- MODULE EquipmentLock ----------------------------
(***************************************************************************)
(* What a brew module promises about its equipment                         *)
(* (src/include/BrewModule.hpp:184-204): a process that nominated          *)
(* exclusive use is alone with the equipment until it is done with it;     *)
(* processes that nominated non-exclusive use may share it; and only a     *)
(* process that has the equipment changes its power level.                 *)
(***************************************************************************)
EXTENDS FiniteSets

CONSTANTS Procs, Equipment, Uses, Exclusive, Levels, Off

VARIABLES
    holders,    \* the processes that have each piece of equipment
    power       \* its power level

lvars == <<holders, power>>

Init ==
    /\ holders = [e \in Equipment |-> {}]
    /\ power = [e \in Equipment |-> Off]

Acquire(p) ==
    /\ IF p \in Exclusive THEN holders[Uses[p]] = {}
                          ELSE holders[Uses[p]] \cap Exclusive = {}
    /\ holders' = [holders EXCEPT ![Uses[p]] = @ \cup {p}]
    /\ UNCHANGED power

Write(p, level) ==
    /\ p \in holders[Uses[p]]
    /\ power' = [power EXCEPT ![Uses[p]] = level]
    /\ UNCHANGED holders

Release(p) ==
    /\ p \in holders[Uses[p]]
    /\ holders' = [holders EXCEPT ![Uses[p]] = @ \ {p}]
    /\ UNCHANGED power

Next ==
    \E p \in Procs : Acquire(p) \/ Release(p) \/ \E level \in Levels : Write(p, level)

Spec == Init /\ [][Next]_lvars
==============================================================================
