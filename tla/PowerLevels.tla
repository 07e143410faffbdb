----------------------------- MODULE PowerLevels -----------------------------
(***************************************************************************)
(* What SwitchNode::setPower (src/src/hardware/SwitchNode.cpp:8-28) makes  *)
(* of a level, for the modules in which equipment is switched.             *)
(***************************************************************************)
EXTENDS Naturals

MAX_POWER == 100

\* The clamp tests the level that is cached, not the one asked for.
Clamp(cached, asked) == IF cached > MAX_POWER THEN MAX_POWER ELSE asked

\* What is written of a level: as many characters as a pointer has bytes, four on
\* the ARM this is built for.
FourDigits == 0..9999
FirstFour(l) ==
    LET dropped == CHOOSE k \in 1..6 : l \div 10^k \in 1000..9999
    IN  l \div 10^dropped
Written(l) == IF l \in FourDigits THEN l ELSE FirstFour(l)
==============================================================================
