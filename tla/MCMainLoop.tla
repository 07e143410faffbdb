---------------------------- MODULE MCMainLoop ----------------------------
(***************************************************************************)
(* Instances of MainLoop for TLC.                                          *)
(***************************************************************************)
EXTENDS MainLoop

CONSTANTS p1, p2, temp, mass, bad

\* One command of each kind main() tells apart: START and STOP of every process
\* and a START it ignores, READ of every value, of a process and of an unknown URL,
\* EXIT with a known and an unknown URL, and one without effect
OneOfEachKind ==
    [action : {"start", "stop"}, url : Procs]
    \cup [action : {"read"}, url : Readable \cup {p1, bad}]
    \cup [action : {"exit"}, url : {temp, bad}]
    \cup [action : {"start", "other"}, url : {temp}]

OneCommand(s) == IF s = <<>> THEN OneOfEachKind ELSE {}

\* Three commands of any kind; three STARTs may be followed by an EXIT, so that a
\* process runs, another one stops it and the first one is started again.
ThreeCommands(s) ==
    IF Len(s) < 3 THEN OneOfEachKind
    ELSE IF Len(s) = 3 /\ \A i \in 1..3 : s[i].action = "start" /\ s[i].url \in Procs
    THEN {[action |-> "exit", url |-> temp]}
    ELSE {}
===========================================================================
