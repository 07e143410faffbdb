---------------------------- MODULE ControlLoop ----------------------------
(***************************************************************************)
(* The control of a tank's temperature, from probe to heating element:     *)
(* ControlTemperature::run (src/src/processes/DevProc.cpp:145-178; Boil is *)
(* the same) reads the probe, pushes the error, computes the next output   *)
(* with the PID library (src/lib/pid.cpp) and sets the element.            *)
(*                                                                         *)
(* It extends TemperatureNode, whose readers here are the control and the  *)
(* process that measures the same probe, and composes it with the          *)
(* SwitchNode of the element, which SwitchElement sets while the control   *)
(* is stopped: BrewModule gives exclusive use to one of the two.           *)
(*                                                                         *)
(* An error is the set point less a reading; here it is the sample that    *)
(* was read.  A client may write every parameter between any two turns, so *)
(* the time step is any of TimeSteps and the value of the PID equation any *)
(* of Signals.  Signals and outputs are doubles, levels whole numbers:     *)
(* the former are in tenths here.                                          *)
(***************************************************************************)
EXTENDS TemperatureNode, Integers, Sequences

CONSTANTS
    Control, Measure,   \* the readers of the probe
    Switch,             \* the process that sets the element's level
    SwitchLevels,       \* the levels it is commanded to set
    TimeSteps,          \* values of TS, in milliseconds
    NaN,                \* the outcome of 0/0 and the like
    MayFail             \* may a write to the element fail?

ASSUME ReadersAreTwo == Readers = {Control, Measure} /\ Control # Measure
ASSUME SwitchType == Switch # Control /\ SwitchLevels \subseteq Nat
ASSUME NaNIsNoNumber == NaN \notin Int

Off == 0

\* Values of the PID equation: below, within and above the limits; in tenths, and
\* none of them a whole level.
Signals == {-5, 407, 1005}
Outputs == 0..1000

VARIABLES
    power, device, failed, setPc, request, level,   \* the element, see SwitchNode
    run,            \* where the control is in run()
    stopRequested,  \* Process::stopRequested of the control
    err,            \* PidParameter::err, the newest at 3
    output,         \* PidParameter::output, in tenths
    readings,       \* history: up to three latest readings of the latest run
    user            \* history: the process that had the element last

elementVars == <<power, device, failed, setPc, request, level>>
pidVars == <<err, output>>
loopVars == <<run, stopRequested, pidVars, readings, user>>
tankVars == <<vars, elementVars, loopVars>>

Element == INSTANCE SwitchNode WITH
               Callers <- {Switch, Control}, Requests <- SwitchLevels,
               pc <- setPc, value <- level

LoopTypes ==
    /\ run \in {"stopped", "test", "read", "errors", "compute", "set", "setting",
                "sleep", "off", "terminated"}
    /\ stopRequested \in BOOLEAN
    /\ err \in [1..3 -> Samples]
    /\ output \in Outputs \cup {NaN}
    /\ readings \in Seq(Samples) /\ Len(readings) \in 0..3
    /\ user \in {Switch, Control}

LoopInit ==
    /\ Init
    /\ Element!Init
    /\ run = "stopped"
    /\ stopRequested = FALSE
    /\ err = <<0, 0, 0>>
    /\ output = Off
    /\ readings = <<>>
    /\ user = Switch

-----------------------------------------------------------------------------
(***************************************************************************)
(* The commands: START and STOP of the control, a level for the switch.    *)
(***************************************************************************)
\* Mutant: the switch does not wait for the control
MutFree == setPc[Switch] = "idle"

\* The element is free: the control is stopped, the switch inside no setPower.
Free == run = "stopped" /\ setPc[Switch] = "idle"

\* Nothing of the PID state is reset.
Start ==
    /\ Free
    /\ run' = "test"
    /\ stopRequested' = FALSE
    /\ readings' = <<>>
    /\ user' = Control
    /\ UNCHANGED <<vars, elementVars, pidVars>>

Stop ==
    /\ run # "stopped"
    /\ stopRequested' = TRUE
    /\ UNCHANGED <<vars, elementVars, run, pidVars, readings, user>>

SwitchCalls ==
    /\ Free
    /\ \E l \in SwitchLevels : Element!Call(Switch, l)
    /\ user' = Switch
    /\ UNCHANGED <<vars, run, stopRequested, pidVars, readings>>

-----------------------------------------------------------------------------
(***************************************************************************)
(* One turn of the control.                                                *)
(***************************************************************************)
Becomes(from, to) == run = from /\ run' = to

\* !shouldStop(), and the beginning of getTemperature
Turn ==
    /\ ~stopRequested
    /\ Becomes("test", "read")
    /\ UpdateNode(Control)
    /\ UNCHANGED <<elementVars, stopRequested, pidVars, readings, user>>

\* The read fails: stoul of an empty buffer throws, and no code between here and
\* the thread's function catches it.  (MeasureTemperature's run() does, and ends.)
ReadFails ==
    /\ ~stopRequested
    /\ Becomes("test", "terminated")
    /\ UNCHANGED <<vars, elementVars, stopRequested, pidVars, readings, user>>

\* The reading of the measuring process, and the control's up to its last step
Reads(t) ==
    /\ \/ StoreImpedence(t) \/ Convert(t) \/ StoreTemperature(t)
       \/ t = Measure /\ (UpdateNode(t) \/ Return(t))
    /\ UNCHANGED <<elementVars, loopVars>>

HasRead ==
    /\ Becomes("read", "errors")
    /\ Return(Control)
    /\ UNCHANGED <<elementVars, stopRequested, pidVars, readings, user>>

\* Mutant: the newest error overwrites the last one, nothing is shifted
MutPushError(errors, e) == [errors EXCEPT ![3] = e]
PushError(errors, e) == <<errors[2], errors[3], e>>

\* pid::calcErrors
CalcErrors ==
    /\ Becomes("errors", "compute")
    /\ err' = PushError(err, value[Control])
    /\ readings' = LET all == Append(readings, value[Control])
                   IN  IF Len(all) > 3 THEN Tail(all) ELSE all
    /\ UNCHANGED <<vars, elementVars, stopRequested, output, user>>

ClipSignal(signal) ==
    IF signal < 0 THEN 0 ELSE IF signal > 1000 THEN 1000 ELSE signal

\* outputSignal and clipSignal.  The sum with a NaN is NaN; with a TS of 0 the
\* terms are infinite or NaN, and so is their sum.  NaN passes both limits.
Clipped(ts) ==
    IF output = NaN THEN {NaN}
    ELSE {ClipSignal(s) : s \in Signals} \cup (IF ts = 0 THEN {NaN} ELSE {})

\* pid::doControl
DoControl ==
    /\ Becomes("compute", "set")
    /\ \E ts \in TimeSteps : output' \in Clipped(ts)
    /\ UNCHANGED <<vars, elementVars, stopRequested, err, readings, user>>

\* setPower takes an int: the fraction of the double is dropped, and NaN becomes 0
\* on the ARM this is built for.
Level == IF output = NaN THEN 0 ELSE output \div 10

SetPower ==
    /\ Becomes("set", "setting")
    /\ Element!Call(Control, Level)
    /\ UNCHANGED <<vars, stopRequested, pidVars, readings, user>>

\* Mutant: the shutdown code is not reached
MutShutDown ==
    /\ stopRequested
    /\ Becomes("test", "stopped")
    /\ UNCHANGED <<vars, elementVars, stopRequested, pidVars, readings, user>>

\* shouldStop(), and the shutdown code
ShutDown ==
    /\ stopRequested
    /\ Becomes("test", "off")
    /\ Element!Call(Control, Off)
    /\ UNCHANGED <<vars, stopRequested, pidVars, readings, user>>

SetsPower(t) ==
    /\ \/ Element!Test(t) \/ Element!Store(t) \/ Element!Load(t)
       \/ t = Switch /\ Element!Write(t)
    /\ UNCHANGED <<vars, loopVars>>

\* The write ends setPower: the control sleeps, or returns from run().
HasSet ==
    /\ Element!Write(Control)
    /\ Becomes("setting", "sleep") \/ Becomes("off", "stopped")
    /\ UNCHANGED <<vars, stopRequested, pidVars, readings, user>>

Wake ==
    /\ Becomes("sleep", "test")
    /\ UNCHANGED <<vars, elementVars, stopRequested, pidVars, readings, user>>

Gone == run = "terminated" /\ UNCHANGED tankVars

LoopNext ==
    \/ /\ run # "terminated"
       /\ \/ Start \/ Stop \/ SwitchCalls
          \/ Turn \/ ReadFails \/ HasRead \/ CalcErrors \/ DoControl \/ SetPower
          \/ ShutDown \/ HasSet \/ Wake
          \/ \E t \in Readers : Reads(t)
          \/ \E t \in {Switch, Control} : SetsPower(t)
          \/ Sample /\ UNCHANGED <<elementVars, loopVars>>
    \/ Gone

LoopSpec == LoopInit /\ [][LoopNext]_tankVars

-----------------------------------------------------------------------------
(***************************************************************************)
(* Properties.  Those of the two nodes are kept by the composition.        *)
(***************************************************************************)
\* The level of the element is one that was asked for, or the maximum.
DesiredOrMaximum == Element!DesiredOrMaximum

\* The cached level READ reports is the element's.
CacheMatchesDevice == Element!CacheMatchesDevice

\* The errors the PID equation uses are those of the last three turns, newest
\* last, as soon as the run has had three; before, errors of an earlier run
\* fill the places that are left (pid.cpp:61-76, 145-153).
ErrorsAreOfLastTurns ==
    run = "compute" => SubSeq(err, 4 - Len(readings), 3) = readings

\* The equation adds to the previous output (pid.hpp:66, "previous output
\* signal"): without its fraction, it is the level the element has had since.
\* Three exceptions: the first turn of a run, for which the element was off; the
\* second, if the first found an excess and was clamped; and a write that failed.
PreviousOutputIsApplied ==
    run = "compute" /\ Len(readings) > 1 /\ output # NaN /\ ~failed =>
        device \in {Level} \cup (IF Len(readings) = 2 THEN {Element!MAX_POWER} ELSE {})

\* Whatever the switch was told before, no turn of the control leaves the
\* element above the maximum (SwitchNode.cpp:14, pid.cpp:126).  That is also all
\* there is when a read fails in a later turn: the exception terminates the
\* program, and the element stays at the level it has (DevProc.cpp:168, 206).
NoExcessWhileControlling ==
    run = "sleep" \/ (run = "terminated" /\ readings # <<>>) =>
        failed \/ device <= Element!MAX_POWER

\* A control that had at least one turn leaves the element off, until the
\* switch is used (DevProc.cpp:175-176).  Without a turn an excess left by the
\* switch makes its setPower(0) a setPower(100).
StopTurnsOff ==
    run = "stopped" /\ user = Control /\ readings # <<>> /\ ~failed => device = Off

\* pid.hpp:81: "Clips the output signal to within specified limits".
OutputIsClipped == output \in Outputs
=============================================================================
