---------------------------- MODULE LoadCellNode ----------------------------
(***************************************************************************)
(* A load cell (src/src/hardware/LoadCellNode.cpp) between two threads     *)
(* that nothing keeps apart: MeasureScale calls getMass in a loop,         *)
(* CalibrateScale calls calibrate and ends (src/src/processes/DevProc.cpp: *)
(* 9-80).  The device's reads have a mutex; gradient, zeroValue and        *)
(* massRaw are plain members and mass is an atomic.                        *)
(*                                                                         *)
(* The device's samples are numbered in the order it takes them.  A mass   *)
(* is the three numbers linearResult computes it from; a gradient is the   *)
(* pair of calibration points it was computed from.                        *)
(***************************************************************************)
EXTENDS Naturals, Sequences

CONSTANTS
    Undefined,  \* the contents of a member nothing was assigned to
    MaxSample   \* bound: samples the device takes

ASSUME SampleBound == MaxSample \in Nat
ASSUME UndefinedIsNoSample == Undefined \notin Nat

VARIABLES
    sample,         \* the device's latest sample
    calPoints,      \* LoadCellNode::calPoints
    gradient,       \* LoadCellNode::gradient
    zeroValue,      \* LoadCellNode::zeroValue
    mass,           \* LoadCellNode::mass, the cache
    measurer,       \* where MeasureScale is
    reading,        \* massRaw, and the members that getMass has read
    calibrator,     \* where CalibrateScale is
    zeroRead,       \* the sample that zero() has read
    terminated,     \* an exception left a thread
    tare,           \* history: the zero of the last completed calibration
    since,          \* history: tare when the present reading began
    overlapped      \* history: was there a calibration during that reading?

calVars == <<calPoints, gradient, zeroValue, calibrator, zeroRead, tare>>
readVars == <<mass, measurer, reading, since>>
vars == <<sample, calVars, readVars, terminated, overlapped>>

Samples == 0..MaxSample
Values == Samples \cup {Undefined}

\* The points that CalibrateScale::run has for the module
Points == <<"empty", "loaded">>
Gradients == {Points, Undefined}

Mass(g, z, r) == [gradient |-> g, zero |-> z, raw |-> r]
Masses == [gradient : Gradients, zero : Values, raw : Values]

TypeOK ==
    /\ sample \in Samples
    /\ calPoints \in {<<>>, <<"empty">>, Points}
    /\ gradient \in Gradients
    /\ zeroValue \in Values
    /\ mass \in Masses
    /\ measurer \in {"stopped", "test", "both", "gradient", "zero", "store"}
    /\ reading \in Masses
    /\ calibrator \in {"stopped", "points", "zero", "assign"}
    /\ zeroRead \in Samples
    /\ terminated \in BOOLEAN
    /\ tare \in Values
    /\ since \in Values
    /\ overlapped \in BOOLEAN

\* gradient and zeroValue have no initialiser; mass is 0, computed from nothing.
Init ==
    /\ sample = 0
    /\ calPoints = <<>>
    /\ gradient = Undefined
    /\ zeroValue = Undefined
    /\ mass = Mass(Undefined, Undefined, Undefined)
    /\ measurer = "stopped"
    /\ reading = mass
    /\ calibrator = "stopped"
    /\ zeroRead = 0
    /\ terminated = FALSE
    /\ tare = Undefined
    /\ since = Undefined
    /\ overlapped = FALSE

\* The device takes its next sample.
Sample ==
    /\ sample < MaxSample
    /\ sample' = sample + 1
    /\ UNCHANGED <<calVars, readVars, terminated, overlapped>>

-----------------------------------------------------------------------------
(***************************************************************************)
(* MeasureScale: "test" is its sleep and the test that follows.            *)
(***************************************************************************)
Measures(from, to) == ~terminated /\ measurer = from /\ measurer' = to

\* The run begins; at its test it may find that it was told to stop.
StartMeasuring ==
    /\ Measures("stopped", "test")
    /\ UNCHANGED <<sample, calVars, mass, reading, since, terminated, overlapped>>

\* The same step is the end of a run whose read failed: stoul of an empty
\* buffer throws, and run() catches the exception and leaves its loop.
EndMeasuring ==
    /\ Measures("test", "stopped")
    /\ UNCHANGED <<sample, calVars, mass, reading, since, terminated, overlapped>>

\* massRaw = updateNode(0, 16)
UpdateRaw ==
    /\ Measures("test", "both")
    /\ reading' = Mass(Undefined, Undefined, sample)
    /\ since' = tare
    /\ overlapped' = (calibrator # "stopped")
    /\ UNCHANGED <<sample, calVars, mass, terminated>>

\* The arguments of linearResult are evaluated in any order.
ReadGradient ==
    /\ Measures("both", "zero") \/ Measures("gradient", "store")
    /\ reading' = [reading EXCEPT !.gradient = gradient]
    /\ UNCHANGED <<sample, calVars, mass, since, terminated, overlapped>>

ReadZero ==
    /\ Measures("both", "gradient") \/ Measures("zero", "store")
    /\ reading' = [reading EXCEPT !.zero = zeroValue]
    /\ UNCHANGED <<sample, calVars, mass, since, terminated, overlapped>>

\* mass.store, and the return to run()
StoreMass ==
    /\ Measures("store", "test")
    /\ mass' = reading
    /\ UNCHANGED <<sample, calVars, reading, since, terminated, overlapped>>

-----------------------------------------------------------------------------
(***************************************************************************)
(* CalibrateScale: one run at a time, for Controller::start stops, that    *)
(* is, waits for, the one before.                                          *)
(***************************************************************************)
Calibrates(from, to) == ~terminated /\ calibrator = from /\ calibrator' = to

\* Mutant: the coefficients are cleared with the points.
MutCalibrate ==
    /\ Calibrates("stopped", "points")
    /\ calPoints' = <<>>
    /\ gradient' = Undefined
    /\ zeroValue' = Undefined
    /\ overlapped' = TRUE
    /\ UNCHANGED <<sample, zeroRead, tare, readVars, terminated>>

\* calibrate() begins with clearCalPoints().
Calibrate ==
    /\ Calibrates("stopped", "points")
    /\ calPoints' = <<>>
    /\ overlapped' = TRUE
    /\ UNCHANGED <<sample, gradient, zeroValue, zeroRead, tare, readVars, terminated>>

AddCalPoint ==
    /\ Calibrates("points", "points")
    /\ Len(calPoints) < Len(Points)
    /\ calPoints' = Append(calPoints, Points[Len(calPoints) + 1])
    /\ UNCHANGED <<sample, gradient, zeroValue, zeroRead, tare, readVars,
                   terminated, overlapped>>

SetGradient ==
    /\ Calibrates("points", "zero")
    /\ Len(calPoints) = Len(Points)
    /\ gradient' = <<calPoints[1], calPoints[2]>>
    /\ UNCHANGED <<sample, calPoints, zeroValue, zeroRead, tare, readVars,
                   terminated, overlapped>>

\* zero(): updateNode(0, 16) ...
UpdateZero ==
    /\ Calibrates("zero", "assign")
    /\ zeroRead' = sample
    /\ UNCHANGED <<sample, calPoints, gradient, zeroValue, tare, readVars,
                   terminated, overlapped>>

\* ... whose exception calibrateLoadCell and run() let through: they catch
\* out_of_range only, or nothing.
UpdateZeroFails ==
    /\ Calibrates("zero", "stopped")
    /\ terminated' = TRUE
    /\ UNCHANGED <<sample, calPoints, gradient, zeroValue, zeroRead, tare, readVars,
                   overlapped>>

\* Mutant: zero() forgets to assign.
MutAssignZero ==
    /\ Calibrates("assign", "stopped")
    /\ tare' = zeroRead
    /\ UNCHANGED <<sample, calPoints, gradient, zeroValue, zeroRead, readVars,
                   terminated, overlapped>>

AssignZero ==
    /\ Calibrates("assign", "stopped")
    /\ zeroValue' = zeroRead
    /\ tare' = zeroRead
    /\ UNCHANGED <<sample, calPoints, gradient, zeroRead, readVars,
                   terminated, overlapped>>

Terminated == terminated /\ UNCHANGED vars

Next ==
    \/ Sample
    \/ StartMeasuring \/ EndMeasuring \/ UpdateRaw \/ ReadGradient \/ ReadZero
    \/ StoreMass
    \/ Calibrate \/ AddCalPoint \/ SetGradient \/ UpdateZero \/ UpdateZeroFails
    \/ AssignZero
    \/ Terminated

Spec == Init /\ [][Next]_vars

-----------------------------------------------------------------------------
(***************************************************************************)
(* Properties.                                                             *)
(***************************************************************************)
\* A mass from a reading that no calibration disturbed was computed with both
\* coefficients of the last completed calibration, from a sample not older than
\* its zero; so a calibration spoils no reading but the one in progress, and the
\* garbage before the first calibration is not mixed with it
\* (LoadCellNode.cpp:37-45, 66-84).
UndisturbedIsCalibrated ==
    [][mass' # mass /\ ~overlapped =>
         /\ mass'.zero = tare
         /\ tare # Undefined => mass'.gradient = Points /\ mass'.raw >= tare]_vars

\* Once calibrated, a cell that is being calibrated again still gives a mass
\* with the gradient of its points and a zero not older than the one it had:
\* calibrate changes the members in place and resets neither of them first.
\* The sample may be older than the zero, and the mass negative.
DisturbedIsDefined ==
    [][mass' # mass /\ since # Undefined =>
         /\ mass'.gradient = Points
         /\ mass'.zero # Undefined /\ mass'.zero >= since]_vars
=============================================================================
