--------------------------- MODULE LoadCellProofs ---------------------------
(***************************************************************************)
(* Theorems about LoadCellNode, for any number of samples.                 *)
(***************************************************************************)
EXTENDS LoadCellNode, SequenceTheorems, TLAPS

Reading == {"both", "gradient", "zero", "store"}
HasGradient == {"zero", "store"}
HasZero == {"gradient", "store"}

\* What the calibrator is about to assign is the gradient of its points and a
\* zero not older than the last one; the zero is the last completed one.
CalibratorOK ==
    /\ zeroValue = tare
    /\ calibrator \in {"zero", "assign"} => gradient = Points
    /\ calibrator = "assign" => /\ zeroRead <= sample
                                /\ tare # Undefined => tare <= zeroRead
    /\ tare # Undefined => gradient = Points /\ tare <= sample

\* Once calibrated, what the measurer has read is defined ...
DisturbedOK ==
    measurer \in Reading /\ since # Undefined =>
        /\ tare # Undefined /\ since <= tare
        /\ measurer \in HasGradient => reading.gradient = Points
        /\ measurer \in HasZero => reading.zero # Undefined /\ since <= reading.zero

\* ... and undisturbed, it is what the last calibration left.
UndisturbedOK ==
    measurer \in Reading /\ ~overlapped =>
        /\ calibrator = "stopped"
        /\ since = tare
        /\ measurer \in HasZero => reading.zero = tare
        /\ tare # Undefined => reading.raw # Undefined /\ tare <= reading.raw

LoadCellInv == TypeOK /\ CalibratorOK /\ DisturbedOK /\ UndisturbedOK

-----------------------------------------------------------------------------
\* Nothing has been read or calibrated.
LEMMA LoadCellInit == Init => LoadCellInv
<1> SUFFICES ASSUME Init PROVE LoadCellInv
  OBVIOUS
<1>1. 0 \in Samples
  BY SampleBound DEF Samples
<1>2. Mass(Undefined, Undefined, Undefined) \in Masses
  BY DEF Mass, Masses, Gradients, Values
<1>3. TypeOK
  BY <1>1, <1>2 DEF Init, TypeOK, Values, Gradients
<1> QED
  BY <1>3 DEF Init, LoadCellInv, CalibratorOK, DisturbedOK, UndisturbedOK, Reading

\* The steps of the measuring run keep what the calibrator relies on, and find
\* in the members what it left there (LoadCellNode.cpp:34-48).
LEMMA MeasuringStep ==
    ASSUME LoadCellInv,
           StartMeasuring \/ EndMeasuring \/ UpdateRaw \/ ReadGradient
             \/ ReadZero \/ StoreMass
    PROVE  LoadCellInv'
<1> USE SampleBound, UndefinedIsNoSample
    DEF LoadCellInv, TypeOK, CalibratorOK, DisturbedOK, UndisturbedOK, Samples,
        Values, Gradients, Mass, Masses, Reading, HasGradient, HasZero, Measures,
        calVars
<1>1. CASE StartMeasuring
  BY <1>1 DEF StartMeasuring
<1>2. CASE EndMeasuring
  BY <1>2 DEF EndMeasuring
<1>3. CASE UpdateRaw
  <2>1. /\ measurer' = "both"
        /\ reading'.raw = sample
        /\ reading' \in Masses
        /\ since' = tare
        /\ overlapped' = (calibrator # "stopped")
        /\ UNCHANGED <<sample, calVars, mass, terminated>>
    BY <1>3 DEF UpdateRaw
  <2>2. TypeOK'
    BY <2>1
  <2>3. CalibratorOK'
    BY <2>1
  <2>4. DisturbedOK'
    BY <2>1
  <2>5. ~overlapped' => calibrator' = "stopped"
    BY <1>3 DEF UpdateRaw
  <2>6. UndisturbedOK'
    BY <2>1, <2>5
  <2> QED
    BY <2>2, <2>3, <2>4, <2>6 DEF LoadCellInv
<1>4. CASE ReadGradient
  BY <1>4 DEF ReadGradient
<1>5. CASE ReadZero
  BY <1>5 DEF ReadZero
<1>6. CASE StoreMass
  BY <1>6 DEF StoreMass
<1> QED
  BY <1>1, <1>2, <1>3, <1>4, <1>5, <1>6

\* The points are added in their order, and two make the gradient.
LEMMA PointsInOrder ==
    ASSUME NEW s \in {<<>>, <<"empty">>, Points}
    PROVE  /\ Len(s) < Len(Points) =>
                Append(s, Points[Len(s) + 1]) \in {<<>>, <<"empty">>, Points}
           /\ Len(s) = Len(Points) => <<s[1], s[2]>> = Points
<1>1. CASE s = <<>>
  BY <1>1 DEF Points
<1>2. CASE s = <<"empty">>
  <2> DEFINE S == {"empty", "loaded"}
             t == Append(<<"empty">>, "loaded")
  <2>1. t = <<"empty", "loaded">>
    <3>1. <<"empty">> \in Seq(S) /\ <<"empty", "loaded">> \in Seq(S)
      OBVIOUS
    <3>2. Len(<<"empty">>) = 1 /\ <<"empty">>[1] = "empty"
      OBVIOUS
    <3>3. t \in Seq(S) /\ Len(t) = 2 /\ t[1] = "empty" /\ t[2] = "loaded"
      BY <3>1, <3>2, AppendProperties
    <3> HIDE DEF t
    <3>4. \A u \in Seq(S) : Len(u) = 2 => u = <<u[1], u[2]>>
      OBVIOUS
    <3> QED
      BY <3>3, <3>4
  <2>2. Points[Len(s) + 1] = "loaded"
    BY <1>2 DEF Points
  <2> QED
    BY <1>2, <2>1, <2>2 DEF Points
<1>3. CASE s = Points
  BY <1>3 DEF Points
<1> QED
  BY <1>1, <1>2, <1>3

\* Calibration changes the coefficients in place: the gradient first, then the
\* zero, neither of them through a value that is not one (LoadCellNode.cpp:60-85).
LEMMA CalibratingStep ==
    ASSUME LoadCellInv,
           Calibrate \/ AddCalPoint \/ SetGradient \/ UpdateZero
             \/ UpdateZeroFails \/ AssignZero
    PROVE  LoadCellInv'
<1> USE SampleBound, UndefinedIsNoSample
    DEF LoadCellInv, TypeOK, CalibratorOK, DisturbedOK, UndisturbedOK, Samples,
        Values, Gradients, Masses, Reading, HasGradient, HasZero, Calibrates,
        readVars
<1>1. CASE Calibrate
  BY <1>1 DEF Calibrate
<1>2. CASE AddCalPoint
  <2>1. calPoints' \in {<<>>, <<"empty">>, Points}
    BY <1>2, PointsInOrder DEF AddCalPoint
  <2> QED
    BY <1>2, <2>1 DEF AddCalPoint
<1>3. CASE SetGradient
  <2>1. gradient' = Points
    BY <1>3, PointsInOrder DEF SetGradient
  <2>2. TypeOK'
    <3>1. /\ calibrator' = "zero"
          /\ UNCHANGED <<sample, calPoints, zeroValue, zeroRead, tare, readVars,
                         terminated, overlapped>>
      BY <1>3 DEF SetGradient
    <3> QED
      BY <2>1, <3>1
  <2>3. CalibratorOK'
    BY <1>3, <2>1 DEF SetGradient
  <2>4. DisturbedOK'
    BY <1>3, <2>1 DEF SetGradient
  <2>5. UndisturbedOK'
    BY <1>3, <2>1 DEF SetGradient
  <2> QED
    BY <2>2, <2>3, <2>4, <2>5
<1>4. CASE UpdateZero
  BY <1>4 DEF UpdateZero
<1>5. CASE UpdateZeroFails
  BY <1>5 DEF UpdateZeroFails
<1>6. CASE AssignZero
  BY <1>6 DEF AssignZero
<1> QED
  BY <1>1, <1>2, <1>3, <1>4, <1>5, <1>6

\* Every step keeps the invariant.
LEMMA LoadCellStep == LoadCellInv /\ [Next]_vars => LoadCellInv'
<1> SUFFICES ASSUME LoadCellInv, [Next]_vars PROVE LoadCellInv'
  OBVIOUS
<1> USE SampleBound, UndefinedIsNoSample
    DEF LoadCellInv, TypeOK, CalibratorOK, DisturbedOK, UndisturbedOK, Samples,
        Values, calVars, readVars
<1>1. CASE UNCHANGED vars
  BY <1>1 DEF vars
<1>2. CASE Sample
  BY <1>2 DEF Sample
<1>3. CASE Terminated
  BY <1>3 DEF Terminated, vars
<1> QED
  BY <1>1, <1>2, <1>3, MeasuringStep, CalibratingStep DEF Next

\* The members of the load cell have the types of LoadCellNode.hpp, or are
\* undefined as long as nothing was assigned to them.
THEOREM LoadCellTypes == Spec => []TypeOK
BY LoadCellInit, LoadCellStep, PTL DEF Spec, LoadCellInv

\* Only StoreMass stores a mass, and it is the one that was read.
LEMMA MassIsRead ==
    ASSUME [Next]_vars, mass' # mass
    PROVE  measurer = "store" /\ mass' = reading
BY DEF Next, vars, calVars, readVars, Sample, StartMeasuring, EndMeasuring, UpdateRaw,
       ReadGradient, ReadZero, StoreMass, Measures, Calibrate, AddCalPoint,
       SetGradient, UpdateZero, UpdateZeroFails, AssignZero, Calibrates, Terminated

\* A mass whose reading no calibration disturbed is that of the last completed
\* calibration (LoadCellNode.cpp:37-45, 66-84).
THEOREM UndisturbedCalibrated == Spec => UndisturbedIsCalibrated
<1>1. LoadCellInv /\ [Next]_vars =>
        [mass' # mass /\ ~overlapped =>
           /\ mass'.zero = tare
           /\ tare # Undefined => mass'.gradient = Points /\ mass'.raw >= tare]_vars
  BY MassIsRead, SampleBound
     DEF LoadCellInv, TypeOK, UndisturbedOK, DisturbedOK, Reading, HasGradient, HasZero,
         Samples, Values, Masses
<1> QED
  BY <1>1, LoadCellInit, LoadCellStep, PTL DEF Spec, UndisturbedIsCalibrated

\* A mass that a further calibration disturbed still has the gradient of the
\* points and a zero not older than the one the cell had (LoadCellNode.cpp:66-84).
THEOREM DisturbedDefined == Spec => DisturbedIsDefined
<1>1. LoadCellInv /\ [Next]_vars =>
        [mass' # mass /\ since # Undefined =>
           /\ mass'.gradient = Points
           /\ mass'.zero # Undefined /\ mass'.zero >= since]_vars
  BY MassIsRead, SampleBound
     DEF LoadCellInv, TypeOK, DisturbedOK, Reading, HasGradient, HasZero,
         Samples, Values, Masses
<1> QED
  BY <1>1, LoadCellInit, LoadCellStep, PTL DEF Spec, DisturbedIsDefined
=============================================================================
