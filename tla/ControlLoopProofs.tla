------------------------- MODULE ControlLoopProofs -------------------------
(***************************************************************************)
(* Theorems about ControlLoop, for any levels the switch is told to set,   *)
(* any time steps and any number of samples, with writes that may fail.    *)
(***************************************************************************)
EXTENDS ControlLoop, TemperatureProofs, SequenceTheorems

-----------------------------------------------------------------------------
(***************************************************************************)
(* The probe.                                                              *)
(***************************************************************************)
\* The control and the measuring process do nothing with the probe but call
\* getTemperature (DevProc.cpp:92, 168).
LEMMA ProbeStep == ASSUME [LoopNext]_tankVars PROVE [Next]_vars
<1>0. Control \in Readers /\ Measure \in Readers
  BY ReadersAreTwo
<1>1. ASSUME UNCHANGED vars PROVE [Next]_vars
  BY <1>1
<1>2. CASE Turn \/ HasRead
  BY <1>0, <1>2 DEF Turn, HasRead, Next
<1>3. ASSUME NEW t \in Readers, Reads(t) PROVE [Next]_vars
  BY <1>3 DEF Reads, Next
<1>4. CASE Start \/ Stop \/ SwitchCalls \/ ReadFails \/ CalcErrors \/ DoControl
  BY <1>1, <1>4 DEF Start, Stop, SwitchCalls, ReadFails, CalcErrors, DoControl
<1>5. CASE SetPower \/ ShutDown \/ HasSet \/ Wake \/ Gone
  BY <1>1, <1>5 DEF SetPower, ShutDown, HasSet, Wake, Gone, tankVars
<1>6. ASSUME NEW t, SetsPower(t) PROVE [Next]_vars
  BY <1>1, <1>6 DEF SetsPower
<1>7. CASE Sample
  BY <1>7 DEF Next
<1>8. CASE UNCHANGED tankVars
  BY <1>1, <1>8 DEF tankVars
<1> QED
  BY <1>2, <1>3, <1>4, <1>5, <1>6, <1>7, <1>8 DEF LoopNext

\* So the control loop implements the probe: what was proved of the probe with
\* any readers holds of the two readers here.
THEOREM LoopImplementsProbe == LoopSpec => Spec
<1>1. LoopInit => Init
  BY DEF LoopInit
<1> QED
  BY <1>1, ProbeStep, PTL DEF LoopSpec, Spec

-----------------------------------------------------------------------------
(***************************************************************************)
(* The element, which the two never set at the same time.                  *)
(***************************************************************************)
Setters == {Switch, Control}

ElementTypeOK ==
    /\ power \in Nat
    /\ failed \in BOOLEAN
    /\ setPc \in [Setters -> {"idle", "test", "store", "load", "write"}]
    /\ request \in [Setters -> Nat]
    /\ level \in [Setters -> Nat]

\* The two sides of the exclusive use of the element.
ExclusiveOK ==
    /\ setPc[Control] # "idle" <=> run \in {"setting", "off"}
    /\ setPc[Switch] # "idle" => run = "stopped" /\ user = Switch

\* What a call carries from one of its steps to the next
CallOK ==
    \A t \in Setters :
        /\ setPc[t] = "store" => level[t] = Element!Clamp(power, request[t])
        /\ setPc[t] \in {"load", "write"} => power \in {request[t], Element!MAX_POWER}
        /\ setPc[t] = "write" => level[t] = power

DesiredOK == Element!DesiredOrMaximum
CacheOK == Element!Idle /\ ~failed /\ power \in Element!FourDigits => power = device

TankInv == TypeOK /\ LoopTypes /\ ElementTypeOK /\ ExclusiveOK /\ CallOK /\ CacheOK /\ DesiredOK

\* A level the control asks for is a percentage.
LEMMA LevelType == ASSUME LoopTypes PROVE Level \in 0..100
BY NaNIsNoNumber DEF LoopTypes, Level, Outputs

\* Each variable keeps its type.
LEMMA LoopTypesStep ==
    ASSUME TypeOK, LoopTypes, [LoopNext]_tankVars PROVE LoopTypes'
<1> USE DEF LoopTypes, Becomes, Setters
<1>1. CASE Start
  <2>1. <<>> \in Seq(Samples) /\ Len(<<>>) = 0
    BY EmptySeq
  <2>2. readings' = <<>>
    BY <1>1 DEF Start
  <2>3. readings' \in Seq(Samples) /\ Len(readings') \in 0..3
    BY <2>1, <2>2
  <2> QED
    BY <1>1, <2>3 DEF Start, pidVars
<1>2. CASE Stop \/ SwitchCalls
  BY <1>2 DEF Stop, SwitchCalls, pidVars
<1>3. CASE Turn \/ ReadFails \/ HasRead
  BY <1>3 DEF Turn, ReadFails, HasRead, pidVars
<1>4. CASE CalcErrors
  <2>1. value[Control] \in Samples
    BY ReadersAreTwo DEF TypeOK
  <2>2. err' \in [1..3 -> Samples]
    BY <1>4, <2>1 DEF CalcErrors, PushError
  <2> DEFINE all == Append(readings, value[Control])
  <2>3. all \in Seq(Samples) /\ Len(all) = Len(readings) + 1 /\ all # <<>>
    BY <2>1, AppendProperties
  <2>4. Tail(all) \in Seq(Samples) /\ Len(Tail(all)) = Len(all) - 1
    BY <2>3, HeadTailProperties
  <2>5. readings' = IF Len(all) > 3 THEN Tail(all) ELSE all
    BY <1>4 DEF CalcErrors
  <2>6. readings' \in Seq(Samples) /\ Len(readings') \in 0..3
    BY <2>3, <2>4, <2>5, LenProperties
  <2> QED
    BY <1>4, <2>2, <2>6 DEF CalcErrors
<1>5. CASE DoControl
  <2>1. \A s \in Int : ClipSignal(s) \in Outputs
    BY DEF ClipSignal, Outputs
  <2>2. Signals \subseteq Int
    BY DEF Signals
  <2>3. ASSUME NEW ts \in TimeSteps, NEW o \in Clipped(ts) PROVE o \in Outputs \cup {NaN}
    <3>1. o = NaN \/ \E s \in Signals : o = ClipSignal(s)
      BY DEF Clipped
    <3> QED
      BY <2>1, <2>2, <3>1
  <2> QED
    BY <1>5, <2>3 DEF DoControl
<1>6. CASE SetPower \/ ShutDown \/ HasSet \/ Wake
  BY <1>6 DEF SetPower, ShutDown, HasSet, Wake, pidVars
<1>7. CASE UNCHANGED loopVars
  BY <1>7 DEF loopVars, pidVars
<1> QED
  BY <1>1, <1>2, <1>3, <1>4, <1>5, <1>6, <1>7
     DEF LoopNext, Reads, SetsPower, Gone, tankVars

\* While a call is in progress nothing is said of the device.
LEMMA Busy == ASSUME ~Element!Idle' PROVE CacheOK' /\ DesiredOK'
BY DEF CacheOK, DesiredOK, Element!DesiredOrMaximum

\* What is said of it stays true of an element nobody touches.
LEMMA Untouched ==
    ASSUME UNCHANGED elementVars, CacheOK, DesiredOK PROVE CacheOK' /\ DesiredOK'
<1>1. CacheOK'
  BY DEF elementVars, CacheOK, Element!Idle
<1>2. DesiredOK'
  BY DEF elementVars, DesiredOK, Element!DesiredOrMaximum, Element!Idle
<1> QED
  BY <1>1, <1>2

\* At most one of the two is inside setPower, so what it stored is what it
\* writes (SwitchNode.cpp:8-29).
LEMMA ElementStep ==
    ASSUME TankInv, [LoopNext]_tankVars
    PROVE  (ElementTypeOK /\ ExclusiveOK /\ CallOK /\ CacheOK /\ DesiredOK)'
<1> USE SwitchType DEF Setters
<1>0. Level \in Nat
  BY LevelType DEF TankInv
<1>12. \A t \in Setters : setPc[t] = "write" =>
          level[t] = power /\ power \in {request[t], Element!MAX_POWER}
  BY DEF TankInv, CallOK
<1>1. ASSUME NEW t \in Setters, NEW l \in Nat, Element!Call(t, l),
             setPc[Switch] = "idle" /\ setPc[Control] = "idle",
             t = Switch => run' = "stopped" /\ user' = Switch,
             t = Control => run' \in {"setting", "off"},
             t = Switch => run' \notin {"setting", "off"}
      PROVE (ElementTypeOK /\ ExclusiveOK /\ CallOK /\ CacheOK /\ DesiredOK)'
  <2> USE <1>1 DEF TankInv, ElementTypeOK, Element!Call, Element!Goto
  <2>1. ElementTypeOK'
    OBVIOUS
  <2>2. ExclusiveOK'
    BY DEF ExclusiveOK
  <2>3. \A u \in Setters : setPc'[u] \in {"idle", "test"}
    OBVIOUS
  <2>4. setPc'[t] = "test"
    OBVIOUS
  <2>5. CallOK'
    BY <2>3 DEF CallOK
  <2>6. ~Element!Idle'
    BY <2>4 DEF Element!Idle
  <2>7. CacheOK' /\ DesiredOK'
    BY <2>6, Busy
  <2> QED
    BY <2>1, <2>2, <2>5, <2>7
<1>2. \A t, u \in Setters : setPc[t] # "idle" /\ setPc[u] # "idle" => t = u
  BY DEF TankInv, ExclusiveOK
<1>3. ASSUME NEW t \in Setters,
             Element!Test(t) \/ Element!Store(t) \/ Element!Load(t), UNCHANGED loopVars
      PROVE (ElementTypeOK /\ ExclusiveOK /\ CallOK /\ CacheOK /\ DesiredOK)'
  <2> USE DEF TankInv, ElementTypeOK, Element!Goto, loopVars
  <2>1. setPc[t] # "idle" /\ setPc'[t] # "idle"
        /\ \A u \in Setters : u # t => setPc[u] = "idle" /\ setPc'[u] = "idle"
    BY <1>2, <1>3 DEF Element!Test, Element!Store, Element!Load
  <2>2. ExclusiveOK'
    BY <1>3, <2>1 DEF ExclusiveOK
  <2>3. CacheOK' /\ DesiredOK'
    <3>1. ~Element!Idle'
      BY <2>1 DEF Element!Idle
    <3> QED
      BY <3>1, Busy
  <2>4. ElementTypeOK'
    <3>1. Element!Clamp(power, request[t]) \in Nat
      BY DEF Element!Clamp, Element!MAX_POWER
    <3> QED
      BY <1>3, <3>1 DEF Element!Test, Element!Store, Element!Load
  <2>5. CallOK'
    <3>1. CASE Element!Test(t)
      <4>1. level'[t] = Element!Clamp(power', request'[t]) /\ setPc'[t] = "store"
        BY <3>1 DEF Element!Test
      <4> QED
        BY <2>1, <4>1 DEF CallOK
    <3>2. CASE Element!Store(t)
      <4>1. setPc'[t] = "load" /\ power' = level[t] /\ request' = request
            /\ level[t] = Element!Clamp(power, request[t])
        BY <3>2 DEF Element!Store, CallOK
      <4> QED
        BY <2>1, <4>1 DEF CallOK, Element!Clamp
    <3>3. CASE Element!Load(t)
      <4>1. /\ level'[t] = power' /\ setPc'[t] = "write"
            /\ power' \in {request'[t], Element!MAX_POWER}
        BY <3>3 DEF Element!Load, CallOK
      <4> QED
        BY <2>1, <4>1 DEF CallOK
    <3> QED
      BY <1>3, <3>1, <3>2, <3>3
  <2> QED
    BY <2>2, <2>3, <2>4, <2>5
<1>4. ASSUME NEW t \in Setters, Element!Write(t), user' = user,
             t = Switch => run' = run, t = Control => run' \notin {"setting", "off"}
      PROVE (ElementTypeOK /\ ExclusiveOK /\ CallOK /\ CacheOK /\ DesiredOK)'
  <2>0. UNCHANGED <<power, request>> /\ (~failed' => device' = Element!Written(level[t]))
    BY <1>4 DEF Element!Write
  <2>6. ~failed' /\ level[t] \in Element!FourDigits => device' = level[t]
    BY <1>4 DEF Element!Write, Element!Written
  <2> USE <1>4 DEF TankInv, ElementTypeOK, Element!Goto
  <2>1. setPc[t] = "write" /\ \A u \in Setters : setPc'[u] = "idle"
    BY <1>2 DEF Element!Write
  <2>2. ElementTypeOK'
    BY DEF Element!Write
  <2>3. ExclusiveOK' /\ CallOK'
    BY <2>1 DEF ExclusiveOK, CallOK
  <2>4. CacheOK'
    <3>1. level[t] = power /\ power' = power
      BY <1>12, <2>0, <2>1
    <3>2. ~failed' /\ power' \in Element!FourDigits => power' = device'
      BY <2>6, <3>1
    <3> QED
      BY <3>2 DEF CacheOK
  <2>5. DesiredOK'
    <3>1. level[t] \in {request'[t], Element!MAX_POWER}
      BY <1>12, <2>0, <2>1
    <3>2. ~failed' /\ level[t] = Element!MAX_POWER => device' = Element!MAX_POWER
      BY <2>6 DEF Element!MAX_POWER, Element!FourDigits
    <3>3. ~failed' /\ level[t] = request'[t] => device' = Element!Written(request'[t])
      BY <2>0, Zenon
    <3>4. t \in {Switch, Control}
      OBVIOUS
    <3> QED
      BY <3>1, <3>2, <3>3, <3>4, Zenon DEF DesiredOK, Element!DesiredOrMaximum
  <2> QED
    BY <2>2, <2>3, <2>4, <2>5
<1>5. ASSUME UNCHANGED elementVars,
             run \in {"setting", "off"} <=> run' \in {"setting", "off"},
             setPc[Switch] # "idle" => run' = run /\ user' = user
      PROVE (ElementTypeOK /\ ExclusiveOK /\ CallOK /\ CacheOK /\ DesiredOK)'
  <2> USE <1>5 DEF elementVars, TankInv
  <2>1. ElementTypeOK'
    BY DEF ElementTypeOK
  <2>2. ExclusiveOK'
    BY DEF ExclusiveOK
  <2>3. CallOK'
    BY DEF CallOK
  <2>4. CacheOK' /\ DesiredOK'
    BY Untouched
  <2> QED
    BY <2>1, <2>2, <2>3, <2>4
<1>6. CASE SwitchCalls
  <2>1. PICK l \in SwitchLevels : Element!Call(Switch, l)
    BY <1>6 DEF SwitchCalls
  <2> QED
    BY <1>1, <1>6, <2>1 DEF SwitchCalls, Free, TankInv, ExclusiveOK
<1>7. CASE SetPower \/ ShutDown
  <2>1. PICK l \in Nat : Element!Call(Control, l)
    BY <1>0, <1>7 DEF SetPower, ShutDown, Off
  <2>2. setPc[Switch] = "idle" /\ setPc[Control] = "idle" /\ run' \in {"setting", "off"}
    BY <1>7 DEF SetPower, ShutDown, Becomes, TankInv, ExclusiveOK
  <2> QED
    BY <1>1, <2>1, <2>2
<1>8. CASE HasSet
  BY <1>4, <1>8 DEF HasSet, Becomes
<1>9. ASSUME NEW t \in Setters, SetsPower(t)
      PROVE (ElementTypeOK /\ ExclusiveOK /\ CallOK /\ CacheOK /\ DesiredOK)'
  BY <1>3, <1>4, <1>9 DEF SetsPower, loopVars
<1>10. CASE Start \/ Stop \/ Turn \/ ReadFails \/ HasRead \/ CalcErrors \/ DoControl \/ Wake
  BY <1>5, <1>10 DEF Start, Stop, Free, Turn, ReadFails, HasRead, CalcErrors, DoControl, Wake,
     Becomes, TankInv, ExclusiveOK
<1>11. CASE UNCHANGED <<elementVars, loopVars>>
  BY <1>5, <1>11 DEF loopVars
<1> QED
  BY <1>6, <1>7, <1>8, <1>9, <1>10, <1>11 DEF LoopNext, Reads, Gone, tankVars

-----------------------------------------------------------------------------
(***************************************************************************)
(* The errors of the PID equation.                                         *)
(***************************************************************************)
ErrorsOK == \A i \in 1..Len(readings) : readings[i] = err[3 - Len(readings) + i]

\* The remembered readings, after the one of this turn
LEMMA Remembers ==
    ASSUME TypeOK, LoopTypes, CalcErrors
    PROVE  /\ Len(readings) \in 0..3
           /\ Len(readings') = IF Len(readings) = 3 THEN 3 ELSE Len(readings) + 1
           /\ \A i \in 1..(Len(readings') - 1) :
                readings'[i] = readings[Len(readings) - Len(readings') + i + 1]
           /\ readings'[Len(readings')] = value[Control]
<1>1. readings \in Seq(Samples) /\ Len(readings) \in 0..3
  BY DEF LoopTypes
<1>2. value[Control] \in Samples
  BY ReadersAreTwo DEF TypeOK
<1> DEFINE all == Append(readings, value[Control])
<1>3. /\ all \in Seq(Samples) /\ all # <<>> /\ Len(all) = Len(readings) + 1
      /\ \A i \in 1..Len(readings) : all[i] = readings[i]
      /\ all[Len(readings) + 1] = value[Control]
  BY <1>1, <1>2, AppendProperties
<1>4. /\ Len(Tail(all)) = Len(all) - 1
      /\ \A i \in 1..Len(Tail(all)) : Tail(all)[i] = all[i + 1]
  BY <1>3, HeadTailProperties
<1>5. readings' = IF Len(all) > 3 THEN Tail(all) ELSE all
  BY DEF CalcErrors
<1> HIDE DEF all
<1>6. CASE Len(readings) = 3
  <2>1. readings' = Tail(all) /\ Len(readings') = 3
    BY <1>3, <1>4, <1>5, <1>6
  <2>2. \A i \in 1..3 : readings'[i] = all[i + 1]
    BY <1>4, <2>1
  <2>3. \A i \in 1..2 : readings'[i] = readings[i + 1]
    BY <1>3, <1>6, <2>2
  <2>4. readings'[3] = value[Control]
    BY <1>3, <1>6, <2>2
  <2>5. ASSUME NEW i \in 1..(Len(readings') - 1)
        PROVE readings'[i] = readings[Len(readings) - Len(readings') + i + 1]
    <3>1. Len(readings') = 3
      BY <2>1
    <3>2. i \in 1..2
      BY <3>1
    <3>3. Len(readings) - Len(readings') + i + 1 = i + 1
      BY <1>6, <3>1, <3>2
    <3> QED
      BY <2>3, <3>2, <3>3
  <2>6. Len(readings') = 3 /\ readings'[Len(readings')] = value[Control]
    BY <2>1, <2>4
  <2> QED
    BY <1>6, <2>5, <2>6
<1>7. CASE Len(readings) # 3
  <2>1. readings' = all /\ Len(readings') = Len(readings) + 1
    BY <1>1, <1>3, <1>5, <1>7
  <2>2. \A i \in 1..Len(readings) : readings'[i] = readings[i]
    BY <1>3, <2>1
  <2>3. ASSUME NEW i \in 1..(Len(readings') - 1)
        PROVE readings'[i] = readings[Len(readings) - Len(readings') + i + 1]
    <3>1. i \in 1..Len(readings) /\ Len(readings) - Len(readings') + i + 1 = i
      BY <1>1, <2>1
    <3> QED
      BY <2>2, <3>1
  <2>4. readings'[Len(readings')] = value[Control]
    BY <1>3, <2>1
  <2> QED
    BY <1>1, <1>7, <2>1, <2>3, <2>4
<1> QED
  BY <1>6, <1>7

\* The errors follow the readings of the run, one step behind them at most.
LEMMA ErrorsStep ==
    ASSUME TypeOK, LoopTypes, ErrorsOK, [LoopNext]_tankVars PROVE ErrorsOK'
<1>1. CASE CalcErrors
  <2>1. err' = <<err[2], err[3], value[Control]>>
    BY <1>1 DEF CalcErrors, PushError
  <2>2. err'[1] = err[2] /\ err'[2] = err[3] /\ err'[3] = value[Control]
    BY <2>1
  <2> DEFINE n == Len(readings)  m == Len(readings')
  <2>3. n \in 0..3 /\ m = IF n = 3 THEN 3 ELSE n + 1
    BY <1>1, Remembers
  <2>4. ASSUME NEW i \in 1..m PROVE readings'[i] = err'[3 - m + i]
    <3>1. CASE i = m
      <4>1. readings'[m] = value[Control] /\ 3 - m + i = 3
        BY <1>1, <2>3, <3>1, Remembers
      <4> QED
        BY <2>2, <3>1, <4>1
    <3>2. CASE i # m
      <4>1. i \in 1..(m - 1) /\ n - m + i + 1 \in 1..n /\ 3 - m + i \in 1..2
        <5>1. CASE n = 3
          <6>1. m = 3
            BY <2>3, <5>1
          <6> HIDE DEF n, m
          <6>2. i \in 1..2
            BY <3>2, <6>1
          <6> QED
            BY <5>1, <6>1, <6>2
        <5>2. CASE n # 3
          <6>1. m = n + 1 /\ n \in 0..3
            BY <2>3, <5>2
          <6> HIDE DEF n, m
          <6>2. i \in 1..n
            BY <3>2, <6>1
          <6>3. n - m + i + 1 = i /\ m - 1 = n
            BY <6>1, <6>2
          <6>4. 3 - m + i \in 1..2
            BY <5>2, <6>1, <6>2
          <6> QED
            BY <6>2, <6>3, <6>4
        <5> QED
          BY <5>1, <5>2
      <4>2. readings'[i] = readings[n - m + i + 1]
        BY <1>1, <4>1, Remembers
      <4>3. readings[n - m + i + 1] = err[3 - n + (n - m + i + 1)]
        BY <4>1 DEF ErrorsOK
      <4>4. 3 - n + (n - m + i + 1) = (3 - m + i) + 1
        BY <2>3
      <4>5. err'[3 - m + i] = err[(3 - m + i) + 1]
        BY <2>2, <4>1
      <4> QED
        BY <4>2, <4>3, <4>4, <4>5
    <3> QED
      BY <3>1, <3>2
  <2> QED
    BY <2>4 DEF ErrorsOK
<1>2. CASE Start
  <2>1. Len(readings') = 0
    BY <1>2, EmptySeq DEF Start
  <2> QED
    BY <2>1 DEF ErrorsOK
<1>3. CASE UNCHANGED <<err, readings>>
  BY <1>3 DEF ErrorsOK
<1>4. CalcErrors \/ Start \/ UNCHANGED <<err, readings>>
  BY DEF LoopNext, Stop, SwitchCalls, Turn, ReadFails, Reads, HasRead, DoControl,
     SetPower, ShutDown, SetsPower, HasSet, Wake, Gone, tankVars, loopVars, pidVars
<1> QED
  BY <1>1, <1>2, <1>3, <1>4

-----------------------------------------------------------------------------
(***************************************************************************)
(* The level of the element during a run of the control.                   *)
(***************************************************************************)
Turns == Len(readings)      \* of this run, up to three

\* The level the control asks for: that of the output, or none.
Asked == IF run = "off" THEN 0 ELSE Level

\* The run has had a turn that is over.
HadTurn ==
    \/ run = "sleep"
    \/ run \in {"test", "read", "errors"} /\ Turns > 0
    \/ run \in {"compute", "set"} /\ Turns > 1

\* This call of setPower is not the first of the run.
NotFirst == (run = "setting" /\ Turns > 1) \/ (run = "off" /\ Turns > 0)

\* After its first turn the control knows no excess ...
KnownOK ==
    /\ run \in {"compute", "set", "setting", "sleep"} => Turns > 0
    /\ HadTurn => power <= 100

\* ... so a later call of setPower sets what it asks for.
SetOK ==
    /\ setPc[Control] # "idle" => request[Control] = Asked
    /\ setPc[Control] = "test" /\ NotFirst => power <= 100
    /\ setPc[Control] = "store" =>
         level[Control] \in {Asked, 100} /\ (NotFirst => level[Control] = Asked)
    /\ setPc[Control] \in {"load", "write"} =>
         power \in {Asked, 100} /\ (NotFirst => power = Asked)

\* And the element has it, unless the write failed.
DeviceOK ==
    /\ run = "sleep" \/ (run \in {"test", "read", "errors"} /\ Turns > 0) =>
         failed \/ device = Level \/ (Turns = 1 /\ device = 100)
    /\ run = "compute" /\ Turns > 1 =>
         failed \/ device = Level \/ (Turns = 2 /\ device = 100)
    /\ run = "terminated" /\ Turns > 0 => failed \/ device \in 0..100
    /\ run = "stopped" /\ user = Control /\ Turns > 0 => failed \/ device = 0

LevelOK == KnownOK /\ SetOK /\ DeviceOK

\* Outside its calls of setPower the control keeps what it knows of the level.
LEMMA LevelStepOutside ==
    ASSUME TankInv, LevelOK, [LoopNext]_tankVars,
           setPc[Control] = "idle", run' \notin {"setting", "off"}
    PROVE  (KnownOK /\ DeviceOK)'
<1> USE DEF Becomes
<1>0. Level \in 0..100 /\ Turns \in 0..3 /\ Len(<<>>) = 0
  <2>1. Len(<<>>) = 0
    BY EmptySeq
  <2> QED
    BY <2>1, LevelType DEF LoopTypes, TankInv, Turns
<1>1. CASE Start
  <2>1. run' = "test" /\ Turns' = 0
    BY <1>0, <1>1 DEF Start, Turns
  <2> QED
    BY <2>1 DEF KnownOK, DeviceOK, HadTurn
<1>2. CASE SwitchCalls
  <2>1. run' = "stopped" /\ user' = Switch
    BY <1>2 DEF SwitchCalls, Free
  <2> QED
    BY <2>1, SwitchType DEF KnownOK, DeviceOK, HadTurn
<1>3. CASE Stop \/ Turn \/ ReadFails \/ HasRead \/ Wake
  <2>1. UNCHANGED <<power, device, failed, output, readings, user>>
    BY <1>3 DEF Stop, Turn, ReadFails, HasRead, Wake, elementVars, pidVars
  <2>2. Turns' = Turns /\ Level' = Level
    BY <2>1 DEF Turns, Level
  <2> QED
    BY <1>0, <1>3, <2>1, <2>2
       DEF Stop, Turn, ReadFails, HasRead, Wake, LevelOK, KnownOK, DeviceOK, HadTurn
<1>4. CASE CalcErrors
  <2>1. Turns' = IF Turns = 3 THEN 3 ELSE Turns + 1
    BY <1>4, Remembers DEF Turns, TankInv
  <2>2. UNCHANGED <<power, device, failed, output, user>> /\ Level' = Level
    BY <1>4 DEF CalcErrors, elementVars, Level
  <2>3. run = "errors" /\ run' = "compute"
    BY <1>4 DEF CalcErrors
  <2>4. Turns' > 0 /\ (Turns' > 1 => Turns > 0) /\ (Turns = 1 => Turns' = 2)
    BY <1>0, <2>1
  <2>5. KnownOK'
    BY <2>2, <2>3, <2>4 DEF LevelOK, KnownOK, HadTurn
  <2>6. DeviceOK'
    BY <2>2, <2>3, <2>4 DEF LevelOK, DeviceOK
  <2> QED
    BY <2>5, <2>6
<1>5. CASE DoControl
  <2>1. run = "compute" /\ run' = "set" /\ Turns' = Turns /\ power' = power
    BY <1>5 DEF DoControl, elementVars, Turns
  <2> QED
    BY <2>1 DEF LevelOK, KnownOK, DeviceOK, HadTurn
<1>6. ASSUME NEW t \in Setters, SetsPower(t) PROVE (KnownOK /\ DeviceOK)'
  <2>1. t = Switch
    BY <1>6 DEF SetsPower, Setters, Element!Test, Element!Store, Element!Load, Element!Write,
       Element!Goto
  <2>2. run = "stopped" /\ user = Switch /\ UNCHANGED loopVars
    BY <1>6, <2>1 DEF SetsPower, Element!Test, Element!Store, Element!Load, Element!Write,
       Element!Goto, TankInv, ExclusiveOK
  <2> QED
    BY <2>2, SwitchType DEF loopVars, KnownOK, DeviceOK, HadTurn
<1>7. CASE UNCHANGED <<elementVars, loopVars>>
  <2>1. UNCHANGED <<power, device, failed, output, readings, user, run>>
    BY <1>7 DEF elementVars, loopVars, pidVars
  <2> QED
    BY <2>1 DEF LevelOK, KnownOK, DeviceOK, HadTurn, Turns, Level
<1>8. CASE SetPower \/ ShutDown \/ HasSet
  BY <1>8 DEF SetPower, ShutDown, HasSet, Element!Write, Element!Goto
<1> QED
  BY <1>1, <1>2, <1>3, <1>4, <1>5, <1>6, <1>7, <1>8
     DEF LoopNext, Reads, Gone, tankVars, Setters

\* Nothing but a call of the control and its steps has to do with what it sets.
LEMMA SetStepOutside ==
    ASSUME ExclusiveOK', run' \notin {"setting", "off"} PROVE SetOK'
BY DEF ExclusiveOK, SetOK

\* A call begins.
LEMMA LevelCall ==
    ASSUME TankInv, LevelOK, SetPower \/ ShutDown PROVE LevelOK'
<1>1. setPc'[Control] = "test" /\ power' = power /\ Turns' = Turns
  BY DEF SetPower, ShutDown, Element!Call, Element!Goto, TankInv, ElementTypeOK, Setters, Turns
<1>2. CASE SetPower
  <2>1. run = "set" /\ run' = "setting"
    BY <1>2 DEF SetPower, Becomes
  <2>2. request'[Control] = Level /\ Asked' = Level
    BY <1>2, <2>1 DEF SetPower, Element!Call, TankInv, ElementTypeOK, Setters, Asked, Level,
       pidVars
  <2> QED
    BY <1>1, <2>1, <2>2 DEF LevelOK, KnownOK, SetOK, DeviceOK, HadTurn, NotFirst
<1>3. CASE ShutDown
  <2>1. run = "test" /\ run' = "off"
    BY <1>3 DEF ShutDown, Becomes
  <2>2. request'[Control] = 0 /\ Asked' = 0
    BY <1>3, <2>1 DEF ShutDown, Off, Element!Call, TankInv, ElementTypeOK, Setters, Asked
  <2> QED
    BY <1>1, <2>1, <2>2 DEF LevelOK, KnownOK, SetOK, DeviceOK, HadTurn, NotFirst
<1> QED
  BY <1>2, <1>3

\* A call goes on.
LEMMA LevelSetting ==
    ASSUME TankInv, LevelOK, SetsPower(Control), run \in {"setting", "off"} PROVE LevelOK'
<1> USE SwitchType
<1>1. run' = run /\ Turns' = Turns /\ Asked' = Asked /\ NotFirst' = NotFirst
  BY DEF SetsPower, loopVars, pidVars, Turns, Asked, Level, NotFirst
<1>2. Asked \in 0..100
  BY LevelType DEF TankInv, Asked
<1>3. KnownOK' /\ DeviceOK'
  BY <1>1 DEF LevelOK, KnownOK, DeviceOK, HadTurn
<1>4. CASE Element!Test(Control)
  <2>1. /\ setPc[Control] = "test" /\ setPc'[Control] = "store"
        /\ level'[Control] = Element!Clamp(power, request[Control])
        /\ power' = power /\ request' = request
    BY <1>4 DEF Element!Test, Element!Goto, TankInv, ElementTypeOK, Setters
  <2>2. request[Control] = Asked /\ (NotFirst => power <= 100) /\ power \in Nat
    BY <2>1 DEF LevelOK, SetOK, TankInv, ElementTypeOK
  <2>3. level'[Control] \in {Asked, 100} /\ (NotFirst => level'[Control] = Asked)
    BY <2>1, <2>2 DEF Element!Clamp, Element!MAX_POWER
  <2> QED
    BY <1>1, <1>3, <2>1, <2>2, <2>3 DEF LevelOK, SetOK
<1>5. CASE Element!Store(Control)
  <2>1. /\ setPc[Control] = "store" /\ setPc'[Control] = "load"
        /\ power' = level[Control] /\ request' = request
    BY <1>5 DEF Element!Store, Element!Goto, TankInv, ElementTypeOK, Setters
  <2> QED
    BY <1>1, <1>3, <2>1 DEF LevelOK, SetOK
<1>6. CASE Element!Load(Control)
  <2>1. /\ setPc[Control] = "load" /\ setPc'[Control] = "write"
        /\ power' = power /\ request' = request
    BY <1>6 DEF Element!Load, Element!Goto, TankInv, ElementTypeOK, Setters
  <2> QED
    BY <1>1, <1>3, <2>1 DEF LevelOK, SetOK
<1> QED
  BY <1>4, <1>5, <1>6 DEF SetsPower

\* A call ends.
LEMMA LevelSet ==
    ASSUME TankInv, LevelOK, HasSet PROVE KnownOK' /\ DeviceOK'
<1>1. Element!Write(Control) /\ user' = user /\ Turns' = Turns /\ Level' = Level
  BY DEF HasSet, pidVars, Turns, Level
<1>2. setPc[Control] = "write" /\ power' = power
  BY <1>1 DEF Element!Write, Element!Goto
<1>3. level[Control] = power /\ power \in {Asked, 100} /\ (NotFirst => power = Asked)
  BY <1>2 DEF LevelOK, SetOK, TankInv, CallOK, Setters
<1>4. Level \in 0..100 /\ Asked \in 0..100
  BY LevelType DEF TankInv, Asked
<1>5. failed' \/ device' = power
  <2>1. Element!Written(power) = power
    BY <1>3, <1>4 DEF Element!Written, Element!FourDigits
  <2> QED
    BY <1>1, <1>3, <2>1 DEF Element!Write
<1>6. Turns \in 0..3
  BY DEF TankInv, LoopTypes, Turns
<1>7. CASE run = "setting"
  <2>1. run' = "sleep" /\ Asked = Level /\ Turns > 0 /\ (NotFirst <=> Turns > 1)
    BY <1>7 DEF HasSet, Becomes, Asked, NotFirst, LevelOK, KnownOK
  <2>2. KnownOK'
    BY <1>1, <1>2, <1>3, <1>4, <2>1 DEF KnownOK, HadTurn
  <2>3. failed' \/ device' = Level' \/ (Turns' = 1 /\ device' = 100)
    BY <1>1, <1>3, <1>5, <1>6, <2>1
  <2> QED
    BY <2>1, <2>2, <2>3 DEF DeviceOK
<1>8. CASE run = "off"
  <2>1. run' = "stopped" /\ Asked = 0 /\ (NotFirst <=> Turns > 0)
    BY <1>8 DEF HasSet, Becomes, Asked, NotFirst
  <2>2. Turns' > 0 => failed' \/ device' = 0
    BY <1>1, <1>3, <1>5, <2>1
  <2> QED
    BY <2>1, <2>2 DEF KnownOK, DeviceOK, HadTurn
<1> QED
  BY <1>7, <1>8 DEF HasSet, Becomes

-----------------------------------------------------------------------------
(***************************************************************************)
(* The invariant of the composition, and what follows from it.             *)
(***************************************************************************)
LoopInv == RecentInv /\ TankInv /\ ErrorsOK /\ LevelOK

\* The invariant of the loop holds at first, is kept by every step, and so is
\* always true.
LEMMA LoopInvInit == LoopInit => LoopInv
<1> SUFFICES ASSUME LoopInit PROVE LoopInv
  OBVIOUS
<1> USE DEF LoopInit
<1>1. readings = <<>> /\ <<>> \in Seq(Samples) /\ Len(<<>>) = 0
  BY EmptySeq
<1>2. RecentInv /\ TypeOK
  BY RecentInit DEF RecentInv
<1>3. LoopTypes
  <2>1. 0 \in Samples
    BY MaxSampleType DEF Samples
  <2>2. err \in [1..3 -> Samples]
    BY <2>1
  <2>3. readings \in Seq(Samples) /\ Len(readings) \in 0..3
    BY <1>1
  <2>4. output \in Outputs
    BY DEF Off, Outputs
  <2> QED
    BY <2>2, <2>3, <2>4 DEF LoopTypes, Setters
<1>4. /\ power = 0 /\ device = 0 /\ failed = FALSE
      /\ setPc = [t \in Setters |-> "idle"]
      /\ request = [t \in Setters |-> 0] /\ level = [t \in Setters |-> 0]
  BY DEF Element!Init, Setters
<1>5. ElementTypeOK /\ ExclusiveOK /\ CallOK /\ CacheOK
  <2>1. ElementTypeOK
    BY <1>4 DEF ElementTypeOK
  <2>2. \A t \in Setters : setPc[t] = "idle"
    BY <1>4
  <2>3. ExclusiveOK
    BY <2>2 DEF ExclusiveOK, Setters
  <2>4. CallOK
    BY <2>2 DEF CallOK
  <2>5. CacheOK
    BY <1>4 DEF CacheOK
  <2> QED
    BY <2>1, <2>3, <2>4, <2>5
<1>6. DesiredOK
  <2>1. Element!Written(0) = 0
    BY DEF Element!Written, Element!FourDigits
  <2> QED
    BY <1>4, <2>1 DEF DesiredOK, Element!DesiredOrMaximum, Setters
<1>7. ErrorsOK
  BY <1>1 DEF ErrorsOK
<1>8. LevelOK
  BY <1>4 DEF LevelOK, KnownOK, SetOK, DeviceOK, HadTurn, Setters
<1> QED
  BY <1>2, <1>3, <1>5, <1>6, <1>7, <1>8 DEF LoopInv, TankInv

\* Each part is kept by the lemma about it.
LEMMA LoopInvStep == LoopInv /\ [LoopNext]_tankVars => LoopInv'
<1> SUFFICES ASSUME LoopInv, [LoopNext]_tankVars PROVE LoopInv'
  OBVIOUS
<1>0. TankInv /\ ErrorsOK /\ LevelOK /\ TypeOK /\ LoopTypes
  BY DEF LoopInv, TankInv
<1>1. RecentInv' /\ TypeOK'
  BY ProbeStep, RecentStep DEF LoopInv, RecentInv
<1>2. TankInv'
  BY <1>0, <1>1, LoopTypesStep, ElementStep DEF TankInv
<1>3. ErrorsOK'
  BY <1>0, ErrorsStep
<1>4. LevelOK'
  <2>0. ExclusiveOK /\ ExclusiveOK'
    BY <1>0, <1>2 DEF TankInv
  <2>1. CASE SetPower \/ ShutDown
    BY <1>0, <2>1, LevelCall
  <2>2. CASE SetsPower(Control)
    <3>1. run \in {"setting", "off"}
      BY <2>0, <2>2, SwitchType DEF SetsPower, ExclusiveOK, Element!Test, Element!Store,
         Element!Load, Element!Goto
    <3> QED
      BY <1>0, <2>2, <3>1, LevelSetting
  <2>3. CASE HasSet
    <3>1. run' \notin {"setting", "off"}
      BY <2>3 DEF HasSet, Becomes
    <3> QED
      BY <1>0, <2>0, <2>3, <3>1, LevelSet, SetStepOutside DEF LevelOK
  <2>4. CASE run' \notin {"setting", "off"} /\ setPc[Control] = "idle"
    BY <1>0, <2>0, <2>4, LevelStepOutside, SetStepOutside DEF LevelOK
  <2>5. CASE UNCHANGED <<elementVars, run, output, readings, user>>
    <3>1. /\ UNCHANGED <<power, device, failed, setPc, request, level>>
          /\ Level' = Level /\ Asked' = Asked /\ Turns' = Turns
      BY <2>5 DEF elementVars, Level, Asked, Turns
    <3> QED
      BY <1>0, <2>5, <3>1 DEF LevelOK, KnownOK, SetOK, DeviceOK, HadTurn, NotFirst
  <2>6. ASSUME SetsPower(Switch) PROVE run' = "stopped" /\ setPc[Control] = "idle"
    BY <2>0, <2>6, SwitchType DEF SetsPower, ExclusiveOK, Element!Test, Element!Store,
       Element!Load, Element!Write, Element!Goto, loopVars
  <2>7. CASE Start \/ SwitchCalls \/ Turn \/ ReadFails \/ HasRead \/ CalcErrors \/ DoControl \/ Wake
    <3>1. run' \notin {"setting", "off"} /\ setPc[Control] = "idle"
      BY <2>0, <2>7 DEF Start, SwitchCalls, Free, Turn, ReadFails, HasRead, CalcErrors,
         DoControl, Wake, Becomes, ExclusiveOK
    <3> QED
      BY <2>4, <3>1
  <2>8. CASE Stop \/ (\E t \in Readers : Reads(t)) \/ UNCHANGED <<elementVars, loopVars>>
    BY <2>5, <2>8 DEF Stop, Reads, loopVars, pidVars
  <2>9. CASE SetsPower(Switch)
    BY <2>4, <2>6, <2>9
  <2> QED
    BY <2>1, <2>2, <2>3, <2>7, <2>8, <2>9 DEF LoopNext, Gone, tankVars
<1> QED
  BY <1>1, <1>2, <1>3, <1>4 DEF LoopInv

\* The invariant behind all theorems about the loop
LEMMA LoopInvariant == LoopSpec => []LoopInv
BY LoopInvInit, LoopInvStep, PTL DEF LoopSpec

\* The types; in particular the output is within the limits, or NaN, for good
\* (pid.cpp:118-133).
THEOREM LoopTypesCorrect == LoopSpec => []LoopTypes
<1>1. LoopInv => LoopTypes
  BY DEF LoopInv, TankInv
<1> QED
  BY <1>1, LoopInvariant, PTL

\* The errors the equation uses are those of the last turns of this run, newest
\* last, however many turns and samples there are (pid.cpp:61-76, 145-153).
THEOREM ErrorsAreLast == LoopSpec => []ErrorsAreOfLastTurns
<1>1. LoopInv => ErrorsAreOfLastTurns
  <2> SUFFICES ASSUME LoopInv PROVE SubSeq(err, 4 - Len(readings), 3) = readings
    BY DEF ErrorsAreOfLastTurns
  <2> DEFINE n == Len(readings)  last == SubSeq(err, 4 - n, 3)
  <2>1. /\ readings \in Seq(Samples) /\ n \in 0..3 /\ err \in [1..3 -> Samples]
        /\ \A i \in 1..n : readings[i] = err[3 - n + i]
    BY DEF LoopInv, TankInv, LoopTypes, ErrorsOK
  <2> HIDE DEF n
  <2>2. 4 - n \in Int /\ \A i \in (4 - n)..3 : err[i] \in Samples
    BY <2>1
  <2>3. /\ last \in Seq(Samples) /\ Len(last) = IF 4 - n <= 3 THEN 3 - (4 - n) + 1 ELSE 0
        /\ \A i \in 1..(3 - (4 - n) + 1) : last[i] = err[(4 - n) + i - 1]
    BY <2>2, SubSeqProperties
  <2>4. Len(last) = n /\ \A i \in 1..n : last[i] = err[3 - n + i]
    <3>1. 3 - (4 - n) + 1 = n /\ (n = 0 <=> ~(4 - n <= 3))
      BY <2>1
    <3>2. \A i \in 1..n : (4 - n) + i - 1 = 3 - n + i
      BY <2>1
    <3> QED
      BY <2>3, <3>1, <3>2
  <2>5. \A i \in 1..n : last[i] = readings[i]
    BY <2>1, <2>4
  <2> HIDE DEF last
  <2>6. last = readings
    BY <2>1, <2>3, <2>4, <2>5, SeqEqual DEF n
  <2> QED
    BY <2>6 DEF last, n
<1> QED
  BY <1>1, LoopInvariant, PTL

\* With one writer at a time the cached level READ reports is the element's,
\* unless the level has more digits than are written (SwitchNode.cpp:24-28).
THEOREM CacheIsDevice == LoopSpec => []CacheMatchesDevice
<1>1. LoopInv => CacheMatchesDevice
  <2>1. LoopInv => CacheOK
    BY DEF LoopInv, TankInv
  <2>2. CacheOK => CacheMatchesDevice
    BY DEF CacheOK, CacheMatchesDevice, Element!CacheMatchesDevice
  <2> QED
    BY <2>1, <2>2
<1> QED
  BY <1>1, LoopInvariant, PTL

\* And the element's level was asked for by one of the two, or is the maximum
\* (SwitchNode.cpp:12-22).
THEOREM LevelAsked == LoopSpec => []DesiredOrMaximum
<1>1. LoopInv => DesiredOrMaximum
  BY DEF LoopInv, TankInv, DesiredOK, DesiredOrMaximum
<1> QED
  BY <1>1, LoopInvariant, PTL

\* The output the equation adds to is, without its fraction, the level the element
\* has had since (pid.cpp:118-121, DevProc.cpp:170-171), but for the exceptions the
\* property names; for any switch levels, samples and time steps.
THEOREM PreviousApplied == LoopSpec => []PreviousOutputIsApplied
<1>1. LoopInv => PreviousOutputIsApplied
  <2> SUFFICES ASSUME LoopInv, run = "compute", Len(readings) > 1, output # NaN, ~failed
               PROVE  device = Level \/ (Len(readings) = 2 /\ device = 100)
    BY DEF PreviousOutputIsApplied, Element!MAX_POWER
  <2> QED
    BY DEF LoopInv, LevelOK, DeviceOK, Turns
<1> QED
  BY <1>1, LoopInvariant, PTL

\* A run that has readings had turns.
LEMMA NoReadings == ASSUME LoopInv PROVE readings # <<>> <=> Turns > 0
BY EmptySeq DEF LoopInv, TankInv, LoopTypes, Turns

\* No turn of the control leaves the element above the maximum, and that is all
\* there is when a read of the probe ends the program (DevProc.cpp:168, 206).
THEOREM NoExcess == LoopSpec => []NoExcessWhileControlling
<1>1. LoopInv => NoExcessWhileControlling
  <2> SUFFICES ASSUME LoopInv, ~failed,
                      run = "sleep" \/ (run = "terminated" /\ readings # <<>>)
               PROVE  device <= 100
    BY DEF NoExcessWhileControlling, Element!MAX_POWER
  <2>1. Level \in 0..100
    BY LevelType DEF LoopInv, TankInv
  <2>2. CASE run = "sleep"
    <3>1. device = Level \/ device = 100
      BY <2>2 DEF LoopInv, LevelOK, DeviceOK
    <3> QED
      BY <2>1, <3>1
  <2>3. CASE run = "terminated" /\ readings # <<>>
    <3>1. Turns > 0
      BY <2>3, NoReadings
    <3>2. device \in 0..100
      BY <2>3, <3>1 DEF LoopInv, LevelOK, DeviceOK
    <3> QED
      BY <3>2
  <2> QED
    BY <2>2, <2>3
<1> QED
  BY <1>1, LoopInvariant, PTL

\* A control that had a turn leaves the element off (DevProc.cpp:175-176).
THEOREM StopIsOff == LoopSpec => []StopTurnsOff
<1>1. LoopInv => StopTurnsOff
  BY NoReadings DEF LoopInv, LevelOK, DeviceOK, StopTurnsOff, Off
<1> QED
  BY <1>1, LoopInvariant, PTL

-----------------------------------------------------------------------------
(***************************************************************************)
(* A switch that is never told a level above 100.                          *)
(***************************************************************************)
\* The element has the level it was told last, by the switch, by the control's
\* last turn or by the end of the control's run; if the write did not fail.
LevelsAreObeyed ==
    ~failed =>
        /\ run = "stopped" /\ setPc[Switch] = "idle" =>
             device = IF user = Switch THEN request[Switch] ELSE Off
        /\ run = "sleep" => device = Level

\* The clamp, which looks at the level before, never finds an excess.
WithinOK ==
    /\ power \in 0..100
    /\ \A t \in Setters :
         /\ request[t] \in 0..100
         /\ setPc[t] \in {"load", "write"} => power = request[t]
    /\ run # "stopped" => user = Control
    /\ LevelsAreObeyed

\* A call of setPower asks for a percentage, whoever makes it.
LEMMA WithinCall ==
    ASSUME LoopInv, WithinOK, NEW t \in Setters, NEW l \in 0..100, Element!Call(t, l),
           setPc[Switch] = "idle" /\ setPc[Control] = "idle",
           run' # "stopped" => user' = Control,
           run' = "stopped" => t = Switch,
           run' # "sleep"
    PROVE  WithinOK'
<1> USE SwitchType DEF Setters, Element!Call, Element!Goto
<1>1. setPc \in [Setters -> {"idle", "test", "store", "load", "write"}] /\ request \in [Setters -> Nat]
  BY DEF LoopInv, TankInv, ElementTypeOK
<1>2. setPc'[t] = "test" /\ \A u \in Setters : setPc'[u] \in {"idle", "test"}
  BY <1>1
<1>3. \A u \in Setters : request'[u] \in 0..100
  BY <1>1 DEF WithinOK
<1>4. LevelsAreObeyed'
  BY <1>2 DEF LevelsAreObeyed
<1>5. power' \in 0..100
  BY DEF WithinOK
<1> QED
  BY <1>2, <1>3, <1>4, <1>5 DEF WithinOK

\* So the level that is stored, and loaded again, is the level asked for.
LEMMA WithinSetting ==
    ASSUME LoopInv, WithinOK, NEW t \in Setters,
           Element!Test(t) \/ Element!Store(t) \/ Element!Load(t), UNCHANGED loopVars
    PROVE  WithinOK'
<1> USE SwitchType DEF Setters, Element!Goto, loopVars
<1>1. setPc \in [Setters -> {"idle", "test", "store", "load", "write"}]
  BY DEF LoopInv, TankInv, ElementTypeOK
<1>2. /\ setPc[t] # "idle" /\ setPc'[t] # "idle"
      /\ \A u \in Setters : u # t => setPc[u] = "idle" /\ setPc'[u] = "idle"
  BY <1>1 DEF Element!Test, Element!Store, Element!Load, LoopInv, TankInv, ExclusiveOK
<1>3. request' = request
  BY DEF Element!Test, Element!Store, Element!Load
<1>4. power' \in 0..100 /\ (setPc'[t] \in {"load", "write"} => power' = request[t])
  <2>1. CASE Element!Test(t)
    BY <1>1, <2>1 DEF Element!Test, WithinOK
  <2>2. CASE Element!Store(t)
    <3>1. level[t] = request[t]
      <4>1. level[t] = Element!Clamp(power, request[t])
        BY <2>2 DEF Element!Store, LoopInv, TankInv, CallOK
      <4> QED
        BY <4>1 DEF WithinOK, Element!Clamp, Element!MAX_POWER
    <3> QED
      BY <2>2, <3>1 DEF Element!Store, WithinOK
  <2>3. CASE Element!Load(t)
    BY <2>3 DEF Element!Load, WithinOK
  <2> QED
    BY <2>1, <2>2, <2>3
<1>5. LevelsAreObeyed'
  <2>1. CASE t = Switch
    <3>1. run' = "stopped"
      BY <1>2, <2>1 DEF LoopInv, TankInv, ExclusiveOK
    <3> QED
      BY <1>2, <2>1, <3>1 DEF LevelsAreObeyed
  <2>2. CASE t = Control
    <3>1. run' \in {"setting", "off"}
      BY <1>2, <2>2 DEF LoopInv, TankInv, ExclusiveOK
    <3> QED
      BY <3>1 DEF LevelsAreObeyed
  <2> QED
    BY <2>1, <2>2
<1>6. run' # "stopped" => user' = Control
  BY DEF WithinOK
<1> QED
  BY <1>2, <1>3, <1>4, <1>5, <1>6 DEF WithinOK

\* And the level that is written.
LEMMA WithinWrite ==
    ASSUME LoopInv, WithinOK, NEW t \in Setters, Element!Write(t),
           UNCHANGED <<output, user>>,
           t = Switch => run' = run,
           t = Control => \/ run = "setting" /\ run' = "sleep"
                          \/ run = "off" /\ run' = "stopped"
    PROVE  WithinOK'
<1> USE SwitchType DEF Setters, Element!Goto
<1>1. setPc[t] = "write" /\ \A u \in Setters : setPc'[u] = "idle"
  BY DEF Element!Write, LoopInv, TankInv, ElementTypeOK, ExclusiveOK
<1>2. UNCHANGED <<power, request>>
  BY DEF Element!Write
<1>3. ~failed' => device' = request[t]
  <2>1. level[t] = request[t] /\ request[t] \in 0..100
    BY <1>1 DEF LoopInv, TankInv, CallOK, WithinOK
  <2>2. Element!Written(level[t]) = level[t]
    BY <2>1 DEF Element!Written, Element!FourDigits
  <2> QED
    BY <2>1, <2>2 DEF Element!Write
<1>4. t = Switch => run = "stopped" /\ user = Switch
  BY <1>1 DEF LoopInv, TankInv, ExclusiveOK
<1>5. t = Control => request[Control] = Asked /\ user = Control
  BY <1>1 DEF LoopInv, LevelOK, SetOK, WithinOK
<1>6. LevelsAreObeyed'
  <2>1. CASE t = Switch
    BY <1>2, <1>3, <1>4, <2>1 DEF LevelsAreObeyed
  <2>2. CASE t = Control
    <3>1. Level' = Level
      BY DEF Level
    <3> QED
      BY <1>3, <1>5, <2>2, <3>1 DEF LevelsAreObeyed, Asked, Off
  <2> QED
    BY <2>1, <2>2
<1>7. run' # "stopped" => user' = Control
  BY <1>4 DEF WithinOK
<1> QED
  BY <1>1, <1>2, <1>6, <1>7 DEF WithinOK

\* Every step of the loop is one of these, or leaves the element alone.
LEMMA WithinStep ==
    ASSUME SwitchLevels \subseteq 0..100, LoopInv, WithinOK, [LoopNext]_tankVars
    PROVE  WithinOK'
<1> USE SwitchType DEF Becomes
<1>0. Control \in Setters /\ Switch \in Setters /\ ExclusiveOK
  BY DEF Setters, LoopInv, TankInv
<1>1. CASE SwitchCalls
  <2>1. PICK l \in 0..100 : Element!Call(Switch, l)
    BY <1>1 DEF SwitchCalls
  <2> QED
    BY <1>0, <1>1, <2>1, WithinCall DEF SwitchCalls, Free, ExclusiveOK
<1>2. CASE SetPower \/ ShutDown
  <2>1. PICK l \in 0..100 : Element!Call(Control, l)
    BY <1>2, LevelType DEF SetPower, ShutDown, Off, LoopInv, TankInv
  <2>2. /\ run' \in {"setting", "off"} /\ user' = Control
        /\ setPc[Switch] = "idle" /\ setPc[Control] = "idle"
    BY <1>0, <1>2 DEF SetPower, ShutDown, ExclusiveOK, WithinOK
  <2> QED
    BY <1>0, <2>1, <2>2, WithinCall
<1>3. CASE HasSet
  BY <1>0, <1>3, WithinWrite DEF HasSet, pidVars
<1>4. ASSUME NEW t \in Setters, SetsPower(t) PROVE WithinOK'
  BY <1>4, WithinSetting, WithinWrite DEF SetsPower, loopVars, pidVars
<1>5. ASSUME UNCHANGED elementVars, run' # "stopped" => user' = Control,
             run' = "stopped" => run = "stopped" /\ user' = user,
             run' = "sleep" => run = "sleep" /\ output' = output
      PROVE  WithinOK'
  BY <1>5 DEF elementVars, WithinOK, LevelsAreObeyed, Level
<1>6. CASE Start \/ Stop \/ Turn \/ ReadFails \/ HasRead \/ CalcErrors \/ DoControl \/ Wake
  BY <1>5, <1>6 DEF Start, Stop, Turn, ReadFails, HasRead, CalcErrors, DoControl, Wake,
     pidVars, WithinOK
<1>7. CASE UNCHANGED <<elementVars, loopVars>>
  BY <1>5, <1>7 DEF loopVars, pidVars, WithinOK
<1> QED
  BY <1>1, <1>2, <1>3, <1>4, <1>6, <1>7 DEF LoopNext, Reads, Gone, tankVars, Setters

\* As long as nobody tells the switch a level above 100, setPower does what its
\* declaration says (SwitchNode.hpp:18-19): the element has the level it was told
\* last, and is off after a 0 and after every run of the control, one that had no
\* turn included.  switch_off shows what a level above 100 does to the next.
THEOREM WithinLimitsObeyed ==
    SwitchLevels \subseteq 0..100 => (LoopSpec => []LevelsAreObeyed)
<1> SUFFICES ASSUME SwitchLevels \subseteq 0..100 PROVE LoopSpec => []LevelsAreObeyed
  OBVIOUS
<1>1. LoopInit => WithinOK
  <2> SUFFICES ASSUME LoopInit PROVE WithinOK
    OBVIOUS
  <2>1. /\ power = 0 /\ device = 0
        /\ \A t \in Setters : setPc[t] = "idle" /\ request[t] = 0
    BY DEF LoopInit, Element!Init, Setters
  <2> QED
    BY <2>1 DEF LoopInit, WithinOK, LevelsAreObeyed, Setters, Off
<1>2. LoopInv /\ WithinOK /\ [LoopNext]_tankVars => WithinOK'
  BY WithinStep
<1>3. WithinOK => LevelsAreObeyed
  BY DEF WithinOK
<1> QED
  BY <1>1, <1>2, <1>3, LoopInvariant, PTL DEF LoopSpec
=============================================================================
