-------------------------- MODULE TemperatureProofs --------------------------
(***************************************************************************)
(* Theorems about TemperatureNode, for any set of readers and any number   *)
(* of samples.  TLC checks the same formulas on two readers.               *)
(***************************************************************************)
EXTENDS TemperatureNode, TLAPS

\* What a call that began after quiet will pass on: the sample it read, then
\* what is in the member, then what it converted, then what is in the cache.
RecentOK ==
    /\ quiet <= sample
    /\ \A t \in Readers :
         /\ pc[t] = "impedence" => raw[t] >= quiet
         /\ pc[t] = "convert" => rtdImpedence >= quiet
         /\ pc[t] = "store" => value[t] >= quiet
         /\ pc[t] = "load" => temperature >= quiet

RecentInv == TypeOK /\ RecentOK

-----------------------------------------------------------------------------
\* Initially nobody reads.
LEMMA RecentInit == Init => RecentInv
BY MaxSampleType DEF Init, RecentInv, RecentOK, TypeOK, Samples

\* The member and the cache are only overwritten by calls that are in progress,
\* and quiet only moves when there are none (TemperatureNode.cpp:33-45).
LEMMA RecentStep == ASSUME RecentInv, [Next]_vars PROVE RecentInv'
<1> USE MaxSampleType DEF RecentInv, RecentOK, TypeOK, Samples
<1>1. CASE UNCHANGED vars
  BY <1>1 DEF vars
<1>2. CASE Sample
  BY <1>2 DEF Sample
<1>3. ASSUME NEW t \in Readers, UpdateNode(t) PROVE RecentInv'
  BY <1>3 DEF UpdateNode, Goto, Quiet
<1>4. ASSUME NEW t \in Readers, StoreImpedence(t) PROVE RecentInv'
  BY <1>4 DEF StoreImpedence, Goto
<1>5. ASSUME NEW t \in Readers, Convert(t) PROVE RecentInv'
  BY <1>5 DEF Convert, Goto
<1>6. ASSUME NEW t \in Readers, StoreTemperature(t) PROVE RecentInv'
  BY <1>6 DEF StoreTemperature, Goto
<1>7. ASSUME NEW t \in Readers, Return(t) PROVE RecentInv'
  BY <1>7 DEF Return, Goto
<1> QED
  BY <1>1, <1>2, <1>3, <1>4, <1>5, <1>6, <1>7 DEF Next

\* A reading is never older than the moment at which the overlapping calls
\* began, however many threads read the probe (TemperatureNode.cpp:40-44).
THEOREM ReadingRecent == Spec => ReadingIsRecent
<1>1. ASSUME RecentInv, [Next]_vars, NEW t \in Readers,
             pc[t] = "load", pc'[t] = "idle"
      PROVE value'[t] >= quiet
  <2> USE <1>1 DEF RecentInv, RecentOK, TypeOK
  <2>1. Return(t)
    <3>1. \A u \in Readers : u # t =>
            \A from, to \in STRING : Goto(u, from, to) => pc'[t] = pc[t]
      BY DEF Goto
    <3> QED
      BY <3>1 DEF Next, vars, Sample, UpdateNode, StoreImpedence, Convert,
                  StoreTemperature, Return, Goto
  <2> QED
    BY <2>1 DEF Return
<1>2. RecentInv /\ [Next]_vars =>
        [\A t \in Readers :
           pc[t] = "load" /\ pc'[t] = "idle" => value'[t] >= quiet]_vars
  BY <1>1
<1>3. RecentInv /\ [Next]_vars => RecentInv'
  BY RecentStep
<1> QED
  BY <1>2, <1>3, RecentInit, PTL DEF Spec, ReadingIsRecent

\* What READ reports of a probe is never taken back to before that moment.
THEOREM CacheRecent == Spec => CacheIsRecent
<1>1. ASSUME RecentInv, [Next]_vars, temperature' # temperature
      PROVE temperature' >= quiet
  <2> USE <1>1 DEF RecentInv, RecentOK, TypeOK
  <2>1. PICK t \in Readers : StoreTemperature(t)
    BY DEF Next, vars, Sample, UpdateNode, StoreImpedence, Convert, Return
  <2> QED
    BY <2>1 DEF StoreTemperature, Goto
<1>2. RecentInv /\ [Next]_vars =>
        [temperature' # temperature => temperature' >= quiet]_vars
  BY <1>1
<1>3. RecentInv /\ [Next]_vars => RecentInv'
  BY RecentStep
<1> QED
  BY <1>2, <1>3, RecentInit, PTL DEF Spec, CacheIsRecent
==============================================================================
