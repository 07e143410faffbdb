--------------------------- MODULE TemperatureNode ---------------------------
(***************************************************************************)
(* A temperature probe (src/src/hardware/TemperatureNode.cpp:33-50) read   *)
(* by the threads of several processes: in the tank, MeasureTemperature    *)
(* fills the cache that READ reports while ControlTemperature feeds the    *)
(* same probe's value to the PID algorithm.                                *)
(*                                                                         *)
(* The probe's samples are numbered in the order the device takes them;    *)
(* the conversions keep a sample's number.  The read of the device has a   *)
(* mutex, rtdImpedence is a plain member, temperature an atomic.           *)
(***************************************************************************)
EXTENDS Naturals

CONSTANTS
    Readers,    \* the threads that call getTemperature
    MaxSample   \* bound: samples the device takes

ASSUME MaxSampleType == MaxSample \in Nat

VARIABLES
    sample,         \* the device's latest sample
    rtdImpedence,   \* TemperatureNode::rtdImpedence
    temperature,    \* TemperatureNode::temperature, the cache
    pc,             \* where a reader is in getTemperature
    raw,            \* rawVal, the sample it has read; 0 when it is of no more use
    value,          \* tempVal, then the result of the call
    quiet           \* history: the sample when the present calls began, the
                    \* first of them finding nobody else reading

vars == <<sample, rtdImpedence, temperature, pc, raw, value, quiet>>

Samples == 0..MaxSample

TypeOK ==
    /\ sample \in Samples
    /\ rtdImpedence \in Samples
    /\ temperature \in Samples
    /\ pc \in [Readers -> {"idle", "impedence", "convert", "store", "load"}]
    /\ raw \in [Readers -> Samples]
    /\ value \in [Readers -> Samples]
    /\ quiet \in Samples

\* Sample 0 stands for the initial contents.
Init ==
    /\ sample = 0
    /\ rtdImpedence = 0
    /\ temperature = 0
    /\ pc = [t \in Readers |-> "idle"]
    /\ raw = [t \in Readers |-> 0]
    /\ value = [t \in Readers |-> 0]
    /\ quiet = 0

\* The device takes its next sample.
Sample ==
    /\ sample < MaxSample
    /\ sample' = sample + 1
    /\ UNCHANGED <<rtdImpedence, temperature, pc, raw, value, quiet>>

Goto(t, from, to) == pc[t] = from /\ pc' = [pc EXCEPT ![t] = to]

Quiet == IF \A t \in Readers : pc[t] = "idle" THEN sample ELSE quiet

\* Mutant: a read that fails counts as 0.
MutUpdateNode(t) ==
    /\ Goto(t, "idle", "impedence")
    /\ \E r \in {0, sample} : raw' = [raw EXCEPT ![t] = r]
    /\ quiet' = Quiet
    /\ UNCHANGED <<sample, rtdImpedence, temperature, value>>

\* getTemperature: rawVal = updateNode(0, 16)
UpdateNode(t) ==
    /\ Goto(t, "idle", "impedence")
    /\ raw' = [raw EXCEPT ![t] = sample]
    /\ quiet' = Quiet
    /\ UNCHANGED <<sample, rtdImpedence, temperature, value>>

\* Mutant: the impedence of an earlier call is kept.
MutStoreImpedence(t) ==
    /\ Goto(t, "impedence", "convert")
    /\ UNCHANGED <<sample, rtdImpedence, temperature, raw, value, quiet>>

\* rtdImpedence = rawToImpedence(rawVal)
StoreImpedence(t) ==
    /\ Goto(t, "impedence", "convert")
    /\ rtdImpedence' = raw[t]
    /\ raw' = [raw EXCEPT ![t] = 0]
    /\ UNCHANGED <<sample, temperature, value, quiet>>

\* tempVal = impTempConversion(..., rtdImpedence, ...)
Convert(t) ==
    /\ Goto(t, "convert", "store")
    /\ value' = [value EXCEPT ![t] = rtdImpedence]
    /\ UNCHANGED <<sample, rtdImpedence, temperature, raw, quiet>>

\* temperature.store(tempVal)
StoreTemperature(t) ==
    /\ Goto(t, "store", "load")
    /\ temperature' = value[t]
    /\ UNCHANGED <<sample, rtdImpedence, raw, value, quiet>>

\* return temperature.load()
Return(t) ==
    /\ Goto(t, "load", "idle")
    /\ value' = [value EXCEPT ![t] = temperature]
    /\ UNCHANGED <<sample, rtdImpedence, temperature, raw, quiet>>

\* Once the bound on samples is reached the readers go on with the last one.
Next ==
    \/ Sample
    \/ \E t \in Readers :
         \/ UpdateNode(t) \/ StoreImpedence(t) \/ Convert(t)
         \/ StoreTemperature(t) \/ Return(t)

Spec == Init /\ [][Next]_vars

------------------------------------------------------------------------------
\* rtdImpedence and the cache belong to all callers, so a call may well return an
\* older sample than the one it read.  How old it can be is bounded: each value
\* passed on through them was read after the moment at which the first of the
\* present, overlapping calls found nobody reading (TemperatureNode.cpp:33-45).
ReadingIsRecent ==
    [][\A t \in Readers :
         pc[t] = "load" /\ pc'[t] = "idle" => value'[t] >= quiet]_vars

\* The same holds of the cache that READ reports, and that nobody else checks: a
\* store may take it back, but never to before that moment.
CacheIsRecent == [][temperature' # temperature => temperature' >= quiet]_vars
==============================================================================
