----------------------------- MODULE SwitchNode -----------------------------
(***************************************************************************)
(* A switching device (src/src/hardware/SwitchNode.cpp): setPower clamps,  *)
(* caches the level in the atomic power and writes the cached level to the *)
(* device.  The clamp tests the cached level, not the one asked for.       *)
(*                                                                         *)
(* power is unsigned, so its test against MIN_POWER is never true.  The    *)
(* two atomic accesses and the write, which has a mutex of its own, are    *)
(* separate steps of the calling thread.                                   *)
(***************************************************************************)
EXTENDS PowerLevels

CONSTANTS
    Callers,    \* the threads that call setPower
    Requests,   \* the levels they ask for
    MayFail     \* may a write to the device fail?

VARIABLES
    power,      \* SwitchNode::power
    device,     \* the level the device was given
    failed,     \* did the last write fail?
    pc,         \* where a caller is in setPower
    request,    \* _power, of the caller's last call
    value       \* the level the caller stores, then writes; then 0

vars == <<power, device, failed, pc, request, value>>

TypeOK ==
    /\ power \in Nat
    /\ device \in Nat
    /\ failed \in BOOLEAN
    /\ pc \in [Callers -> {"idle", "test", "store", "load", "write"}]
    /\ request \in [Callers -> Nat]
    /\ value \in [Callers -> Nat]

Init ==
    /\ power = 0
    /\ device = 0
    /\ failed = FALSE
    /\ pc = [t \in Callers |-> "idle"]
    /\ request = [t \in Callers |-> 0]
    /\ value = [t \in Callers |-> 0]

Goto(t, from, to) == pc[t] = from /\ pc' = [pc EXCEPT ![t] = to]

Call(t, l) ==
    /\ Goto(t, "idle", "test")
    /\ request' = [request EXCEPT ![t] = l]
    /\ UNCHANGED <<power, device, failed, value>>

\* Mutant: an excess is left as it is, and nothing is written
MutTest(t) ==
    /\ Goto(t, "test", IF power > MAX_POWER THEN "load" ELSE "store")
    /\ value' = [value EXCEPT ![t] = Clamp(power, request[t])]
    /\ UNCHANGED <<power, device, failed, request>>

Test(t) ==
    /\ Goto(t, "test", "store")
    /\ value' = [value EXCEPT ![t] = Clamp(power, request[t])]
    /\ UNCHANGED <<power, device, failed, request>>

\* Mutant: the level is not stored.
MutStore(t) ==
    /\ Goto(t, "store", "load")
    /\ UNCHANGED <<power, device, failed, request, value>>

Store(t) ==
    /\ Goto(t, "store", "load")
    /\ power' = value[t]
    /\ UNCHANGED <<device, failed, request, value>>

\* Mutant: the level asked for is written.
MutLoad(t) ==
    /\ Goto(t, "load", "write")
    /\ value' = [value EXCEPT ![t] = request[t]]
    /\ UNCHANGED <<power, device, failed, request>>

Load(t) ==
    /\ Goto(t, "load", "write")
    /\ value' = [value EXCEPT ![t] = power]
    /\ UNCHANGED <<power, device, failed, request>>

\* writeSysNode: a failure is printed and forgotten.
Write(t) ==
    /\ Goto(t, "write", "idle")
    /\ \/ device' = Written(value[t]) /\ failed' = FALSE
       \/ MayFail /\ UNCHANGED device /\ failed' = TRUE
    /\ value' = [value EXCEPT ![t] = 0]
    /\ UNCHANGED <<power, request>>

Next ==
    \E t \in Callers :
        \/ \E l \in Requests : Call(t, l)
        \/ Test(t) \/ Store(t) \/ Load(t) \/ Write(t)

Spec == Init /\ [][Next]_vars

-----------------------------------------------------------------------------
Idle == \A t \in Callers : pc[t] = "idle"

\* The clamp never makes up a level: with no call in progress, the device has
\* the last level asked for, or MAX_POWER, unless the write of it failed.
DesiredOrMaximum ==
    Idle /\ ~failed =>
        device = MAX_POWER \/ \E t \in Callers : device = Written(request[t])

\* One writer at a time keeps the cached level that READ reports
\* (Controller.cpp:126) equal to the level of the device, clamped or not, unless
\* the level has more digits than are written (SwitchNode.cpp:24-28); a write
\* that failed is made good by the next one that does not.
CacheMatchesDevice == Idle /\ ~failed /\ power \in FourDigits => power = device

\* SwitchNode.hpp:18-19: "Sets the power level of the switching device", "The
\* desired power level".  A call that asks for 0, as the shutdown code of the
\* controls does (DevProc.cpp:175-176), leaves the device off.
OffTurnsOff == \A t \in Callers : Idle /\ request[t] = 0 => device = 0
=============================================================================
