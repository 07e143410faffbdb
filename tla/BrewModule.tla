----------------------------- MODULE BrewModule -----------------------------
(***************************************************************************)
(* The arbitration of one brew module's equipment                          *)
(* (src/src/hardware/BrewModule.cpp:162-342), composed with the processes  *)
(* that use it (src/src/processes/DevProc.cpp) and with the commands that  *)
(* start and stop them (src/src/core/Controller.cpp:12-44).                *)
(*                                                                         *)
(* Process gives the threads: each action below is an action of Process    *)
(* with what the thread does to the module, or a step that leaves the      *)
(* processes alone.  The vector usedList and the two integers beside it    *)
(* are shared by all workers without a lock.                               *)
(*                                                                         *)
(* A usage ID packs the process code and the equipment ID in 32 bits; both *)
(* fit in 16 bits, so here it is the pair of the two.                      *)
(***************************************************************************)
EXTENDS Integers, SequencesExt, PowerLevels

CONSTANTS
    Switches,       \* SwitchElement, SwitchPump: set a level and return
    Controls,       \* ControlTemperature, Boil: a loop with exclusive use
    Sharers,        \* loops with non-exclusive use, as the tests have them
    Main, None,
    Equipment,      \* NODE_ELEMENT, NODE_PUMP
    Uses,           \* the equipment each process uses
    SwitchLevels,   \* the levels commanded with START
    ControlLevels,  \* the levels the PID algorithm computes
    GarbagePositions,   \* what the uninitialised itrPosition may hold
    Paced           \* is a command sent only when the previous one settled?

Procs == Switches \cup Controls \cup Sharers

ASSUME NamesDiffer == Main \notin Procs /\ None \notin Procs
ASSUME ClassesDiffer == /\ Switches \cap (Controls \cup Sharers) = {}
                        /\ Controls \cap Sharers = {}
ASSUME UsesType == Uses \in [Procs -> Equipment]
ASSUME LevelsType == SwitchLevels \subseteq Nat /\ ControlLevels \subseteq 0..MAX_POWER
ASSUME PositionsType == GarbagePositions \subseteq Int

Exclusive == Switches \cup Controls
Off == 0
CachedLevels == SwitchLevels \cup ControlLevels \cup {Off, MAX_POWER}
Levels == {Written(l) : l \in CachedLevels}

PE(p, e) == <<p, e>>
P(pe) == pe[1]
E(pe) == pe[2]
Usage(p) == PE(p, Uses[p])
NoUsage == PE(None, None)

VARIABLES
    running, stopRequested, wakeRequested, handle, phase, step, target,
    terminated,             \* the processes, see Process
    usedList,               \* BrewModule::usedList
    itrPosition,            \* BrewModule::itrPosition
    relinguishingEquip,     \* BrewModule::relinguishingEquip
    cached,                 \* SwitchNode::power of each piece of equipment
    power,                  \* the level its device has
    argument,               \* Process::argument, as the integer getArg's caller takes
    level,                  \* the copy of it a switch works with
    pc,                     \* what a run() does with the module
    holding,                \* the usage that getExclusive found in its way
    command,                \* the process Controller::start is working on
    undefined               \* the behaviour is undefined from here on

pvars == <<running, stopRequested, wakeRequested, handle, phase, step,
           target, terminated>>
usage == <<usedList, itrPosition, relinguishingEquip>>
nodes == <<cached, power>>
locals == <<argument, level, holding, command, undefined>>
vars == <<pvars, usage, nodes, pc, locals>>

Proc == INSTANCE Process WITH MayStop <- {tp \in (Procs \cup {Main}) \X Procs :
                                            tp[1] # tp[2]}

Pcs == {"idle", "arg", "scan", "relinguish", "stopping", "add", "set", "loop",
        "release"}

TypeOK ==
    /\ Proc!TypeOK
    /\ usedList \in Seq([usageID : Procs \X Equipment, exclusive : BOOLEAN])
    /\ itrPosition \in Int
    /\ relinguishingEquip \in (Procs \X Equipment) \cup {NoUsage}
    /\ cached \in [Equipment -> CachedLevels]
    /\ power \in [Equipment -> Levels]
    /\ argument \in [Procs -> SwitchLevels \cup {Off}]
    /\ level \in [Procs -> SwitchLevels \cup {Off}]
    /\ pc \in [Procs -> Pcs]
    /\ holding \in [Procs -> (Procs \X Equipment) \cup {NoUsage}]
    /\ command \in Procs \cup {None}
    /\ undefined \in BOOLEAN

Init ==
    /\ Proc!Init
    /\ usedList = <<>>
    /\ itrPosition \in {0} \cup GarbagePositions
    /\ relinguishingEquip = NoUsage
    /\ cached = [e \in Equipment |-> Off]
    /\ power = [e \in Equipment |-> Off]
    /\ argument = [p \in Procs |-> Off]
    /\ level = [p \in Procs |-> Off]
    /\ pc = [p \in Procs |-> "idle"]
    /\ holding = [p \in Procs |-> NoUsage]
    /\ command = None
    /\ undefined = FALSE

-----------------------------------------------------------------------------
(***************************************************************************)
(* The thread that executes commands: Controller::start and stop.          *)
(***************************************************************************)

\* Nobody is acquiring or giving back equipment and no command is under way:
\* what the tests reach by sleeping between two commands.
Settled ==
    /\ command = None
    /\ step[Main] = "idle"
    /\ \A p \in Procs : pc[p] \in {"idle", "loop"} /\ phase[p] # "leaving"

TakesCommand ==
    /\ ~terminated
    /\ command = None
    /\ step[Main] = "idle"
    /\ Paced => Settled

\* Controller::start: setArg first, while an earlier run may still be alive.
CommandStart(p) ==
    /\ TakesCommand
    /\ \E l \in IF p \in Switches THEN SwitchLevels ELSE {Off} :
         argument' = [argument EXCEPT ![p] = l]
    /\ command' = p
    /\ UNCHANGED <<pvars, usage, nodes, pc, level, holding, undefined>>

\* Then stop(), if the process is running ...
StartStops(p) ==
    /\ command = p
    /\ Proc!StopCheck(Main, p)
    /\ UNCHANGED <<usage, nodes, pc, locals>>

\* ... and start().
StartLaunches(p) ==
    /\ command = p
    /\ Proc!Start(p)
    /\ pc' = [pc EXCEPT ![p] = IF p \in Switches THEN "arg" ELSE "scan"]
    /\ command' = None
    /\ UNCHANGED <<usage, nodes, argument, level, holding, undefined>>

\* Controller::stop.
CommandStop(p) ==
    /\ TakesCommand
    /\ Proc!StopCheck(Main, p)
    /\ UNCHANGED <<usage, nodes, pc, locals>>

-----------------------------------------------------------------------------
(***************************************************************************)
(* getExclusive and getNonExclusive, called by the set-up of p's run().    *)
(***************************************************************************)
Runs(p, from) == ~terminated /\ step[p] = "idle" /\ pc[p] = from
Becomes(p, to) == pc' = [pc EXCEPT ![p] = to]

\* unsigned int power = getArg()
GetArg(p) ==
    /\ Runs(p, "arg")
    /\ level' = [level EXCEPT ![p] = argument[p]]
    /\ Becomes(p, "scan")
    /\ UNCHANGED <<pvars, usage, nodes, argument, holding, command, undefined>>

\* getUsage: the index of the next entry for the equipment, 0 when there is
\* none, and where the search stands afterwards.
NextUsage(e) ==
    SelectInSubSeq(usedList, itrPosition + 1, Len(usedList),
                   LAMBDA u : E(u.usageID) = e)

\* begin() + itrPosition is a place of the vector, or the vector is empty.
PositionInRange == usedList = <<>> \/ itrPosition \in 0..Len(usedList)

\* An entry stands in the way of the caller if it is another process's, and
\* one of the two wants to be alone.
\* Mutant: only exclusive holders are.
MutInTheWayOfOwners(p, u) == u.usageID # Usage(p) /\ u.exclusive

InTheWay(p, u) ==
    /\ u.usageID # Usage(p)
    /\ p \in Exclusive \/ u.exclusive

GetUsage(p) ==
    /\ Runs(p, "scan")
    /\ PositionInRange
    /\ LET i == IF usedList = <<>> THEN 0 ELSE NextUsage(Uses[p])
       IN  /\ itrPosition' = i
           /\ \/ /\ i = 0
                 /\ Becomes(p, "add")
                 /\ UNCHANGED holding
              \/ /\ i > 0
                 /\ ~InTheWay(p, usedList[i])
                 /\ UNCHANGED <<pc, holding>>
              \/ /\ i > 0
                 /\ InTheWay(p, usedList[i])
                 /\ holding' = [holding EXCEPT ![p] = usedList[i].usageID]
                 /\ Becomes(p, "relinguish")
    /\ UNCHANGED <<pvars, usedList, relinguishingEquip, nodes, argument, level,
                   command, undefined>>

\* Otherwise the loop runs outside the vector and never meets its end.
GetUsageOutOfRange(p) ==
    /\ Runs(p, "scan")
    /\ ~PositionInRange
    /\ undefined' = TRUE
    /\ UNCHANGED <<pvars, usage, nodes, pc, argument, level, holding, command>>

Listed(pe) == \E i \in 1..Len(usedList) : usedList[i].usageID = pe
Erase(pe) ==
    usedList' = RemoveFirstMatch(usedList, LAMBDA u : u.usageID = pe)

\* The rest of the search starts one place earlier.
MutPositionAfter(pe) == itrPosition     \* Mutant: it is not moved back
PositionAfter(pe) == IF Listed(pe) THEN itrPosition - 1 ELSE itrPosition

MutStopHolder(p, pe) == UNCHANGED pvars     \* Mutant: nobody is stopped
StopHolder(p, pe) ==
    IF Listed(pe) /\ running[P(pe)] THEN Proc!StopCheck(p, P(pe))
                                    ELSE UNCHANGED pvars

\* relinguish: the entry is erased first, then its process is stopped.
Relinguish(p) ==
    LET pe == holding[p]
    IN  /\ Runs(p, "relinguish")
        /\ relinguishingEquip' = pe
        /\ Becomes(p, "stopping")
        /\ Erase(pe)
        /\ itrPosition' = PositionAfter(pe)
        /\ StopHolder(p, pe)
        /\ UNCHANGED <<nodes, locals>>

\* stop() has returned; the search goes on.
Relinguished(p) ==
    /\ Runs(p, "stopping")
    /\ relinguishingEquip' = NoUsage
    /\ holding' = [holding EXCEPT ![p] = NoUsage]
    /\ Becomes(p, "scan")
    /\ UNCHANGED <<pvars, usedList, itrPosition, nodes, argument, level,
                   command, undefined>>

\* usedList with p's entry: the one it has, updated, or a new one at the end.
WithUsage(p) ==
    LET new == [usageID |-> Usage(p), exclusive |-> p \in Exclusive]
        i == SelectInSeq(usedList, LAMBDA u : u.usageID = Usage(p))
    IN  IF i > 0 THEN [usedList EXCEPT ![i] = new] ELSE Append(usedList, new)

\* addUsage; a loop goes on to its first shouldStop().
AddUsage(p) ==
    /\ Runs(p, "add")
    /\ usedList' = WithUsage(p)
    /\ \/ p \in Switches /\ Becomes(p, "set") /\ UNCHANGED pvars
       \/ p \notin Switches /\ Becomes(p, "loop") /\ Proc!EnterLoop(p)
    /\ UNCHANGED <<itrPosition, relinguishingEquip, nodes, locals>>

-----------------------------------------------------------------------------
(***************************************************************************)
(* With the equipment: the rest of run().                                  *)
(***************************************************************************)
\* BrewModule::setPower and SwitchNode::setPower, in one step: only a process that
\* has the equipment calls them.  A write that fails is printed and forgotten, and the
\* device keeps the level it has.
SetPower(p, l) ==
    LET e == Uses[p]
        stored == Clamp(cached[e], l)
    IN  /\ cached' = [cached EXCEPT ![e] = stored]
        /\ power' = [power EXCEPT ![e] = Written(stored)] \/ UNCHANGED power

\* SwitchElement, SwitchPump: one setPower, after which the copy is of no use.
SwitchPower(p) ==
    /\ Runs(p, "set")
    /\ SetPower(p, level[p])
    /\ Becomes(p, "release")
    /\ level' = [level EXCEPT ![p] = Off]
    /\ UNCHANGED <<pvars, usage, argument, holding, command, undefined>>

\* One turn of a loop: the controls set the level the algorithm computes, and
\* all go to sleep.
Turn(p) ==
    /\ Proc!Sleep(p)
    /\ \/ p \in Controls /\ \E l \in ControlLevels : SetPower(p, l)
       \/ p \in Sharers /\ UNCHANGED nodes
    /\ UNCHANGED <<usage, pc, locals>>

LoopStep(p) ==
    /\ Proc!TestStop(p) \/ Proc!Timeout(p) \/ Proc!WakeTest(p)
    /\ UNCHANGED <<usage, nodes, pc, locals>>

SpuriousWake(p) == Proc!SpuriousWake(p) /\ UNCHANGED <<usage, nodes, pc, locals>>

\* Mutant: the level stays.
MutSwitchOff(p) ==
    /\ p \in Controls
    /\ Runs(p, "loop")
    /\ phase[p] = "leaving"
    /\ Becomes(p, "release")
    /\ UNCHANGED <<pvars, usage, nodes, locals>>

\* The shutdown code of the controls: setPower 0, then releaseUsage.
SwitchOff(p) ==
    /\ p \in Controls
    /\ Runs(p, "loop")
    /\ phase[p] = "leaving"
    /\ SetPower(p, Off)
    /\ Becomes(p, "release")
    /\ UNCHANGED <<pvars, usage, locals>>

\* Mutant: the entry stays in the list.
MutReleaseUsage(p) ==
    /\ Runs(p, "release")
    /\ Proc!RunReturn(p)
    /\ Becomes(p, "idle")
    /\ UNCHANGED <<usage, nodes, locals>>

\* releaseUsage, ignored for the usage being relinguished; then run() returns.
ReleaseUsage(p) ==
    /\ Runs(p, "release")
    /\ IF relinguishingEquip = Usage(p) THEN UNCHANGED usedList
                                        ELSE Erase(Usage(p))
    /\ Proc!RunReturn(p)
    /\ Becomes(p, "idle")
    /\ UNCHANGED <<itrPosition, relinguishingEquip, nodes, locals>>

\* A sharer has no usage code to give back: its entry stays.
SharerReturns(p) ==
    /\ p \in Sharers
    /\ Runs(p, "loop")
    /\ phase[p] = "leaving"
    /\ Proc!RunReturn(p)
    /\ Becomes(p, "idle")
    /\ UNCHANGED <<usage, nodes, locals>>

StopStep(t) == Proc!StopStep(t) /\ UNCHANGED <<usage, nodes, pc, locals>>

Acquiring(p) ==
    \/ GetArg(p) \/ GetUsage(p) \/ GetUsageOutOfRange(p) \/ Relinguish(p)
    \/ Relinguished(p) \/ AddUsage(p)

Using(p) ==
    \/ SwitchPower(p) \/ Turn(p) \/ LoopStep(p) \/ SwitchOff(p)
    \/ ReleaseUsage(p) \/ SharerReturns(p)

Commanding(p) ==
    CommandStart(p) \/ StartStops(p) \/ StartLaunches(p) \/ CommandStop(p)

\* p's next step works on usedList, itrPosition and relinguishingEquip.
Accesses(p) ==
    /\ step[p] = "idle"
    /\ \/ pc[p] \in {"scan", "relinguish", "stopping", "add"}
       \/ pc[p] = "release" /\ relinguishingEquip # Usage(p)

\* The module's mutex is never taken: two threads there at once may leave
\* anything behind.  In the best outcome their steps are atomic.
Race ==
    /\ ~terminated
    /\ \E p, q \in Procs : p # q /\ Accesses(p) /\ Accesses(q)
    /\ undefined' = TRUE
    /\ UNCHANGED <<pvars, usage, nodes, pc, argument, level, holding, command>>

Gone == (terminated \/ undefined) /\ UNCHANGED vars

Next ==
    \/ /\ ~undefined
       /\ \/ \E p \in Procs :
               Commanding(p) \/ Acquiring(p) \/ Using(p) \/ SpuriousWake(p)
          \/ \E t \in Procs \cup {Main} : StopStep(t)
          \/ Race
    \/ Gone

Spec == Init /\ [][Next]_vars

\* Threads are scheduled, timed waits end and a begun command is carried out.
\* Nothing obliges anybody to send a command.
Fairness ==
    /\ \A p \in Procs : WF_vars(Acquiring(p) \/ Using(p) \/ StopStep(p))
    /\ WF_vars(StopStep(Main) \/ \E p \in Procs : StartStops(p) \/ StartLaunches(p))

FairSpec == Spec /\ Fairness

-----------------------------------------------------------------------------
(***************************************************************************)
(* Properties.  Those of this part hold when commands are paced.           *)
(***************************************************************************)

\* p has its equipment: from the return of getExclusive to releaseUsage.
Holds(p) == pc[p] \in {"set", "loop", "release"}

\* BrewModule.hpp:185-187: exclusive use passes to the latest process that asks
\* for it, and the previous one is stopped: a process that has exclusive use of
\* a piece of equipment is the only one to have it.
ExclusiveAlone ==
    \A p \in Exclusive, q \in Procs :
        p # q /\ Uses[p] = Uses[q] /\ Holds(p) => ~Holds(q)

\* No two threads are about to work on usedList, itrPosition and
\* relinguishingEquip at the same time: nothing but the joins of stop() orders
\* these accesses, as the module's mutex is never taken (BrewModule.hpp:45).
NoListRace ==
    \A p, q \in Procs : Accesses(p) /\ Accesses(q) => p = q

\* The search position stays inside the vector although entries before it are
\* erased between two calls of getUsage (BrewModule.cpp:176, 333).
PositionStaysInRange == PositionInRange /\ ~undefined

\* Once a command has settled, the list says who has the equipment: every
\* running loop is listed once, and no control or switch that is over is left.
ListIsExact ==
    Settled =>
        \A p \in Procs :
            LET entries == {i \in 1..Len(usedList) : usedList[i].usageID = Usage(p)}
            IN  /\ Holds(p) => entries # {}
                /\ p \in Exclusive /\ ~Holds(p) => entries = {}
                /\ \A i, j \in entries : i = j
                /\ \A i \in entries : usedList[i].exclusive <=> p \in Exclusive

\* What a switch may leave behind: off, its argument as it was written, and, if
\* clients send levels above the maximum, the maximum.
Commanded(e) ==
    {Off} \cup {Written(argument[s]) : s \in {t \in Switches : Uses[t] = e}}
          \cup {l \in {MAX_POWER} : \E asked \in SwitchLevels : asked > MAX_POWER}

\* A level the PID algorithm computed never outlives its process: with no control
\* holding the equipment, the level is off, what a switch was commanded to set, or
\* the maximum where a level above it was to be reduced, unless the last write
\* failed, so that the device has not the level that is cached (DevProc.cpp:175-178,
\* 213-215, SwitchNode.cpp:8-28, SysHandler.cpp:122).
PowerAccounted ==
    Settled =>
        \A e \in Equipment :
            /\ \A p \in Controls : Uses[p] = e => ~Holds(p)
            /\ power[e] = Written(cached[e])
            => power[e] \in Commanded(e)

\* The lock the module implements: its holders are the processes between
\* getExclusive and releaseUsage.
Lock == INSTANCE EquipmentLock WITH
            holders <- [e \in Equipment |-> {p \in Procs : Uses[p] = e /\ Holds(p)}]

\* The arbitration implements the lock, with preemption: no process gets the
\* equipment before the ones in its way have written their last level.
ImplementsLock == Lock!Spec

\* While commands are paced, processes that stop each other for equipment never
\* join one twice, themselves or each other, nor is a thread overwritten: the
\* program is never terminated (Process.cpp:19-52).
StopsNeverCollide == ~terminated

\* Even when commands overlap, for as long as no race has ruined the list, a loop
\* that lost its entry to another process does not go on unnoticed: it has been
\* asked to stop, or the thread that erased the entry is about to ask
\* (BrewModule.cpp:333-337).
PreemptedIsStopping ==
    \A p \in Procs :
        pc[p] = "loop" /\ ~Listed(Usage(p)) =>
            \/ stopRequested[p]
            \/ \E t \in Procs \cup {Main} : step[t] = "request" /\ target[t] = p

\* A command to start p is being executed, or p is on its way to its equipment.
AwaitsEquipment(p) ==
    command = p \/ pc[p] \in {"arg", "scan", "relinguish", "stopping", "add"}

\* A process that is started gets its equipment, after the processes in its way
\* have been stopped: nobody awaits it for ever, and only addUsage, by which a
\* process begins to hold it, ends the wait (Controller.cpp:12-29,
\* BrewModule.cpp:236-255).
StartedGetsEquipment ==
    (\E p \in Procs : AwaitsEquipment(p)) ~> (\A p \in Procs : ~AwaitsEquipment(p))
=============================================================================
