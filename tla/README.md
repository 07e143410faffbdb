# pilot-host in TLA+

pilot-host runs a small brewery: it reads temperature probes and load cells
through sysfs, switches heating elements and pumps, runs control processes on
threads of their own, and takes its commands from an MQTT broker. This directory
holds TLA+ models of it, their TLC configurations and the proofs made about
them. Paths below are relative to `src/`, the repository.

Run a configuration with `tlc -config X.cfg M`, the proofs with `tlapm M.tla` for
each module whose name ends in `Proofs`. `PROJECT.json` says which definition stands
for which lines, and which run checks what.

## 1. The system

| Component | State | Operations | Talks to |
|---|---|---|---|
| `Process` (core/Process.cpp) | `running`, `stopRequested`, `wakeRequested`, thread `th`, `argument` | `start`, `stop`, `sleepProcess`, `shouldStop` | joined by whoever stops it |
| Control processes (processes/DevProc.cpp) | none of their own but `argument` and PID context | `run()` of eight classes | `BrewModule`, `Process::stop` on themselves and, through `relinguish`, on others |
| `BrewModule` (hardware/BrewModule.cpp) | `usedList`, `itrPosition`, `relinguishingEquip`, node maps | `getExclusive`, `getNonExclusive`, `releaseUsage`, `setPower`, ... | nodes; stops processes through `Device` |
| `SwitchNode`, `TemperatureNode`, `LoadCellNode` | an atomic cache each; calibration | `setPower`, `getTemperature`, `getMass`, `calibrate` | `SysHandler` |
| `SysHandler` | table of open sysfs nodes | open, read, write | the kernel |
| `Controller` | none | `start`, `stop`, `read`, `write` | `Process`, `Device`, `BrewModule` |
| `MQTT` (network/MQTT.cpp) | `commandQueue`, `isConnected` | callbacks push, `isCommand`, `nextCommand`, `transmit` | main loop by condition variable |
| Main loop (core/Main.cpp) | the command in hand | wait, take, execute, exit | `MQTT`, `Controller` |
| `Device` (core/Device.cpp) | modules and processes by ID | register, look up | everybody |
| Topography, `MappingBuilder` | tree of `MapNode`s, `Mapping` of URLs | `newChild`, `produce`, `retrieve` | codes that `Controller` resolves |
| PID library (lib/pid.cpp), nectariio | errors and output of a PID process; gains | arithmetic on reals | `PIDProcess`, nodes |

Three kinds of threads run: main, the MQTT client's callback thread, one worker
per running process. What is hard about them:

* `stop()` is a test, two flags, a notification, a join and a reset, in five
  critical sections; several threads may be inside `stop()` of one process.
* A worker that wants equipment stops, and joins, the worker that has it.
* `usedList`, `itrPosition` and `relinguishingEquip` are shared by the workers;
  the module has a mutex (include/BrewModule.hpp:45) that no code takes.
* The queue and the condition variable that announces it have different locks.
* A probe's conversion goes through a member that all callers share; so do the two
  coefficients of a load cell, which a calibration replaces one after the other.
* The PID state belongs to the process object and survives a STOP; a parameter may be
  written between any two turns, a time step of 0 included.
* A file that could not be opened keeps descriptor 0, the standard input.
* Reads, writes and the connection may fail; most failures are printed and forgotten,
  some leave a thread as an exception that nobody catches.
* The codes in include/BrewModule.hpp and include/Process.hpp must agree with
  the order in which MappingBuilder.cpp grows a tree.

The hazards, each with its line and the properties aimed at it, are listed in
`PROJECT.json`.

## 2. Modules

| Module | Models | Built on |
|---|---|---|
| `Process` | start, stop and the life of a run | |
| `ProcessProofs` | the theorems about `Process` | `Process` |
| `PowerLevels` | what `SwitchNode::setPower` makes of a level: the clamp, the characters written | |
| `EquipmentLock` | what a brew module promises: exclusive or shared possession | |
| `BrewModule` | arbitration of equipment, with the processes and the commands | `Process` (instance), `PowerLevels`, refines `EquipmentLock` |
| `BrewModuleProofs` | the theorems about `BrewModule` | `BrewModule`, `ListFacts`, `ProcessProofs` (instance) |
| `ListFacts` | lemmas about the operators on sequences, concatenations of many, least numbers | |
| `MainLoop` | broker callback, queue, main loop, EXIT, workers that stop processes | `Process` (instance) |
| `MainLoopProofs` | the theorems about `MainLoop` | `MainLoop`, `ProcessProofs` (instance) |
| `SwitchNode` | `setPower` with its clamp and cache, step by step | `PowerLevels` |
| `TemperatureNode` | `getTemperature` with several callers | |
| `TemperatureProofs` | the theorems about `TemperatureNode` | `TemperatureNode` |
| `ControlLoop` | a tank's control: probe, PID state, element, and the switch of the element | `TemperatureNode`, `SwitchNode` (instance) |
| `ControlLoopProofs` | the theorems about `ControlLoop` | `ControlLoop`, `TemperatureProofs` |
| `LoadCellNode` | `getMass` against `calibrate` | |
| `LoadCellProofs` | the theorems about `LoadCellNode` | `LoadCellNode` |
| `Topography` | `newChild`, `produce`, lookups | |
| `TopographyProofs` | the theorems about `Topography` and `Deployment` | `Deployment`, `ListFacts` |
| `Deployment` | the program's start-up and what commands resolve to | `Topography` |
| `MCProcess`, `MCBrewModule`, `MCMainLoop`, `MCDeployment` | constants and inputs for TLC | |

Definitions named `Mut...` are used by no specification. Each is the definition
below it with one plausible mistake; substituted for it, the mistake must violate
the property named for it in `PROJECT.json`. That shows that the property
depends on what the code does there.

### Process

A step is a critical section, or the stretch between two. `step[t]` and
`target[t]` say where thread `t` is in `stop()`; `phase[p]` where `p`'s thread is
in `run()`: set-up (`start`), `while(!shouldStop())` (`test`), the body (`work`),
inside `wait_for` (`waiting`), notified or spuriously awake (`woken`), after the
loop (`leaving`). `handle[p]` is the `std::thread`: not joinable, joinable and
alive, or joinable and over. A call that returns at once (`start()` of a running
process, `stop()` of one that is not) changes nothing and is no step.

`join()` throws when the thread is not joinable, or is joined by another caller,
by itself, or by the thread it is joining; that is what glibc reports, and since
nobody catches it the program is terminated (`terminated`). The constant `MayStop`
says which thread's code can call `stop()` on which process.

The body of a run is abstract: it may throw (`BreakLoop`), which the measuring
loops catch and leave by. Time is not modelled; a timed wait ends some time.

### BrewModule

Every action is an action of `Process` with what the thread does to the module, or
leaves the processes alone. `pc[p]` follows a `run()`: read the argument (`arg`),
search the list (`scan`, one step per `getUsage`), take an entry out and stop its
process (`relinguish`, `stopping`), add one's own (`add`), `set` or `loop`,
`release`. A search that starts outside the vector makes the behaviour
`undefined`, and so may two threads at work on the list at once (`Race`): in the
best outcome their steps are atomic.

`setPower` is one step here, since whoever calls it has the equipment: it caches the
level, or the maximum if the level cached before was above it, and writes it to the
device (`cached`, `power`). The write may fail, and the device keeps its level;
`SwitchNode` has the steps in between.

`usageID` packs two 16-bit numbers and is here the pair of them. `itrPosition` is
never initialised and starts with 0 or a garbage value.

`Paced = TRUE` lets a command start only when the previous one has settled, that
is, when no process is acquiring or giving back equipment. The repository's tests
do that by sleeping between commands; nothing in the program enforces it, and
`Paced = FALSE` is the program as it is. The processes that share equipment
(`Sharers`) are those of tests/TestProcesses.cpp: no class of DevProc.cpp calls
`getNonExclusive`.

### MainLoop

`pc` is the line main() is at; `Arrive` is the callback thread, which may act
between any two steps of main(), and inside `stop()`. The processes are the module
`Process`, and any thread may stop any of them: main() for a command, a worker for
equipment (BrewModule.cpp:334) or itself because it has no module (DevProc.cpp:50).
Which worker stops which is left open here, `BrewModule` says when. `preempted`, a
history variable, has the processes a worker stopped since they were launched.
`Sent` is what clients may send after the commands received so far; it bounds the
runs, and in the theorems it is anything. A text that is no command (`Malformed`) may
come in the place of one: `parseArgs` throws out of the callback for a value that is no
number, and may crash on a text without a '/'. A URL is a process,
a readable node, or unknown to the mapping. `CMD_NULL` and `CMD_WRITE` change
nothing here and are one action, `other`. EXIT stops the processes in any order
(the code: in that of their IDs). The connection may be lost at any time; no code
connects again, and a transmission or a disconnect without one throws out of main().

### SwitchNode, TemperatureNode

Each access to an atomic or a plain member is a step of the calling thread. Levels
are numbers; samples are numbered in the order the probe takes them, and a
conversion keeps the number, since only the age of a reading is in question.
`power` is unsigned, so the test against `MIN_POWER` never holds and is left out.
The write passes `sizeof(buf)`, the size of a pointer, as the length: four characters
on the ARM the program is built for, so a level of five digits or more loses its last
ones (`Written`). A write may fail, which is printed and forgotten.
`quiet`, a history variable, is the sample at which the present calls began.

### ControlLoop

`ControlTemperature::run` (and `Boil::run`, the same code) turn by turn: test, read the
probe, push the error, compute, set the element, sleep; and after the loop
`setPower(0)`. The readers of the probe are the control and `MeasureTemperature`; the
element is set by the control and, while the control is stopped, by `SwitchElement`.
That only one of the two has the element is what `BrewModule` is about and assumed
here (`Free`).

An error is represented by the sample it was computed from. The PID equation is on
reals; its value is below, within or above the limits, or, if the time step was 0 or
the previous output was one, a NaN, which passes `clipSignal`. Outputs are in tenths;
`setPower` takes an int, which drops the fraction (`Level`), while the next output adds
to the one with its fraction. Nothing of the PID
state is reset by a START. A read that fails throws through `run()` and terminates
the program; the element keeps its level.

### LoadCellNode

`MeasureScale` calls `getMass` in a loop, `CalibrateScale` runs once per START, and
nothing keeps the two apart. A mass is the three numbers it was computed from: the
gradient, the zero, the raw sample, each `Undefined` until it was assigned. The two
coefficients are plain members that `getMass` reads in an order the compiler chooses.
A read that fails ends the measuring run, but terminates the program out of `zero()`.

### Topography, Deployment

`nodes` is the tree in order of creation, `next` and `end` the chain that
`produce` walks. `Deployment` makes MappingBuilder.cpp's calls of `newChild` one
after the other, produces the mapping, and registers the modules and the processes
of Main.cpp under the codes it yields. A module is constructed before it is registered
(`newModule`): for each of its nodes `openSysNode` adds one attribute after the other to
the `SysHandler` table (`table`) and opens its file, and `loadNode` inserts the node and,
for a probe, reads its gain and reference. Any file may be missing, `MaxMissing` of
them in all; its node keeps descriptor 0, the standard input. A probe's initial reads
of its gain and reference may throw, of a file that was opened as well: a read that fails
or returns nothing leaves `stoul` no number (`MayThrow`). A read of the standard input may
also never return, so no step of the start-up is obliged to happen. `read`
and `write` are the Controller's lookups: a return code, and which value of which object is
reached. `MCDeployment` adds to this behaviour all trees of a few
nodes.

## 3. Runs

| Run | Instance | Shows |
|---|---|---|
| `process_any` | 2 processes, any thread may stop any process, itself included | types; `running` accounts for the handle; only stops that collide terminate the program; `stop()` returns only after the run |
| `process_chain` | 3 processes, one stopper each | never terminated; every `stop()` returns; a stopped run ends |
| `module_paced` | a switch and a control of the element, a sharer of the element and one of the pump, a switch level of 101, writes that fail, paced | refines `EquipmentLock`; no race on the list; exact list; safe search position; no level of the PID outlives its control; stops never collide; a started process gets its equipment |
| `module_overlap` | a switch and a control, commands at any time | up to a race, a loop that lost its entry is being stopped |
| `module_unpaced` | the same | **violated**: exclusive use |
| `main_orders` | 2 processes, 2 readable URLs, an unknown one, 3 commands of any kind, an EXIT after 3 STARTs, malformed texts, a connection that may be lost, processes that stop each other and themselves | order of commands and answers; the last order stands unless a worker stopped the process since; EXIT joins all, and returns unless a worker is stranded; only the broker, an EXIT of an unknown URL, a malformed text or stops that collide terminate the program |
| `main_wakeup` | 1 process, 1 command | **violated**: a queued command is taken |
| `control_loop` | 2 readers, 2 samples, levels 101 and 12345 of the switch, time steps 0 and 4000, writes that fail | how recent a reading and the cache are; which errors and which output the PID equation gets; what level a turn, a stop and a failing read leave behind; cache and device agree |
| `switch_off` | 1 caller, writes that succeed | **violated**: 0 turns the device off |
| `pid_clip` | 1 sample, a time step of 0 | **violated**: the output is within its limits |
| `load_cell` | 5 samples | what a mass is computed from, with and without a calibration in progress |
| `start_up` | the program's start-up with at most two missing files; every other tree of up to 7 nodes | numbering, chain and codes; every URL reaches what it names, every process its nodes, every index its file; only a probe that is being loaded stops the start-up |

Why the bounds are enough:

* `process_any`: two processes give three threads, of which all can be in `stop()` of
  one process and two can be stopping each other. What must hold for more is proved.
  `process_chain`: three processes give a join that waits for a join.
* `module_*`: an exclusive entry, a shared one, a stale one and one of other equipment
  in one list need four processes. The switch of `module_paced` is told 101, one above
  the limit of the clamp; the control's level is one no switch is told. Where no level
  is looked at, it is off and full. One garbage value of `itrPosition`, larger than any
  list, stands for all: what counts is whether it lies in the vector. All safety
  properties, and that the lock is implemented, are proved for any number and any
  garbage.
* `main_orders`: each command is of a kind that `main()` tells apart (`OneOfEachKind`),
  not every action with every URL. Three commands are a START, another, and one that
  ends or replaces it, and leave two processes to be joined by an EXIT. Three STARTs
  start a process, then one that stops it, then the first again while it is being
  stopped, which is how a worker is stranded; only then a fourth command follows, the
  EXIT that waits for it. Two processes can join each other; a ring of three, which
  glibc does not notice and an EXIT would wait for, needs three that compete for one
  equipment, and Main.cpp wires at most two. One process is enough for the lost wake-up.
  All safety properties are proved for any number.
* `control_loop`: 101 is one above the limit of the clamp, 12345 has a digit too many
  for the write; the levels within the limits are the control's own, and one of its
  outputs has a fraction. Two samples tell an old reading from a new one, and an error
  of this run from one of the run before. Up to three readings are remembered, as many
  as errors are kept; the runs may have any number of turns. All but the bound on
  samples and levels is proved for any values.
* `switch_off`, `pid_clip`: the shortest instance in which the statement fails.
* `load_cell`: five samples are two calibrations and the readings before, during and
  after them. The device stops sampling at the bound, the readers do not stop.
* `start_up`: two missing files, of any two nodes or of the same one, show that a file
  is missed by its own node only, and that a descriptor's number depends on the files
  before it. The statements are proved for any number of missing files. Seven nodes
  reach below the deepest level (5), and leave room for siblings and for a second
  branch. A repeated child is asked for at the bound too. What the run shows of these
  trees is proved for all trees.

Deadlock is checked in every run. A program that was terminated or has returned
stutters explicitly (`Terminated`, `Gone`, `Started`).

### Fairness

A thread that can run is run, and a timed wait ends: weak fairness of each thread
(`Advance`, `StopStep`, `MainStep`, `WorkerStops`). In `Process` the end of a set-up is strongly
fair, because the abstract set-up could call `stop()` for ever, while the code's
goes through a list; `BrewModule` models the list and needs weak fairness only.
No fairness is given to commands, spurious wake-ups, exceptions or the broker.
So a wake-up that is lost in `Process` is made up for by the timeout, and one that is
lost in `MainLoop`, where the wait has no timeout, is not.

### Disagreements with the repository's own statements

Each violation run checks one sentence of the repository:

* `module_unpaced`: "Get exclusive will pass equipment control over to the latest
  control process that calls it. Previous control process will be stopped."
  (include/BrewModule.hpp:186-187). Scan and addition are not atomic, so two
  processes started together both get the element.
* `main_wakeup`: "Notify the consumer thread that there is a new command and it
  should wake up" (src/network/MQTT.cpp:90). main() tests the queue and then waits
  under a mutex the callback does not take.
* `switch_off`: "Sets the power level of the switching device", "The desired power
  level" (include/SwitchNode.hpp:18-19). The clamp tests the previous level, so a
  level above 100 is let through, and the next request, 0 included, becomes 100.
* `pid_clip`: "Clips the output signal to within specified limits"
  (include/lib/pid.hpp:81). A NaN passes both comparisons. A client that writes a time
  step of 0 once makes the output NaN for as long as the program runs, since every
  output is a sum with the previous one; as an int it is 0 on the ARM.

Others were met and show in how properties are stated, without a run of their own:

* Two callers of `stop()` that both found `running` set both go on to the join, and
  the second throws. `OnlyCollisionsTerminate` says that nothing else goes wrong.
  `NeverTerminated` of `process_chain` and the theorem `SingleStopperSafe` ask for one
  stopper per process, which the program guarantees only while commands are paced.
* So START of a control, START of its switch and a third command about the control, sent
  before the switch's worker is through its `stop()`, may terminate the program: main() and
  the worker both join. `DiesOfKnownCauses` names it, next to the broker, an EXIT of
  an unknown URL and a malformed text (network/MQTT.cpp:188, core/Main.cpp:29).
* A worker that stops a process and is overtaken by a START of it between its request and
  its join waits for the new run, since `start()` resets the request
  (core/Process.cpp:26). An EXIT that then stops the worker waits with it (`Stranded`).
* `isRunning()` stays true after a `run()` that returned by itself, until somebody
  calls `stop()` (include/Process.hpp:84 says otherwise). `LastOrderStands` is
  about that flag, and excepts what a worker has stopped for its equipment since, which
  is what include/BrewModule.hpp:187 promises.
* An EXIT whose URL is unknown leaves the loop through `continue` and stops nothing
  (core/Main.cpp:151, 172): `ExitJoinsAll` excepts it.
* A control stopped before its first turn, after a switch was told a level above 100,
  leaves the element on: its `setPower(0)` sets 100. `StopTurnsOff` is about controls
  that had a turn.
* The first errors of a run are partly those of the run before
  (`ErrorsAreOfLastTurns`), and its first output adds to the last one of that run,
  although the element was off in between (`PreviousOutputIsApplied`).
* A probe whose gain or reference cannot be opened, cannot be read or is empty ends the
  start-up, any other missing file goes unnoticed (`OnlyProbesStopStartUp`).
* `setPower(0)` after a control does not turn the element off when the level before was
  above 100, or when the write fails: `PowerAccounted` allows the maximum in the first
  case, and says nothing of a device that has not the level its node caches.
* `getTemperature` may return an older sample than the one it read
  (include/TemperatureNode.hpp:36-37 promises the latest): `ReadingIsRecent` and
  `CacheIsRecent` bound how much older.

## 4. Proofs

`ProcessProofs.tla`, for any set of processes and any `MayStop`, from the
assumptions that main() is no process, that "no process" is none, and the type of
`MayStop`:

* `TypeCorrect`: the types.
* `RunningCorrect`: `running` is set exactly while the thread handle is joinable or its
  joiner has not cleared the flag yet.
* `CollisionsTerminate`: the program is terminated only by a `stop()` that collides with
  another one; whoever stops whom, no `start()` assigns over a joinable thread.
* `StopSynchronous`: when a `stop()` that joined returns, the run is over, its thread
  is gone and the flag is clear.
* `SingleStopperSafe`: if each process has one thread that may stop it, not its own,
  and no two workers may stop each other, then no join throws and no `start()`
  assigns over a joinable thread.

None of these is inductive by itself. A joiner that finishes
must know that its handle is still joinable, or a second one could give it up; so
`HandleInv` adds that at most one thread is in or past the join of a process
(`OneJoiner`), that a thread inside `stop()` has a target (`TargetOK`), that the
handle is joinable while its joiner waits and is gone once it has joined
(`JoinerOK`), and that a run is under way exactly while the thread is alive
(`AliveOK`). `SingleInv` adds that whoever is in `stop()` was allowed to be
(`MayStopOK`) and that before its join the target is still running (`StopperOK`):
with a single stopper nobody else can end the run in between. Each invariant is
proved with one step per action.

`TemperatureProofs.tla`, for any set of readers and any number of samples:

* `ReadingRecent`, `CacheRecent`: neither a reading nor the cache goes back to before
  the moment at which the first of the present, overlapping calls found nobody
  reading. The invariant `RecentInv` follows a call through its four places: the
  sample it read, the shared member, the converted value and the cache are each
  recent while the call is about to use them. Other calls may overwrite the member
  and the cache in between, but only calls in progress do, and their samples are
  recent too; `quiet` moves only when there are none.

`MainLoopProofs.tla`, for any processes, URLs and `Sent`, from the
assumption that main() and "none" are no processes and that the three kinds of URL
differ:

* `MainTypes`: the types. `CommandsTakenInOrder`, `NothingTakenFromNothing`: what main()
  has taken, followed by the queue, is what arrived; and main() removes nothing from
  an empty queue. The invariant `QueueOK` says it index by index.
* `ExitJoins`, `OnlyKnownCauses`: after an executed EXIT no thread is left, and whoever
  stops whom, and in whatever order commands arrive, only the causes listed in
  `DiesOfKnownCauses` terminate the program. Each step of `MainLoop` is a step of
  `Process` in which any thread may stop any process, or leaves the processes alone, or
  lets an exception leave main() or the callback (`ProcessStep`). So the invariant behind
  `CollisionsTerminate` is inherited through an instance of `ProcessProofs` and not
  proved again; what is added (`ExitOK`) is that the processes EXIT has dealt with are
  neither running nor joinable, whatever the workers do.
* `OrdersAreObeyed`: between two commands every process is in the state its last START
  or STOP asked for, unless a worker has stopped it since. `OrdersOK` is what a state in
  the middle of a command knows: every process but the one the command is about (`Busy`)
  is as it was ordered, the command is the last one taken, and a `stop()` that main() is
  inside of is of its process. A worker that ends its run leaves `running` alone; one
  that stops a process clears it, and is remembered in `preempted`.
* `ReadsAreAnswered`: the n-th value published is that of the n-th READ. Inductive with
  `OrdersOK`, which says that the READ being executed is the last command taken, so its
  answer goes to the end.

`BrewModuleProofs.tla`, for any switches, controls, sharers, equipment, levels and
garbage in `itrPosition`, from the assumptions that main() and "none" are no processes,
that the three classes are disjoint, that `Uses` gives each process its equipment, that
switches are told natural numbers and controls compute levels up to `MAX_POWER`, and
that a garbage position is an integer. At any pace of the commands:

* `ModuleOfProcesses`: every step is a step of `Process` or leaves the processes alone,
  since a process stops only the one it found in its way. `RelinguishIsSynchronous` and
  the invariant of the handles (`PP!HandleInv`) are inherited with it.
* `ModuleTypes`; `PreemptedStops`: a loop that lost its entry has been told to stop, or
  is about to be. This needs that a thread's place in `run()` and in the module agree
  (`PlaceOK`), and that a usage found in the way is another process's (`HoldingOK`).

And for `Paced` commands, each theorem with `Paced` as its hypothesis, which the
program leaves to whoever sends the commands (`module_unpaced` is the other half of
the statement):

* `ListNotRaced`, `ModuleNeverCollides`, `PositionStays`, `ListExact`,
  `PowerIsAccounted`, `ExclusiveIsAlone`: all safety properties of `module_paced`.
* `ArbitrationIsALock`: the refinement of `EquipmentLock`. Each step that changes who
  holds what is an `addUsage`, a `releaseUsage` or the return of a sharer
  (`HoldersChange`), and each that changes a level is of a process that holds the
  equipment (`WriterHolds`).

None of these is inductive, and each needs the others. `PacedInv` is the invariant,
and its parts are in the order in which they rest on each other:

1. `OrderOK`: one process at a time asks for equipment, no command is under way and
   nobody stops the one that asks; a loop ends for a `stop()` that waits for it and for
   nothing else. So the accesses to the list are ordered by joins alone, and `SingleInv`
   of `ProcessProofs` holds although `SingleStopper` does not: any worker may stop any
   other, but one at a time.
2. `RelinguishOK`, `ListOK`: who has equipment is listed, or is the one whose usage is
   in `relinguishingEquip` and whose end is being waited for, and not both. That is why
   `releaseUsage`, called by the process being stopped, does not erase a second time.
3. `ScanOK`: what a search has passed is not in the caller's way, although the entry
   found is erased in the middle of it and the search resumes one place earlier.
4. `ExclusiveAlone`, `PowerOK`: a completed search met nobody in its way; a cached level
   is one a switch or the end of a control may leave (`Given`), or a control is in its
   loop, or a switch is about to set its own. What the clamp may make of such a level,
   whatever was cached before, is another such level (`ClampGives`).

`module_paced`'s instance was used to check `PacedInv` before it was proved.

`TopographyProofs.tla`, for trees of any size and any names (`TreeSpec`), and for the
program's own start-up, which is one of them (`StartUpGrowsATree`):

* `AnyChainIsComplete`, `ChainOfTheProgram`: the chain visits every node once, in the
  order of creation. `TreeOK` says that parents precede their children, that each node
  is linked to the next one created, and that siblings have different numbers below
  their parent's degree. An existing child is never linked again, since it is linked
  already or the last (`ExistingStays`).
* `AnyCodesIdentify`, `CodesOfTheProgram`: two URLs differ in their codes. Two nodes with
  the same codes would have parents with the same codes, and so on up to the root
  (`CodesDiffer`).

And for the program's start-up, whichever and however many files are missing
(`MaxMissing` is any natural number):

* `AnyMappingIs`: once produced, the mapping has exactly the URLs that `build` names, each
  with the numbers of its places among the names and with its flags.
* `AnyAccess`, `AnyRun`: every readable, writeable or runnable URL reaches what it names, and
  every process of main() is reached by one.
* `AnyProcessFinds`, `AnyIndexFinds`: every process finds its module, the nodes its `run()` asks
  for and its calibration points; each index of a node finds the file it means, or the
  standard input if just that file is missing.
* `NeverShared`, `NoModuleRefused`: no file is open twice; no module is refused and destroyed,
  since no module's ID is taken, so that only the loading of a probe can stop the start-up.

`StartUpInv` is the invariant. None of the properties is inductive: they speak of the
moment at which all is done, or of a lookup whose number comes out of the tree. Its parts:

1. `GrownOK`: the tree after `done` calls is the one the first `done` entries of `build`
   describe: each name once below its parent, numbered by its place among its siblings
   (`GrownGrows`). The calls are not followed one by one. `build` is a concatenation of blocks,
   each a module, a runnable name or a name with parameters, and `FlattenSeqPlaces` of
   `ListFacts` says which block and which place of it an index falls in.
2. `MappedOK`: the mapping is `MappingIs`, computed from that tree by `MapMaps`, where `TreeOK`
   gives the order in which the chain visits it.
3. `ModulesOK`, `ProcessesOK`: what is registered so far is what main() has given, under
   the numbers that `MappingIs` yields; these differ, so that no `insert` finds its key taken.
4. `ConstructionOK`, `FilesOK`: of the module under construction, the descriptors in its
   table and its maps are those of its own files or 0; the files opened so far are of
   attributes already passed, hence the next one is new (`FilesAreDifferent`). A descriptor,
   once given out, keeps its file, because `opened` is only appended to (`TableStays`).

`Chain`, `Ancestry` and `FlattenSeq` are recursive functions. The library's induction
theorems take an operator as a parameter and cannot be used here; the proofs follow the
recursion with a least counterexample instead (`LeastNat` of `ListFacts`), and that the
functions the library chooses exist is proved in the same way (`AncestryExists`,
`JoinsExist`).

`ControlLoopProofs.tla`, for any levels, time steps and number of samples, writes that
fail included, from the assumptions that the two readers are the readers, that the
switch is not the control, that levels are natural and that NaN is no integer:

* `LoopImplementsProbe`: the composition implements `TemperatureNode`, so `ReadingRecent`
  and `CacheRecent` hold in it.
* `ErrorsAreLast`: the PID equation has the errors of the last turns, newest last.
* `CacheIsDevice`, `LevelAsked`: the exclusive use of the element makes the cached level
  the device's, and the device's level one that was asked for or the maximum.
* `PreviousApplied`, `NoExcess`, `StopIsOff`: the output, without its fraction, is the
  level the element has had since, no turn leaves an excess, a stop turns the element off.
* `LoopTypesCorrect`: the types, so that an output is within the limits or NaN.
* `WithinLimitsObeyed`, the counterpart of the run `switch_off`: if the switch is told no
  level above 100, the element has the level it was told last, and is off after a 0 and
  after every run of the control, one without a turn included. The invariant `WithinOK`
  adds that the clamp, which looks at the previous level, never finds an excess.

The last group needs to know, at each point of a run, how much the control knows of
the cached level: nothing before its first turn, at most 100 after it (`KnownOK`),
hence what a call that is not the first of its run stores (`SetOK`), hence what the
element has (`DeviceOK`). That two calls never overlap is `ExclusiveOK`, and what a
call relies on between its steps `CallOK`.

`LoadCellProofs.tla`, for any number of samples: `LoadCellTypes`;
`UndisturbedCalibrated`, a mass no calibration disturbed has both coefficients of the
last calibration; `DisturbedDefined`, a calibrated cell that is being calibrated again
never computes with a coefficient that is undefined or older than the one it had. The
invariant follows the calibrator (`CalibratorOK`) and the coefficients the reader has
taken so far (`DisturbedOK`, `UndisturbedOK`).

Only model-checked:

* Liveness (`StopReturns`, `StopEndsRun`, `StartedGetsEquipment`, `ExitReturns`): TLAPS does
  not reason about fairness here.
* That the start-up gets to `Ready` when no file is missing: `start_up` visits such a state,
  the theorems say what holds in it.
* The violated statements, which are false.

Properties avoid `SelectSeq`, which tlapm cannot expand; `LastOrderStands` and
`AnswersInOrder` quantify over places instead. No module uses a RECURSIVE operator.

## 5. Not modelled

* The values of the PID terms and of the nectariio conversions: formulas on reals,
  whose results stand for their arguments or are any value.
* `removeSysNode`, `closeSysNode` and the destructors of `BrewModule` and of the tree:
  reached only when a module is destroyed, which `OnlyProbesStopStartUp` excludes before
  the end of the program.
* Reads that fail in `BrewModule`'s own composition with four processes: they end the
  program, and `ControlLoop` and `LoadCellNode` say in what state.
* Parsing and formatting of messages, but for a text that throws or crashes (`Malformed`);
  the broker, TLS, scripts and build files.
* `wakeProcess`, `shouldWake`, `removeModule`, `delControlProcess`: no code that runs
  before the end of the program calls them.
* `connect()` spins on a plain `bool` set by another thread; that a compiler may
  hoist the load is outside the model.
* Time: a timed wait ends some time, however long a client makes it.

## 6. Plan

The models are complete up to section 5, and every safety property of a passing run is a
theorem. Left to prove:

1. `BrewModule` at any pace. Exploration with TLC, of the instance of `module_overlap` with
   those behaviours cut off in which two accesses to the list overlap, says what a mutex taken
   for each access would give. Where at most two processes compete for each equipment, as
   Main.cpp wires them, `ExclusiveAlone`, `ListIsExact`, `PowerAccounted` and
   `PositionStaysInRange` hold at any pace. With a third, `ExclusiveAlone` fails without any
   race: `relinguish` erases an entry before it joins its process, and the third finds
   nothing in its way. `StopsNeverCollide` fails in either case, since two callers of
   `stop()` may still join one process. A proof for two competitors would need an invariant
   in which what `PacedInv` gets from the order of the commands is a property of the pair.
2. `MainLoop` over `BrewModule` instead of `Process` alone: main()'s commands are a way
   of pacing it only if nobody sends two in a row.
