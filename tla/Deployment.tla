----------------------------- MODULE Deployment -----------------------------
(***************************************************************************)
(* The start-up of the program, before it connects: MappingBuilder::build  *)
(* (src/src/core/MappingBuilder.cpp) grows the tree of this device and     *)
(* produces the mapping; main() (src/src/core/Main.cpp:49-127) then        *)
(* registers three brew modules and eighteen processes in Device, under    *)
(* the machine codes of their URLs.  Each module opens the sysfs files of  *)
(* its nodes (src/src/hardware/BrewModule.cpp, src/src/core/SysHandler.    *)
(* cpp), any of which may be missing.  Then Controller's read and write    *)
(* (src/src/core/Controller.cpp:46-174) find modules, nodes, processes and *)
(* parameters again by the numbers written in BrewModule.hpp, Process.hpp  *)
(* and DevProc.cpp, which nothing ties to the order of the tree.           *)
(***************************************************************************)
EXTENDS Topography

CONSTANT MaxMissing     \* bound: files that cannot be opened

ASSUME MaxMissingType == MaxMissing \in Nat

VARIABLES
    done,               \* how many steps of the start-up are done
    brewModules,        \* Device::brewModules: by ID, the module's name and its
                        \* node maps, as one map from prefix and label
    controlProcesses,   \* Device::controlProcesses: by ID, the process's name
    loaded,             \* the node maps of the module that is being constructed
    loading,            \* the place of its next node in main()'s list
    table,              \* SysHandler::sysNodes of that node: its descriptors
    opened,             \* the files opened, in the order of their descriptors
    missing,            \* the files that could not be opened
    terminated          \* an exception left main(), or a module was destroyed

files == <<opened, missing>>
construction == <<loaded, loading, table>>
devices == <<brewModules, controlProcesses>>
allVars == <<vars, done, devices, construction, files, terminated>>

-----------------------------------------------------------------------------
(***************************************************************************)
(* MappingBuilder::build, as the sequence of its newChild calls.           *)
(***************************************************************************)
Child(parent, name, flags) == [parent |-> parent, name |-> name, flags |-> flags]

\* Mutant: without the inactive node
MutModuleTree(m, inactive) ==
    LET active == SelectSeq(<<"temp", "weight", "element", "pump">>,
                            LAMBDA n : n # inactive)
    IN  <<Child(<<"device">>, m, {})>> \o
        [k \in 1..Len(active) |-> Child(<<"device", m>>, active[k], {"read"})]

ModuleTree(m, inactive) ==
    <<Child(<<"device">>, m, {})>> \o
    [k \in 1..4 |->
       LET name == <<"temp", "weight", "element", "pump">>[k]
       IN  Child(<<"device", m>>, name, IF name = inactive THEN {} ELSE {"read"})]

Runnable(name) == <<Child(<<"process">>, name, {"run"})>>

\* newChild of the process, and addProc: its parameters
WithParams(name) ==
    Runnable(name) \o
    [k \in 1..6 |->
       LET par == <<"desc", "sp", "kp", "ki", "kd", "ts">>[k]
       IN  Child(<<"process", name>>, par,
                 IF par = "desc" THEN {"read"} ELSE {"read", "write"})]

trees ==
    <<  <<Child(<<>>, "device", {})>>,
        ModuleTree("hlt", "none"), ModuleTree("mash", "element"),
        ModuleTree("kettle", "pump"),
        <<Child(<<>>, "process", {})>>,
        Runnable("calibrate_hlt"), WithParams("measure_temp_hlt"),
        WithParams("measure_weight_hlt"), Runnable("manual_element_hlt"),
        Runnable("manual_pump_hlt"), WithParams("control_temp_hlt"),
        WithParams("control_weight_hlt"),
        Runnable("calibrate_mash"), WithParams("measure_temp_mash"),
        WithParams("measure_weight_mash"), Runnable("manual_pump_mash"),
        WithParams("control_weight_mash"),
        Runnable("calibrate_kettle"), WithParams("measure_temp_kettle"),
        WithParams("measure_weight_kettle"), WithParams("boil_kettle"),
        Runnable("manual_element_kettle"), WithParams("control_weight_kettle")>>

build == FlattenSeq(trees)

-----------------------------------------------------------------------------
(***************************************************************************)
(* main(): the modules with the nodes they are given, and the processes,   *)
(* each of a class and with a module as its context, in its order.         *)
(***************************************************************************)
\* A pair that main() makes of a label and a name, of a prefix and a number
Node(label, prefix, number) ==
    [label |-> label, prefix |-> prefix, number |-> number]

\* The vessel's probe and load cell, and its switches, by label
Vessel(n, switches) ==
    <<Node("primary", "probe", n), Node("primary", "load_cell", n)>> \o switches
Element(n) == <<Node("element", "switch", n)>>
Pump(n) == <<Node("pump", "switch", n)>>

\* Mutants: the mash tun's switch is called element; it is given the pump of
\* the hot liquor tank.
MutModuleNodes ==
    [hlt |-> Vessel(0, Element(0) \o Pump(1)), mash |-> Vessel(1, Element(2)),
     kettle |-> Vessel(2, Element(3))]
MutModuleNodesShared ==
    [hlt |-> Vessel(0, Element(0) \o Pump(1)), mash |-> Vessel(1, Pump(1)),
     kettle |-> Vessel(2, Element(3))]

moduleNodes ==
    [hlt |-> Vessel(0, Element(0) \o Pump(1)), mash |-> Vessel(1, Pump(2)),
     kettle |-> Vessel(2, Element(3))]

moduleList == <<"hlt", "mash", "kettle">>

processList ==
    <<<<"calibrate_hlt", "CalibrateScale", "hlt">>,
      <<"measure_temp_hlt", "MeasureTemperature", "hlt">>,
      <<"measure_weight_hlt", "MeasureScale", "hlt">>,
      <<"manual_element_hlt", "SwitchElement", "hlt">>,
      <<"manual_pump_hlt", "SwitchPump", "hlt">>,
      <<"control_temp_hlt", "ControlTemperature", "hlt">>,
      <<"control_weight_hlt", "ControlWeight", "hlt">>,
      <<"calibrate_mash", "CalibrateScale", "mash">>,
      <<"measure_temp_mash", "MeasureTemperature", "mash">>,
      <<"measure_weight_mash", "MeasureScale", "mash">>,
      <<"manual_pump_mash", "SwitchPump", "mash">>,
      <<"control_weight_mash", "ControlWeight", "mash">>,
      <<"calibrate_kettle", "CalibrateScale", "kettle">>,
      <<"measure_temp_kettle", "MeasureTemperature", "kettle">>,
      <<"measure_weight_kettle", "MeasureScale", "kettle">>,
      <<"boil_kettle", "Boil", "kettle">>,
      <<"manual_element_kettle", "SwitchElement", "kettle">>,
      <<"control_weight_kettle", "ControlWeight", "kettle">>>>

Entry(p) == CHOOSE e \in ToSet(processList) : e[1] = p

\* The classes of DevProc.hpp that inherit PIDProcess.
PIDProcesses == {"MeasureTemperature", "MeasureScale", "ControlTemperature",
                 "ControlWeight", "Boil"}

\* Where BrewModule keeps a node: in the map of its prefix, under its label
Probe == <<"probe", "primary">>
LoadCell == <<"load_cell", "primary">>
Switch(label) == <<"switch", label>>

\* The nodes of its module that the run() of a class uses.
NodesUsed ==
    [MeasureTemperature |-> {Probe}, MeasureScale |-> {LoadCell},
     CalibrateScale |-> {LoadCell}, SwitchElement |-> {Switch("element")},
     SwitchPump |-> {Switch("pump")},
     ControlTemperature |-> {Probe, Switch("element")},
     Boil |-> {Probe, Switch("element")}, ControlWeight |-> {}]

\* The modules CalibrateScale::run has calibration points for.
Calibrated == {1, 2, 3}

-----------------------------------------------------------------------------
(***************************************************************************)
(* The constructor of BrewModule: loadTempProbe, loadLoadCell, loadSwitch, *)
(* which add the attributes of a node to its SysHandler and open them.     *)
(***************************************************************************)
\* Mutant: the gain is added before the reference impedence.
MutAttributes ==
    [probe |-> <<"rtd_impedence", "pga_gain", "ref_impedence">>,
     load_cell |-> <<"raw">>, switch |-> <<"power_level">>]

\* The attributes a node gets, by prefix (isValidNode), in the order of addSysNode
Attributes ==
    [probe |-> <<"rtd_impedence", "ref_impedence", "pga_gain">>,
     load_cell |-> <<"raw">>, switch |-> <<"power_level">>]

Key(node) == <<node.prefix, node.label>>
File(node, attribute) == <<node.prefix, node.number, attribute>>

\* What is loaded of the i-th node: nothing if its label is in the map already
AttributesOf(list, i) ==
    IF \E j \in 1..(i - 1) : Key(list[j]) = Key(list[i]) THEN <<>>
    ELSE Attributes[list[i].prefix]

\* The index TemperatureNode, LoadCellNode and SwitchNode pass for an attribute
IndexOf ==
    [rtd_impedence |-> 0, ref_impedence |-> 1, pga_gain |-> 2, raw |-> 0,
     power_level |-> 0]

\* Descriptors: 0 is the standard input, and what a node keeps that could not
\* be opened; the files that were opened follow the standard error.
StandardInput == <<"standard input", 0, "none">>
FileOf(fd) == IF fd = 0 THEN StandardInput ELSE opened[fd - 2]

\* The steps of the start-up: the newChild calls, produce, the modules and
\* the processes.
Mapped == Len(build) + 1
WithModules == Mapped + Len(moduleList)
Ready == WithModules + Len(processList)

\* std::map::insert: an entry that is there already is left alone.
Insert(map, key, value) ==
    [k \in DOMAIN map \cup {key} |-> IF k \in DOMAIN map THEN map[k] ELSE value]

\* The ID 0 is reserved by an empty module and a null process.
DInit ==
    /\ Init
    /\ done = 0
    /\ brewModules = [id \in {0} |-> [name |-> "default", nodes |-> <<>>]]
    /\ controlProcesses = [id \in {0} |-> "nullptr"]
    /\ loaded = <<>>
    /\ loading = 1
    /\ table = <<>>
    /\ opened = <<>>
    /\ missing = {}
    /\ terminated = FALSE

Grow ==
    /\ done < Len(build)
    /\ LET c == build[done + 1]
       IN  \E p \in 1..Len(nodes) :
             /\ Path(p) = c.parent
             /\ newChild(p, c.name, c.flags)
    /\ done' = done + 1
    /\ UNCHANGED <<devices, construction, files, terminated>>

Map ==
    /\ done = Len(build)
    /\ ProduceAll
    /\ done' = done + 1
    /\ UNCHANGED <<devices, construction, files, terminated>>

\* The module that main() is constructing, and the nodes it gives it
Module == moduleList[done - Mapped + 1]
NodeList == moduleNodes[Module]

Constructing == ~terminated /\ done \in Mapped..(WithModules - 1)

\* addSysNode and openSysNode of the node's next attribute.
openSysNode ==
    /\ Constructing
    /\ loading <= Len(NodeList)
    /\ Len(table) < Len(AttributesOf(NodeList, loading))
    /\ LET file == File(NodeList[loading], AttributesOf(NodeList, loading)[Len(table) + 1])
       IN  \/ /\ opened' = Append(opened, file)
              /\ table' = Append(table, 3 + Len(opened))
              /\ UNCHANGED missing
           \/ /\ Cardinality(missing) < MaxMissing
              /\ missing' = missing \cup {file}
              /\ table' = Append(table, 0)
              /\ UNCHANGED opened
    /\ UNCHANGED <<vars, done, devices, loaded, loading, terminated>>

\* initTempSensor reads gain and reference impedence of a probe, once: a read that
\* fails or finds no number lets stoul throw, of a file that was opened as of the
\* standard input.  The latter may also never return: no step is ever obliged.
MayThrow == NodeList[loading].prefix = "probe" /\ table # <<>>

\* The end of loadTempProbe, loadLoadCell and loadSwitch.
loadNode ==
    /\ Constructing
    /\ loading <= Len(NodeList)
    /\ Len(table) = Len(AttributesOf(NodeList, loading))
    /\ loaded' = Insert(loaded, Key(NodeList[loading]), table)
    /\ table' = <<>>
    /\ loading' = loading + 1
    /\ \/ MayThrow /\ terminated' = TRUE
       \/ UNCHANGED terminated
    /\ UNCHANGED <<vars, done, devices, files>>

\* Device::newModule, once the module is constructed.  A module whose ID is
\* taken is destroyed, and the loop in its destructor deletes its first node
\* again and again.
newModule ==
    /\ Constructing
    /\ loading > Len(NodeList)
    /\ LET id == Machine(<<"device", Module>>)
       IN  /\ brewModules' = Insert(brewModules, id, [name |-> Module, nodes |-> loaded])
           /\ terminated' = (id \in DOMAIN brewModules)
    /\ loaded' = <<>>
    /\ loading' = 1
    /\ done' = done + 1
    /\ UNCHANGED <<vars, controlProcesses, table, files>>

\* Mutant: a process gets the ID of its module.
MutNewControlProcess ==
    /\ ~terminated
    /\ done \in WithModules..(Ready - 1)
    /\ LET e == processList[done - WithModules + 1]
       IN  controlProcesses' = Insert(controlProcesses, Machine(<<"device", e[3]>>), e[1])
    /\ done' = done + 1
    /\ UNCHANGED <<vars, brewModules, construction, files, terminated>>

\* Device::newControlProcess
newControlProcess ==
    /\ ~terminated
    /\ done \in WithModules..(Ready - 1)
    /\ LET p == processList[done - WithModules + 1][1]
       IN  controlProcesses' = Insert(controlProcesses, Machine(<<"process", p>>), p)
    /\ done' = done + 1
    /\ UNCHANGED <<vars, brewModules, construction, files, terminated>>

Started == (done = Ready \/ terminated) /\ UNCHANGED allVars

DNext ==
    \/ Grow \/ Map \/ openSysNode \/ loadNode \/ newModule
    \/ newControlProcess \/ Started

DSpec == DInit /\ [][DNext]_allVars

-----------------------------------------------------------------------------
(***************************************************************************)
(* Controller: what a command finds, as the code it returns and, when that *)
(* is 0, whose value it is and which.                                      *)
(***************************************************************************)
Found(object, what) == [ret |-> 0, of |-> object, what |-> what]
Error(ret) == [ret |-> ret, of |-> "none", what |-> "none"]

\* BrewModule's NODE and CACHED numbers, and Process's PARAM numbers: of each
\* number, the value it stands for.
Cached == <<"temp", "weight", "element", "pump">>
CachedNodes == <<Probe, LoadCell, Switch("element"), Switch("pump")>>
Parameters == <<"none", "sp", "kp", "ki", "kd", "ts">>

readModule(id, parameter) ==
    IF id \notin DOMAIN brewModules THEN Error(1)
    ELSE IF parameter \notin DOMAIN Cached THEN Error(2)
    ELSE IF CachedNodes[parameter] \notin DOMAIN brewModules[id].nodes THEN Error(2)
    ELSE Found(brewModules[id].name, Cached[parameter])

\* getControlProcess returns nullptr for ID 0 as well; readParam and writeParam
\* throw for any other parameter than SP to TS.
Parameter(code, parameter) ==
    IF code \notin DOMAIN controlProcesses \ {0} THEN Error(1)
    ELSE IF Entry(controlProcesses[code])[2] \notin PIDProcesses THEN Error(2)
    ELSE IF parameter \notin 2..6 THEN Error(3)
    ELSE Found(controlProcesses[code], Parameters[parameter])

read(u) ==
    IF ~Can(u, "read") THEN Error(1)
    ELSE IF DeviceCode(u) = Machine(<<"device">>)
      THEN readModule(ModuleCode(u), NodeCode(u))
    ELSE IF DeviceCode(u) = Machine(<<"process">>)
      THEN Parameter(ModuleCode(u), NodeCode(u))
    ELSE Error(2)

write(u) == Parameter(ModuleCode(u), NodeCode(u))

-----------------------------------------------------------------------------
(***************************************************************************)
(* Properties of the program once it is ready.                             *)
(***************************************************************************)
\* A readable URL reads the node, or the parameter, it names, of the module or
\* the process it names, and a writeable one writes the parameter it names: the
\* numbers of BrewModule.hpp:149-153 and Process.hpp:19-25 agree with the order
\* of the tree.  The description of a process is the one exception: reading it
\* fails (Main.cpp:25).
AccessesWhatItNames ==
    done = Ready =>
      \A u \in DOMAIN urls :
        /\ Can(u, "read") =>
             read(u) = IF Last(u) = "desc" THEN Error(3) ELSE Found(u[2], u[3])
        /\ Can(u, "write") => write(u) = Found(u[2], u[3])

\* Start and stop of a runnable URL reach the process it names, and every
\* process that main() declares can be reached: no two of them were given the
\* same ID, which would have left one of them outside Device (Process.cpp:11).
RunsWhatItNames ==
    done = Ready =>
      /\ \A u \in {v \in DOMAIN urls : Can(v, "run")} :
           /\ Machine(u) \in DOMAIN controlProcesses
           /\ controlProcesses[Machine(u)] = u[2]
      /\ \A e \in ToSet(processList) : Can(<<"process", e[1]>>, "run")

\* The module a process finds by the ID in its context has every node its run()
\* asks for: no out_of_range leaves run() for want of a probe or a load cell
\* (DevProc.cpp:71, 96, 168, 206), and none is caught, and a switch never set, for
\* want of one (BrewModule.cpp:416, 428).  Each CalibrateScale has its calibration
\* points (DevProc.cpp:44-51).
ProcessesFindTheirNodes ==
    done = Ready =>
      \A e \in ToSet(processList) :
        LET id == Machine(<<"device", e[3]>>)
        IN  /\ id \in DOMAIN brewModules
            /\ brewModules[id].name = e[3]
            /\ NodesUsed[e[2]] \subseteq DOMAIN brewModules[id].nodes
            /\ e[2] = "CalibrateScale" => id \in Calibrated

\* The index each node's code passes finds the attribute it means, of the node's
\* own device, or the standard input if that could not be opened: the indices
\* are literals (TemperatureNode.cpp:24, 30, 36, LoadCellNode.cpp:37,
\* SwitchNode.cpp:28), and the attributes are added by BrewModule.cpp:98-107.
IndicesFindTheirFiles ==
    done = Ready =>
      \A id \in DOMAIN brewModules \ {0} :
        \A node \in ToSet(moduleNodes[brewModules[id].name]) :
          \A a \in ToSet(Attributes[node.prefix]) :
            LET fd == brewModules[id].nodes[Key(node)][IndexOf[a] + 1]
            IN  FileOf(fd) = IF File(node, a) \in missing THEN StandardInput
                             ELSE File(node, a)

\* No device belongs to two nodes: each module arbitrates its own equipment and
\* each switch caches its own level, which nothing does for a device that two of
\* them had opened (Main.cpp:51-74).
DevicesAreNotShared == IsInjective(opened)

\* Of the start-up, only the loading of a probe ends the program: Device refuses
\* no module, which would be destroyed, as the machine codes of the three are
\* different (BrewModule.cpp:156-160, Device.cpp:48-64, Main.cpp:58-74).
OnlyProbesStopStartUp ==
    terminated =>
        /\ done \in Mapped..(WithModules - 1)
        /\ loading > 1
        /\ NodeList[loading - 1].prefix = "probe"
=============================================================================
