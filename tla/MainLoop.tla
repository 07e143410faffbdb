------------------------------ MODULE MainLoop ------------------------------
(***************************************************************************)
(* The command path: the broker client's callback thread queues commands   *)
(* (src/src/network/MQTT.cpp) and main() executes them one after the other *)
(* (src/src/core/Main.cpp:130-249), starting and stopping the processes of *)
(* module Process through Controller.  The workers stop processes as well: *)
(* each other for equipment (BrewModule.cpp:334), themselves without a     *)
(* module (DevProc.cpp:50).  Which, is left open: any, and itself.         *)
(*                                                                         *)
(* The queue is guarded by cmdLock; main() waits on the condition variable *)
(* with a mutex of its own, which the callback does not take.              *)
(*                                                                         *)
(* A URL is the process it stands for, a Readable node, or Invalid (not in *)
(* the mapping).  A command's value and a parameter's value are left out:  *)
(* a WRITE changes a PID parameter, which nothing here depends on.  A text *)
(* that is no command is the action Malformed.                             *)
(***************************************************************************)
EXTENDS Naturals, SequencesExt

CONSTANTS
    Procs, Main, None,
    Readable,       \* URLs controller.read answers
    Invalid,        \* URLs map.retrieve does not know
    Sent(_)         \* the commands clients may send after those received (the
                    \* bound: none once these are enough)

ASSUME NamesDiffer == Main \notin Procs /\ None \notin Procs
ASSUME UrlsDiffer == Procs \cap Readable = {} /\ Invalid \cap (Procs \cup Readable) = {}

Urls == Procs \cup Readable \cup Invalid
\* "other": CMD_NULL and CMD_WRITE, which have no effect here
Actions == {"exit", "start", "stop", "read", "other"}
Commands == [action : Actions, url : Urls]

VARIABLES
    running, stopRequested, wakeRequested, handle, phase, step, target,
    terminated,     \* the processes, see Process
    preempted,      \* history: those a worker stopped since their last launch
    isConnected,    \* MQTT::isConnected
    online,         \* is there a connection to the broker?
    malformed,      \* history: an exception left the callback
    commandQueue,   \* MQTT::commandQueue
    received,       \* history: the commands in the order they arrived
    pc,             \* where main() is
    args,           \* the command main() executes
    ids,            \* the processes EXIT has still to stop
    published       \* the URLs whose value was transmitted

pvars == <<running, stopRequested, wakeRequested, handle, phase, step,
           target, terminated, preempted>>
queueVars == <<commandQueue, received>>
mqttVars == <<isConnected, online, malformed>>
mainVars == <<mqttVars, pc, args, ids, published>>
vars == <<pvars, queueVars, mainVars>>

Proc == INSTANCE Process WITH MayStop <- (Procs \cup {Main}) \X Procs

Pcs == {"connect", "check", "wait", "waiting", "take", "execute", "launch",
        "exit", "disconnect", "returned"}

\* args before the first command: CMD_NULL and no URL
NoCommand == [action |-> "other", url |-> None]

TypeOK ==
    /\ Proc!TypeOK
    /\ preempted \subseteq Procs
    /\ isConnected \in BOOLEAN
    /\ online \in BOOLEAN
    /\ malformed \in BOOLEAN
    /\ commandQueue \in Seq(Commands)
    /\ received \in Seq(Commands)
    /\ pc \in Pcs
    /\ args \in Commands \cup {NoCommand}
    /\ ids \subseteq Procs
    /\ published \in Seq(Readable)

Init ==
    /\ Proc!Init
    /\ preempted = {}
    /\ isConnected = FALSE
    /\ online = FALSE
    /\ malformed = FALSE
    /\ commandQueue = <<>>
    /\ received = <<>>
    /\ pc = "connect"
    /\ args = NoCommand
    /\ ids = {}
    /\ published = <<>>

-----------------------------------------------------------------------------
(***************************************************************************)
(* The client's callback thread.                                           *)
(***************************************************************************)

\* connected(): subscribe, then set the flag connect() spins on.
Connected ==
    /\ ~isConnected
    /\ ~terminated
    /\ pc = "connect"
    /\ isConnected' = TRUE
    /\ online' = TRUE
    /\ UNCHANGED <<pvars, queueVars, malformed, pc, args, ids, published>>

\* connection_lost() does nothing: no code resets the flag or connects again.
ConnectionLost ==
    /\ online
    /\ ~terminated
    /\ pc # "returned"
    /\ online' = FALSE
    /\ UNCHANGED <<pvars, queueVars, isConnected, malformed, pc, args, ids, published>>

Arriving == Sent(received) \cap Commands

\* message_arrived, responseCallback: push and notify_one under cmdLock.  The
\* notification reaches main() only if it waits already.
Arrive ==
    /\ ~terminated
    /\ online
    /\ pc # "returned"
    /\ \E c \in Arriving :
         /\ commandQueue' = Append(commandQueue, c)
         /\ received' = Append(received, c)
    /\ pc' = IF pc = "waiting" THEN "check" ELSE pc
    /\ UNCHANGED <<pvars, mqttVars, args, ids, published>>

\* An exception that nobody catches ends the program.
Dies ==
    /\ terminated' = TRUE
    /\ UNCHANGED <<running, stopRequested, wakeRequested, handle, phase, step,
                   target, preempted>>

\* parseArgs: stod throws for a value that is no number, out of the callback; a
\* text that does not fit the parts (no leading '/') may crash it as well, or be
\* queued as some command, which is Arrive.  It comes in the place of a command.
Malformed ==
    /\ ~terminated
    /\ online
    /\ pc # "returned"
    /\ Arriving # {}
    /\ malformed' = TRUE
    /\ Dies
    /\ UNCHANGED <<queueVars, isConnected, online, pc, args, ids, published>>

-----------------------------------------------------------------------------
(***************************************************************************)
(* main().                                                                 *)
(***************************************************************************)
\* main() is inside no stop(): the call is synchronous.
Idle == step[Main] = "idle"
At(from) == ~terminated /\ pc = from /\ Idle

\* connect() spins until the client is connected ...
ConnectDone ==
    /\ At("connect")
    /\ isConnected
    /\ pc' = "check"
    /\ UNCHANGED <<pvars, queueVars, mqttVars, args, ids, published>>

\* ... or its exception is caught, and main() goes on without a connection.
ConnectFails ==
    /\ At("connect")
    /\ ~isConnected
    /\ pc' = "check"
    /\ UNCHANGED <<pvars, queueVars, mqttVars, args, ids, published>>

\* while(!isCommand()), under cmdLock
IsCommand ==
    /\ At("check")
    /\ pc' = IF commandQueue = <<>> THEN "wait" ELSE "take"
    /\ UNCHANGED <<pvars, queueVars, mqttVars, args, ids, published>>

\* cv->wait(lk)
Wait ==
    /\ At("wait")
    /\ pc' = "waiting"
    /\ UNCHANGED <<pvars, queueVars, mqttVars, args, ids, published>>

\* Mutant: if(!isCommand()) instead of while
MutSpuriousWake ==
    /\ At("waiting")
    /\ pc' = "take"
    /\ UNCHANGED <<pvars, queueVars, mqttVars, args, ids, published>>

SpuriousWake ==
    /\ At("waiting")
    /\ pc' = "check"
    /\ UNCHANGED <<pvars, queueVars, mqttVars, args, ids, published>>

\* Where the do-while goes after continue: its condition looks at the action
\* only, so an EXIT that was not executed leaves the loop as well.
LoopCondition(c) == IF c.action = "exit" THEN "disconnect" ELSE "check"

\* Mutant: the newest command first
MutNextCommand ==
    /\ At("take")
    /\ args' = Last(commandQueue)
    /\ commandQueue' = Front(commandQueue)
    /\ pc' = IF args'.url \in Invalid THEN LoopCondition(args') ELSE "execute"
    /\ UNCHANGED <<pvars, received, mqttVars, ids, published>>

\* nextCommand(), under cmdLock, and map.retrieve
NextCommand ==
    /\ At("take")
    /\ args' = Head(commandQueue)
    /\ commandQueue' = Tail(commandQueue)
    /\ pc' = IF args'.url \in Invalid THEN LoopCondition(args') ELSE "execute"
    /\ UNCHANGED <<pvars, received, mqttVars, ids, published>>

Executes(action) == At("execute") /\ args.action = action

\* CMD_NULL, CMD_WRITE, and START, STOP and READ of a URL they do not fit
Ignore ==
    /\ At("execute")
    /\ \/ args.action = "other"
       \/ args.action \in {"start", "stop"} /\ args.url \notin Procs
       \/ args.action = "read" /\ args.url \notin Readable
    /\ pc' = LoopCondition(args)
    /\ UNCHANGED <<pvars, queueVars, mqttVars, args, ids, published>>

\* Without a connection publish() and disconnect() throw, and main() catches nothing.
BrokerThrows == ~online

\* Mutant: the newest value goes first
MutRead ==
    /\ Executes("read")
    /\ args.url \in Readable
    /\ ~BrokerThrows
    /\ published' = <<args.url>> \o published
    /\ pc' = "check"
    /\ UNCHANGED <<pvars, queueVars, mqttVars, args, ids>>

\* CMD_READ: transmit the value
Read ==
    /\ Executes("read")
    /\ args.url \in Readable
    /\ ~BrokerThrows
    /\ published' = Append(published, args.url)
    /\ pc' = "check"
    /\ UNCHANGED <<pvars, queueVars, mqttVars, args, ids>>

ReadThrows ==
    /\ Executes("read")
    /\ args.url \in Readable
    /\ BrokerThrows
    /\ Dies
    /\ UNCHANGED <<queueVars, mainVars>>

\* Controller::stop, also the first half of Controller::start: the call enters
\* stop() if the process is running.
CallStop(p, then) ==
    /\ IF running[p] THEN Proc!StopCheck(Main, p) /\ UNCHANGED preempted
                     ELSE UNCHANGED pvars
    /\ pc' = then
    /\ UNCHANGED <<queueVars, mqttVars, args, published>>

Stop ==
    /\ Executes("stop")
    /\ args.url \in Procs
    /\ CallStop(args.url, "check")
    /\ UNCHANGED ids

\* Mutant: a process that runs is stopped and not started again.
MutStart ==
    /\ Executes("start")
    /\ args.url \in Procs
    /\ CallStop(args.url, IF running[args.url] THEN "check" ELSE "launch")
    /\ UNCHANGED ids

Start ==
    /\ Executes("start")
    /\ args.url \in Procs
    /\ CallStop(args.url, "launch")
    /\ UNCHANGED ids

Launch ==
    /\ At("launch")
    /\ Proc!Start(args.url)
    /\ preempted' = preempted \ {args.url}
    /\ pc' = "check"
    /\ UNCHANGED <<queueVars, mqttVars, args, ids, published>>

\* Mutant: the first process is skipped.
MutExitSkips ==
    /\ Executes("exit")
    /\ ids' = Procs \ {CHOOSE p \in Procs : TRUE}
    /\ pc' = "exit"
    /\ UNCHANGED <<pvars, queueVars, mqttVars, args, published>>

\* CMD_EXIT: stop every process (here in any order, in the code in that of the
\* IDs; the reserved ID 0 has no process and is left out)
Exit ==
    /\ Executes("exit")
    /\ ids' = Procs
    /\ pc' = "exit"
    /\ UNCHANGED <<pvars, queueVars, mqttVars, args, published>>

ExitStop(p) ==
    /\ At("exit")
    /\ p \in ids
    /\ ids' = ids \ {p}
    /\ CallStop(p, IF ids' = {} THEN "disconnect" ELSE "exit")

\* disconnect; then main() returns and destroys the Process objects: a thread
\* that is still joinable terminates the program, as does a disconnect that throws.
Return ==
    /\ At("disconnect")
    /\ pc' = "returned"
    /\ terminated' = (BrokerThrows \/ \E p \in Procs : handle[p] # "none")
    /\ UNCHANGED <<running, stopRequested, wakeRequested, handle, phase, step,
                   target, preempted, queueVars, mqttVars, args, ids, published>>

StopStep == Proc!StopStep(Main) /\ UNCHANGED <<preempted, queueVars, mainVars>>

-----------------------------------------------------------------------------
(***************************************************************************)
(* The workers: their runs, and the calls of stop() they make.             *)
(***************************************************************************)
Advance(p) == Proc!Advance(p) /\ UNCHANGED <<preempted, queueVars, mainVars>>
WorkerWakes(p) == Proc!SpuriousWake(p) /\ UNCHANGED <<preempted, queueVars, mainVars>>
WorkerCalls(t, p) == Proc!StopCheck(t, p) /\ UNCHANGED <<preempted, queueVars, mainVars>>

WorkerStops(t) ==
    /\ Proc!StopStep(t)
    /\ preempted' = IF step[t] = "clear" THEN preempted \cup {target[t]} ELSE preempted
    /\ UNCHANGED <<queueVars, mainVars>>

Gone == (terminated \/ pc = "returned") /\ UNCHANGED vars

MainStep ==
    \/ ConnectDone \/ IsCommand \/ Wait \/ NextCommand \/ Ignore
    \/ Read \/ ReadThrows
    \/ Stop \/ Start \/ Launch \/ Exit \/ (\E p \in Procs : ExitStop(p))
    \/ Return \/ StopStep

Next ==
    \/ Connected \/ ConnectionLost \/ Arrive \/ Malformed \/ ConnectFails \/ SpuriousWake
    \/ MainStep
    \/ \E p \in Procs : Advance(p) \/ WorkerWakes(p) \/ WorkerStops(p)
    \/ \E t, p \in Procs : WorkerCalls(t, p)
    \/ Gone

Spec == Init /\ [][Next]_vars

\* main() and the workers are scheduled and timed waits end.  No client is
\* obliged to send a command, and no wait to end without a notification.
Fairness ==
    /\ WF_vars(MainStep)
    /\ \A p \in Procs : WF_vars(Advance(p)) /\ WF_vars(WorkerStops(p))

FairSpec == Spec /\ Fairness

-----------------------------------------------------------------------------
(***************************************************************************)
(* Properties.                                                             *)
(***************************************************************************)

\* The commands main() has taken; the last START or STOP of p among them, if
\* there is one, is a START.
Taken == SubSeq(received, 1, Len(received) - Len(commandQueue))
IsOrder(c, p) == c.url = p /\ c.action \in {"start", "stop"}
OrderedToRun(p) ==
    \E i \in 1..Len(Taken) :
        /\ IsOrder(Taken[i], p) /\ Taken[i].action = "start"
        /\ \A j \in (i + 1)..Len(Taken) : ~IsOrder(Taken[j], p)

\* Commands are taken once each, in the order they arrived, whatever the
\* callback adds meanwhile (IClientInterface.hpp:31, "FIFO").
CommandsInOrder == received = Taken \o commandQueue

\* main() never takes the front of an empty queue: the test and the removal
\* are two critical sections, and a wait may end without a command.
TakesWhatIsThere == pc = "take" => commandQueue # <<>>

\* Between two commands a process that runs was ordered to, and one that was
\* ordered to run does, unless a worker has stopped it since, although
\* Controller::start is a stop and a start, the stops overlap and the workers end
\* their runs on their own (Controller.cpp:12-44, BrewModule.cpp:334).
LastOrderStands ==
    (pc \in {"check", "wait", "waiting", "take"} /\ Idle) =>
        \A p \in Procs : /\ running[p] => OrderedToRun(p)
                        /\ OrderedToRun(p) => running[p] \/ p \in preempted

\* An EXIT that is executed leaves no thread behind: main() returns with every
\* process joined, connected or not (Main.cpp:171-179).
ExitJoinsAll ==
    pc = "returned" /\ args.url \notin Invalid => \A p \in Procs : handle[p] = "none"

\* The program dies of nothing but the broker, when main() answers a READ or leaves
\* after an EXIT without a connection; an EXIT whose URL is unknown, which joins
\* nobody; a malformed text; and two calls of stop() that collide: no other order in
\* which commands arrive and workers stop each other terminates it
\* (Main.cpp:151, 233, 247, MQTT.cpp:188, Process.cpp:19-52).
DiesOfKnownCauses ==
    terminated =>
        \/ ~online /\ args.action \in {"read", "exit"}
        \/ args.action = "exit" /\ args.url \in Invalid
        \/ malformed
        \/ \E t \in Procs \cup {Main} : Proc!Collides(t)

\* The READs that main() is done with, as their places in what it has taken
IsRead(c) == c.action = "read" /\ c.url \in Readable
Answered ==
    {i \in 1..Len(Taken) : IsRead(Taken[i]) /\ (pc = "execute" => i < Len(Taken))}

\* Each value that was read is transmitted once, in the order of the READs: the
\* n-th value is that of the n-th of them.
AnswersInOrder ==
    /\ Len(published) = Cardinality(Answered)
    /\ \A i \in Answered :
         published[Cardinality({j \in Answered : j <= i})] = Taken[i].url

\* A worker that waits for a run nobody asks to stop: main() started the process
\* again, which reset the request, between the worker's request and its join.
Stranded(t) == step[t] = "joining" /\ ~stopRequested[target[t]]

\* EXIT ends the program: each stop() it waits for returns, or the program is
\* terminated, unless a worker is stranded, which main() then waits for.
ExitReturns ==
    pc = "exit" ~> (pc = "returned" \/ terminated \/ \E t \in Procs : Stranded(t))

\* MQTT.cpp:90: "Notify the consumer thread that there is a new command and it
\* should wake up".  A queued command is taken in the end.
CommandWakesMain ==
    (commandQueue # <<>> /\ pc = "waiting") ~> pc # "waiting"
=============================================================================
