--------------------------- MODULE MainLoopProofs ---------------------------
(***************************************************************************)
(* Theorems about MainLoop, for any processes, URLs and number of          *)
(* commands.  What main() and the workers do to the processes is a step of *)
(* Process, so the lemmas of ProcessProofs are used here; any thread may   *)
(* stop any process.                                                       *)
(***************************************************************************)
EXTENDS MainLoop, TLAPS, SequenceTheorems, FiniteSetTheorems

PP == INSTANCE ProcessProofs WITH MayStop <- (Procs \cup {Main}) \X Procs

-----------------------------------------------------------------------------
(***************************************************************************)
(* The command path is made of steps of Process.                           *)
(***************************************************************************)
\* The assumptions of Process hold of the processes of this module.
LEMMA ProcessAssumptions ==
    PP!MainIsNoProcess /\ PP!NoneIsNoProcess /\ PP!MayStopType
BY NamesDiffer DEF PP!MainIsNoProcess, PP!NoneIsNoProcess, PP!MayStopType, PP!Threads

\* A stop() that a thread calls is one it may call.
LEMMA CallsStop ==
    ASSUME NEW t \in Procs \cup {Main}, NEW p \in Procs, Proc!StopCheck(t, p)
    PROVE  PP!Next
<1>1. PP!StopCheck(t, p)
  BY DEF Proc!StopCheck, PP!StopCheck, Proc!CanCall, PP!CanCall, Proc!Goto, PP!Goto
<1>2. /\ <<t, p>> \in (Procs \cup {Main}) \X Procs
      /\ <<t, p>>[1] = t /\ <<t, p>>[2] = p
  OBVIOUS
<1> QED
  BY <1>1, <1>2 DEF PP!Next

\* So are the steps of a stop() it is in ...
LEMMA StopsInSteps == ASSUME NEW t, Proc!StopStep(t) PROVE PP!StopStep(t)
<1>1. CASE Proc!StopRequest(t)
  BY <1>1 DEF Proc!StopRequest, PP!StopStep, PP!StopRequest, Proc!Goto, PP!Goto
<1>2. CASE Proc!StopNotify(t)
  BY <1>2 DEF Proc!StopNotify, PP!StopStep, PP!StopNotify, Proc!Goto, PP!Goto
<1>3. CASE Proc!StopJoin(t)
  BY <1>3 DEF Proc!StopJoin, PP!StopStep, PP!StopJoin, Proc!Goto, PP!Goto,
     Proc!JoinThrows, PP!JoinThrows, Proc!BeingJoined, PP!BeingJoined,
     Proc!Threads, PP!Threads
<1>4. CASE Proc!StopJoined(t)
  BY <1>4 DEF Proc!StopJoined, PP!StopStep, PP!StopJoined, Proc!Goto, PP!Goto
<1>5. CASE Proc!StopClear(t)
  BY <1>5 DEF Proc!StopClear, PP!StopStep, PP!StopClear, Proc!Goto, PP!Goto
<1> QED
  BY <1>1, <1>2, <1>3, <1>4, <1>5 DEF Proc!StopStep

\* ... and those of a run.
LEMMA RunsInSteps ==
    ASSUME NEW p \in Procs, Proc!Advance(p) \/ Proc!SpuriousWake(p)
    PROVE  PP!RunStep(p)
BY DEF Proc!Advance, Proc!SpuriousWake, Proc!EnterLoop, Proc!TestStop, Proc!Sleep,
   Proc!BreakLoop, Proc!Timeout, Proc!WakeTest, Proc!RunReturn, Proc!Moves,
   PP!RunStep, PP!Advance, PP!SpuriousWake, PP!EnterLoop, PP!TestStop, PP!Sleep,
   PP!BreakLoop, PP!Timeout, PP!WakeTest, PP!RunReturn, PP!Moves

\* main() starts what is a process.
LaunchOK == pc = "launch" => args.url \in Procs

\* Every step is one of the processes or leaves them alone, but for the three
\* that let an exception leave main() or the callback (Main.cpp:130-249).
Throws == ReadThrows \/ Return \/ Malformed

LEMMA ProcessStep == ASSUME LaunchOK, [Next]_vars PROVE [PP!Next]_PP!pvars \/ Throws
<1>1. ASSUME UNCHANGED pvars PROVE [PP!Next]_PP!pvars
  BY <1>1 DEF pvars, PP!pvars
<1>2. CASE Connected \/ ConnectionLost \/ Arrive \/ ConnectFails \/ SpuriousWake
  BY <1>1, <1>2 DEF Connected, ConnectionLost, Arrive, ConnectFails, SpuriousWake
<1>3. CASE \/ ConnectDone \/ IsCommand \/ Wait \/ NextCommand \/ Ignore \/ Read \/ Exit
  BY <1>1, <1>3 DEF ConnectDone, IsCommand, Wait, NextCommand, Ignore, Read, Exit
<1>4. ASSUME NEW p \in Procs, NEW then, CallStop(p, then) PROVE [PP!Next]_PP!pvars
  BY <1>1, <1>4, CallsStop DEF CallStop
<1>5. CASE Stop \/ Start
  BY <1>4, <1>5 DEF Stop, Start
<1>6. ASSUME NEW p \in Procs, ExitStop(p) PROVE [PP!Next]_PP!pvars
  BY <1>4, <1>6 DEF ExitStop
<1>7. CASE Launch
  <2>1. Proc!Start(args.url) /\ args.url \in Procs
    BY <1>7 DEF Launch, LaunchOK, At
  <2> QED
    BY <2>1 DEF PP!Next, Proc!Start, PP!Start
<1>8. CASE StopStep
  BY <1>8, StopsInSteps DEF StopStep, PP!Next, PP!Threads
<1>9. ASSUME NEW p \in Procs, Advance(p) \/ WorkerWakes(p) PROVE [PP!Next]_PP!pvars
  BY <1>9, RunsInSteps DEF Advance, WorkerWakes, PP!Next
<1>10. ASSUME NEW t \in Procs, WorkerStops(t) PROVE [PP!Next]_PP!pvars
  BY <1>10, StopsInSteps DEF WorkerStops, PP!Next, PP!Threads
<1>11. ASSUME NEW t \in Procs, NEW p \in Procs, WorkerCalls(t, p) PROVE [PP!Next]_PP!pvars
  BY <1>11, CallsStop DEF WorkerCalls
<1> QED
  BY <1>1, <1>2, <1>3, <1>5, <1>6, <1>7, <1>8, <1>9, <1>10, <1>11
     DEF Next, MainStep, Gone, vars, Throws

\* The processes keep their invariant; what throws changes nothing of them.
LEMMA StopperStep == ASSUME PP!HandleInv, LaunchOK, [Next]_vars PROVE PP!HandleInv'
<1>1. CASE Throws
  <2>1. /\ UNCHANGED <<running, stopRequested, wakeRequested, handle, phase, step, target>>
        /\ terminated' \in BOOLEAN
    BY <1>1 DEF Throws, ReadThrows, Return, Malformed, Dies
  <2>2. PP!TypeOK'
    BY <2>1 DEF PP!HandleInv, PP!TypeOK
  <2>3. (PP!TargetOK /\ PP!JoinerOK /\ PP!AliveOK)'
    BY <2>1 DEF PP!HandleInv, PP!TargetOK, PP!JoinerOK, PP!AliveOK
  <2>4. (PP!OneJoiner /\ PP!RunningCoversHandle)'
    BY <2>1 DEF PP!HandleInv, PP!OneJoiner, PP!RunningCoversHandle, PP!Clearing
  <2> QED
    BY <2>2, <2>3, <2>4 DEF PP!HandleInv
<1>2. CASE ~Throws
  BY <1>2, ProcessStep, ProcessAssumptions, PP!HandleStep
<1> QED
  BY <1>1, <1>2

-----------------------------------------------------------------------------
(***************************************************************************)
(* The types.                                                              *)
(***************************************************************************)
MainTypeOK ==
    /\ isConnected \in BOOLEAN
    /\ online \in BOOLEAN
    /\ malformed \in BOOLEAN
    /\ commandQueue \in Seq(Commands)
    /\ received \in Seq(Commands)
    /\ pc \in Pcs
    /\ args \in Commands \cup {NoCommand}
    /\ ids \subseteq Procs
    /\ published \in Seq(Readable)

\* With an empty queue nothing is taken.
TakeOK == MainTypeOK /\ LaunchOK /\ TakesWhatIsThere

\* Between the test and the removal the callback only adds.
LEMMA TakeStep == ASSUME TakeOK, [Next]_vars PROVE TakeOK'
<1> USE DEF TakeOK, MainTypeOK, LaunchOK, TakesWhatIsThere, Pcs
<1>1. CASE Connected \/ ConnectionLost \/ ConnectFails \/ SpuriousWake
  BY <1>1 DEF Connected, ConnectionLost, ConnectFails, SpuriousWake, At,
     queueVars, mqttVars
<1>2. CASE Arrive
  <2>1. PICK c \in Commands : /\ commandQueue' = Append(commandQueue, c)
                              /\ received' = Append(received, c)
    BY <1>2 DEF Arrive, Arriving
  <2>2. commandQueue' \in Seq(Commands) /\ commandQueue' # <<>>
    BY <2>1, AppendProperties, SMTT(20)
  <2>5. received' \in Seq(Commands)
    BY <2>1, AppendProperties
  <2>3. UNCHANGED <<args, ids, published, isConnected>> /\ pc' \in {pc, "check"}
    BY <1>2 DEF Arrive, mqttVars
  <2>4. online' \in BOOLEAN /\ malformed' \in BOOLEAN
    BY <1>2 DEF Arrive, mqttVars
  <2> QED
    BY <2>2, <2>3, <2>4, <2>5
<1>3. CASE ConnectDone \/ IsCommand \/ Wait \/ Exit
  BY <1>3 DEF ConnectDone, IsCommand, Wait, Exit, At, Executes, queueVars, mqttVars
<1>4. CASE NextCommand
  <2>1. commandQueue # <<>>
    BY <1>4 DEF NextCommand, At
  <2>2. Head(commandQueue) \in Commands /\ Tail(commandQueue) \in Seq(Commands)
    BY <2>1, HeadTailProperties
  <2> QED
    BY <1>4, <2>2 DEF NextCommand, LoopCondition, At, mqttVars
<1>5. CASE Ignore
  BY <1>5 DEF Ignore, LoopCondition, At, queueVars, mqttVars
<1>6. CASE Read
  <2>1. Append(published, args.url) \in Seq(Readable)
    BY <1>6, AppendProperties DEF Read
  <2> QED
    BY <1>6, <2>1 DEF Read, queueVars, mqttVars
<1>7. CASE ReadThrows
  BY <1>7 DEF ReadThrows, mainVars, queueVars, mqttVars
<1>8. CASE Stop \/ Start
  BY <1>8 DEF Stop, Start, CallStop, Executes, queueVars, mqttVars
<1>9. CASE Launch
  BY <1>9 DEF Launch, At, queueVars, mqttVars
<1>10. ASSUME NEW p \in Procs, ExitStop(p) PROVE TakeOK'
  BY <1>10 DEF ExitStop, CallStop, At, queueVars, mqttVars
<1>11. CASE Return
  BY <1>11 DEF Return, At, queueVars, mqttVars
<1>12. CASE UNCHANGED <<queueVars, mainVars>>
  BY <1>12 DEF queueVars, mainVars, mqttVars
<1>13. CASE Malformed
  BY <1>13 DEF Malformed, Dies, queueVars
<1> QED
  BY <1>1, <1>2, <1>3, <1>4, <1>5, <1>6, <1>7, <1>8, <1>9, <1>10, <1>11, <1>12,
     <1>13 DEF Next, MainStep, StopStep, Advance, WorkerWakes, WorkerStops, WorkerCalls, Gone, vars

\* Only what is a process is preempted.
PreemptedOK == preempted \subseteq Procs

LEMMA PreemptedStep ==
    ASSUME PP!HandleInv, PreemptedOK, [Next]_vars PROVE PreemptedOK'
<1>1. ASSUME NEW t \in Procs, WorkerStops(t) PROVE PreemptedOK'
  <2>1. step[t] = "clear" => target[t] \in Procs
    BY DEF PP!HandleInv, PP!TargetOK, PP!Threads
  <2> QED
    BY <1>1, <2>1 DEF WorkerStops, PreemptedOK
<1>2. CASE Launch \/ UNCHANGED preempted
  BY <1>2 DEF Launch, PreemptedOK
<1> QED
  BY <1>1, <1>2 DEF Next, MainStep, vars, pvars, Connected, ConnectionLost, Arrive,
     Malformed, Dies, ConnectFails, SpuriousWake, ConnectDone, IsCommand, Wait, NextCommand,
     Ignore, Read, ReadThrows, Stop, Start, CallStop, Exit, ExitStop, Return, StopStep,
     Advance, WorkerWakes, WorkerCalls, Gone

-----------------------------------------------------------------------------
(***************************************************************************)
(* The queue holds the end of what was received.                           *)
(***************************************************************************)
QueueOK ==
    /\ Len(commandQueue) <= Len(received)
    /\ \A i \in 1..Len(commandQueue) :
         commandQueue[i] = received[Len(received) - Len(commandQueue) + i]

\* A command is added at both ends, or removed at the front.
LEMMA QueueStep == ASSUME TakeOK, QueueOK, [Next]_vars PROVE QueueOK'
<1> USE DEF QueueOK, TakeOK, MainTypeOK
<1>1. CASE Arrive
  <2>1. PICK c \in Commands : /\ commandQueue' = Append(commandQueue, c)
                              /\ received' = Append(received, c)
    BY <1>1 DEF Arrive, Arriving
  <2>2. /\ Len(commandQueue') = Len(commandQueue) + 1
        /\ Len(received') = Len(received) + 1
        /\ \A i \in 1..Len(commandQueue) : commandQueue'[i] = commandQueue[i]
        /\ \A i \in 1..Len(received) : received'[i] = received[i]
        /\ commandQueue'[Len(commandQueue) + 1] = c
        /\ received'[Len(received) + 1] = c
    BY <2>1, AppendProperties
  <2> DEFINE n == Len(received') - Len(commandQueue')
  <2>3. ASSUME NEW i \in 1..Len(commandQueue') PROVE commandQueue'[i] = received'[n + i]
    <3>1. CASE i = Len(commandQueue) + 1
      BY <2>2, <3>1
    <3>2. CASE i \in 1..Len(commandQueue)
      <4>1. n + i = Len(received) - Len(commandQueue) + i /\ n + i \in 1..Len(received)
        BY <2>2, <3>2, LenProperties
      <4> QED
        BY <2>2, <3>2, <4>1
    <3> QED
      BY <2>2, <3>1, <3>2, LenProperties
  <2>4. Len(commandQueue') <= Len(received')
    BY <2>2, LenProperties
  <2> QED
    BY <2>3, <2>4
<1>2. CASE NextCommand
  <2>1. commandQueue # <<>> /\ commandQueue' = Tail(commandQueue) /\ received' = received
    BY <1>2 DEF NextCommand, At, TakesWhatIsThere
  <2>2. /\ Len(commandQueue') = Len(commandQueue) - 1
        /\ \A i \in 1..Len(commandQueue') : commandQueue'[i] = commandQueue[i + 1]
    BY <2>1, HeadTailProperties
  <2> QED
    BY <2>1, <2>2, LenProperties
<1>3. CASE UNCHANGED queueVars
  BY <1>3 DEF queueVars
<1>4. Arrive \/ NextCommand \/ UNCHANGED queueVars
  BY DEF Next, MainStep, vars, Connected, ConnectionLost, ConnectFails, SpuriousWake,
     ConnectDone, IsCommand, Wait, Ignore, Read, ReadThrows, Stop, Start, CallStop,
     Launch, Exit, ExitStop, Return, StopStep, Advance, WorkerWakes, WorkerStops,
     WorkerCalls, Malformed, Gone
<1> QED
  BY <1>1, <1>2, <1>3, <1>4

\* What was taken is what was received but for the commands in the queue.
LEMMA TakenIsReceived ==
    ASSUME TakeOK, QueueOK
    PROVE  /\ Taken \in Seq(Commands)
           /\ Len(received) - Len(commandQueue) \in Nat
           /\ Len(Taken) = Len(received) - Len(commandQueue)
           /\ \A i \in 1..Len(Taken) : Taken[i] = received[i]
<1> DEFINE n == Len(received) - Len(commandQueue)
<1>1. /\ received \in Seq(Commands) /\ n \in Nat /\ n <= Len(received)
      /\ Len(received) \in Nat
  BY LenProperties DEF TakeOK, MainTypeOK, QueueOK
<1>2. \A i \in 1..n : received[i] \in Commands
  BY <1>1, ElementOfSeq
<1> QED
  BY <1>1, <1>2, SubSeqProperties DEF Taken

\* So what was taken, followed by the queue, is what was received.
LEMMA QueueInOrder == ASSUME TakeOK, QueueOK PROVE CommandsInOrder
<1> DEFINE n == Len(received) - Len(commandQueue)
<1>1. /\ received \in Seq(Commands) /\ commandQueue \in Seq(Commands)
      /\ n \in Nat /\ n <= Len(received) /\ Len(commandQueue) \in Nat
      /\ Len(received) \in Nat
  BY LenProperties DEF TakeOK, MainTypeOK, QueueOK
<1>2. /\ Taken \in Seq(Commands)
      /\ Len(Taken) = n
      /\ \A i \in 1..n : Taken[i] = received[i]
  BY TakenIsReceived
<1>3. /\ Taken \o commandQueue \in Seq(Commands)
      /\ Len(Taken \o commandQueue) = Len(received)
      /\ \A i \in 1..Len(received) :
           (Taken \o commandQueue)[i] = IF i <= n THEN Taken[i] ELSE commandQueue[i - n]
  BY <1>1, <1>2, ConcatProperties
<1>4. ASSUME NEW i \in 1..Len(received) PROVE received[i] = (Taken \o commandQueue)[i]
  <2>1. CASE i <= n
    BY <1>1, <1>2, <1>3, <2>1
  <2>2. CASE ~(i <= n)
    <3>1. i - n \in 1..Len(commandQueue) /\ n + (i - n) = i
      BY <1>1, <2>2
    <3>2. commandQueue[i - n] = received[n + (i - n)]
      BY <3>1 DEF QueueOK
    <3> QED
      BY <1>3, <2>2, <3>1, <3>2
  <2> QED
    BY <2>1, <2>2
<1> QED
  BY <1>1, <1>3, <1>4, SeqEqual DEF CommandsInOrder

-----------------------------------------------------------------------------
(***************************************************************************)
(* EXIT.                                                                   *)
(***************************************************************************)
\* The process has no thread, or main() is about to join it.
Joined(p) == handle[p] = "none" \/ (step[Main] # "idle" /\ target[Main] = p)

Leaving == pc \in {"exit", "disconnect", "returned"}

ExitOK ==
    /\ Leaving => args.action = "exit"
    /\ Leaving /\ args.url \notin Invalid => \A p \in Procs \ ids : Joined(p)
    /\ pc \in {"disconnect", "returned"} /\ args.url \notin Invalid => ids = {}
    /\ pc = "returned" => Idle

\* A step of the processes makes no new thread, but for start().
ProcessMoves ==
    \/ \E t \in Procs \cup {Main} : Proc!StopStep(t)
    \/ \E t, p \in Procs : Proc!StopCheck(t, p)
    \/ \E p \in Procs : Proc!Advance(p) \/ Proc!SpuriousWake(p)

LEMMA JoinedStays ==
    ASSUME PP!HandleInv, NEW p \in Procs, Joined(p), ProcessMoves PROVE Joined(p)'
<1> USE NamesDiffer DEF Joined, PP!HandleInv, PP!TypeOK, PP!Threads
<1>1. ASSUME NEW t \in Procs \cup {Main}, PP!StopRequest(t) \/ PP!StopNotify(t) \/ PP!StopJoin(t)
      PROVE  Joined(p)'
  BY <1>1 DEF PP!StopRequest, PP!StopNotify, PP!StopJoin, PP!Goto
<1>2. ASSUME NEW t \in Procs \cup {Main}, PP!StopJoined(t) PROVE Joined(p)'
  BY <1>2 DEF PP!StopJoined, PP!Goto, PP!TargetOK
<1>3. ASSUME NEW t \in Procs \cup {Main}, PP!StopClear(t) PROVE Joined(p)'
  BY <1>3 DEF PP!StopClear, PP!Goto, PP!JoinerOK, PP!TargetOK
<1>4. ASSUME NEW t \in Procs, NEW q \in Procs, Proc!StopCheck(t, q) PROVE Joined(p)'
  BY <1>4 DEF Proc!StopCheck, Proc!Goto
<1>5. ASSUME NEW q \in Procs, PP!RunStep(q) PROVE Joined(p)'
  <2>1. step' = step /\ target' = target /\ phase[q] # "idle"
    BY <1>5 DEF PP!RunStep, PP!Advance, PP!SpuriousWake, PP!EnterLoop, PP!TestStop,
       PP!Sleep, PP!BreakLoop, PP!Timeout, PP!WakeTest, PP!RunReturn, PP!Moves
  <2>2. handle' = handle \/ handle' = [handle EXCEPT ![q] = "finished"]
    BY <1>5 DEF PP!RunStep, PP!Advance, PP!SpuriousWake, PP!EnterLoop, PP!TestStop,
       PP!Sleep, PP!BreakLoop, PP!Timeout, PP!WakeTest, PP!RunReturn
  <2>3. handle[q] = "alive"
    BY <2>1 DEF PP!AliveOK
  <2> QED
    BY <2>1, <2>2, <2>3
<1>6. ASSUME NEW t \in Procs \cup {Main}, Proc!StopStep(t) PROVE Joined(p)'
  BY <1>1, <1>2, <1>3, <1>6, StopsInSteps DEF PP!StopStep
<1>7. ASSUME NEW q \in Procs, Proc!Advance(q) \/ Proc!SpuriousWake(q) PROVE Joined(p)'
  BY <1>5, <1>7, RunsInSteps
<1> QED
  BY <1>4, <1>6, <1>7 DEF ProcessMoves

\* Of those steps, only a stop() that main() is in concerns main().
LEMMA IdleStays ==
    ASSUME PP!HandleInv, ProcessMoves, Idle PROVE Idle' /\ target'[Main] = target[Main]
BY NamesDiffer DEF ProcessMoves, Idle, PP!HandleInv, PP!TypeOK, PP!Threads, Proc!StopStep,
   Proc!StopRequest, Proc!StopNotify, Proc!StopJoin, Proc!StopJoined, Proc!StopClear,
   Proc!StopCheck, Proc!Goto, Proc!Advance, Proc!SpuriousWake, Proc!EnterLoop,
   Proc!TestStop, Proc!Sleep, Proc!BreakLoop, Proc!Timeout, Proc!WakeTest,
   Proc!RunReturn, Proc!Moves

\* After the end of the program nothing moves.
LEMMA NothingHappens == ASSUME terminated, [Next]_vars PROVE UNCHANGED vars
<1>1. \A t : ~Proc!StopStep(t)
  BY DEF Proc!StopStep, Proc!StopRequest, Proc!StopNotify, Proc!StopJoin,
     Proc!StopJoined, Proc!StopClear
<1>2. \A p : ~Proc!Advance(p) /\ ~Proc!SpuriousWake(p)
  BY DEF Proc!Advance, Proc!SpuriousWake, Proc!EnterLoop, Proc!TestStop, Proc!Sleep,
     Proc!BreakLoop, Proc!Timeout, Proc!WakeTest, Proc!RunReturn, Proc!Moves
<1>3. \A t, p : ~Proc!StopCheck(t, p)
  BY DEF Proc!StopCheck, Proc!CanCall
<1>4. Gone \/ UNCHANGED vars
  BY <1>1, <1>2, <1>3 DEF Next, MainStep, Connected, ConnectionLost, ConnectFails,
     SpuriousWake, Arrive, Malformed, ConnectDone, IsCommand, Wait, NextCommand, Ignore,
     Read, ReadThrows, Stop, Start, Launch, Exit, ExitStop, Return, At, Executes, StopStep,
     Advance, WorkerWakes, WorkerStops, WorkerCalls
<1> QED
  BY <1>4 DEF Gone

\* EXIT, once executed, ends in a state where every thread is joined
\* (Main.cpp:171-179).
LEMMA ExitStep == ASSUME TakeOK, PP!HandleInv, ExitOK, [Next]_vars PROVE ExitOK'
<1> USE NamesDiffer DEF TakeOK, MainTypeOK
<1>1. CASE ReadThrows \/ Malformed
  BY <1>1 DEF ReadThrows, Malformed, Dies, ExitOK, Leaving, Joined, Idle, mainVars
<1>2. CASE Return
  BY <1>2 DEF Return, At, ExitOK, Leaving, Joined, Idle
<1>3. CASE pc' \notin {"exit", "disconnect", "returned"}
  BY <1>3 DEF ExitOK, Leaving
<1>4. CASE UNCHANGED <<pvars, pc, args, ids>>
  BY <1>4 DEF pvars, ExitOK, Leaving, Joined, Idle
<1>5. CASE NextCommand
  BY <1>5 DEF NextCommand, LoopCondition, ExitOK, Leaving
<1>6. CASE Exit
  BY <1>6 DEF Exit, Executes, ExitOK, Leaving
<1>7. ASSUME NEW p \in Procs, ExitStop(p) PROVE ExitOK'
  <2> USE <1>7 DEF ExitStop, At, CallStop
  <2>1. /\ pc = "exit" /\ args' = args /\ Idle /\ ids' = ids \ {p}
        /\ pc' \in {"exit", "disconnect"} /\ (pc' = "disconnect" => ids' = {})
    OBVIOUS
  <2>2. args.action = "exit"
    BY <2>1 DEF ExitOK, Leaving
  <2>3. ASSUME NEW q \in Procs \ ids, Joined(q) PROVE Joined(q)'
    BY <2>1, <2>3 DEF Joined, Idle, Proc!StopCheck, pvars
  <2>4. Joined(p)'
    <3>1. CASE running[p]
      <4>1. Proc!StopCheck(Main, p)
        BY <3>1
      <4> QED
        BY <4>1 DEF Joined, Proc!StopCheck, Proc!Goto, PP!HandleInv, PP!TypeOK, PP!Threads
    <3>2. CASE ~running[p]
      BY <3>2 DEF Joined, pvars, PP!HandleInv, PP!RunningCoversHandle
    <3> QED
      BY <3>1, <3>2
  <2>5. args.url \notin Invalid => \A q \in Procs \ ids' : Joined(q)'
    BY <2>1, <2>3, <2>4 DEF ExitOK, Leaving
  <2> QED
    BY <2>1, <2>2, <2>5 DEF ExitOK, Leaving
<1>8. ASSUME UNCHANGED <<pc, args, ids>>, ProcessMoves PROVE ExitOK'
  <2>1. \A q \in Procs : Joined(q) => Joined(q)'
    BY <1>8, JoinedStays
  <2>2. pc = "returned" => Idle'
    BY <1>8, IdleStays DEF ExitOK
  <2> QED
    BY <1>8, <2>1, <2>2 DEF ExitOK, Leaving
<1>9. CASE \/ Connected \/ ConnectionLost \/ Arrive \/ ConnectFails \/ SpuriousWake
           \/ ConnectDone \/ IsCommand \/ Wait \/ Ignore \/ Read
           \/ Stop \/ Start \/ Launch \/ Gone \/ UNCHANGED vars
  <2>1. CASE Gone \/ ConnectionLost \/ UNCHANGED vars
    BY <1>4, <2>1 DEF Gone, ConnectionLost, vars, mainVars
  <2>2. CASE Arrive
    BY <1>3, <1>4, <2>2 DEF Arrive
  <2>3. CASE Ignore
    <3>1. pc' = "disconnect" => args.action = "exit" /\ FALSE
      BY <2>3, UrlsDiffer DEF Ignore, LoopCondition
    <3>2. pc' \in {"disconnect", "check"}
      BY <2>3 DEF Ignore, LoopCondition
    <3> QED
      BY <1>3, <3>1, <3>2
  <2>4. CASE \/ Connected \/ ConnectFails \/ SpuriousWake \/ ConnectDone \/ IsCommand
             \/ Wait \/ Read \/ Stop \/ Start \/ Launch
    BY <1>3, <2>4 DEF Connected, ConnectFails, SpuriousWake, ConnectDone, IsCommand, Wait,
       Read, Stop, Start, CallStop, Launch
  <2> QED
    BY <1>9, <2>1, <2>2, <2>3, <2>4
<1> QED
  BY <1>1, <1>2, <1>5, <1>6, <1>7, <1>8, <1>9
     DEF Next, MainStep, StopStep, Advance, WorkerWakes, WorkerStops, WorkerCalls, mainVars,
         ProcessMoves

\* The program dies of the three exceptions, or of what PP!CollisionStep says.
LEMMA DiesStep ==
    ASSUME TakeOK, PP!HandleInv, ExitOK, DiesOfKnownCauses, [Next]_vars
    PROVE  DiesOfKnownCauses'
<1> USE NamesDiffer DEF TakeOK, MainTypeOK
<1>1. CASE ReadThrows
  BY <1>1 DEF ReadThrows, Executes, At, BrokerThrows, DiesOfKnownCauses, mainVars, mqttVars
<1>2. CASE Return
  <2>1. \A p \in Procs \ ids : Joined(p) => handle[p] = "none"
    BY <1>2 DEF Return, At, Idle, Joined
  <2>2. online /\ args.url \notin Invalid => ~terminated'
    BY <1>2, <2>1 DEF Return, At, ExitOK, Leaving, BrokerThrows
  <2>3. args' = args /\ args.action = "exit" /\ online' = online
    BY <1>2 DEF Return, At, ExitOK, Leaving, mqttVars
  <2> QED
    BY <2>2, <2>3 DEF DiesOfKnownCauses
<1>3. CASE Malformed
  BY <1>3 DEF Malformed, DiesOfKnownCauses
<1>4. CASE terminated
  <2>1. UNCHANGED vars
    BY <1>4, NothingHappens
  <2>2. \A t : Proc!Collides(t)' <=> Proc!Collides(t)
    BY <2>1 DEF vars, pvars, Proc!Collides, Proc!Threads
  <2> QED
    BY <2>1, <2>2 DEF vars, mainVars, mqttVars, pvars, DiesOfKnownCauses
<1>5. CASE ~terminated /\ ~Throws
  <2>1. PP!OnlyCollisionsTerminate
    BY <1>5 DEF PP!OnlyCollisionsTerminate
  <2>2. PP!OnlyCollisionsTerminate'
    BY <1>5, <2>1, ProcessStep, ProcessAssumptions, PP!CollisionStep
  <2>3. \A t : PP!Collides(t)' <=> Proc!Collides(t)'
    BY DEF PP!Collides, Proc!Collides, PP!Threads, Proc!Threads
  <2> QED
    BY <2>2, <2>3 DEF PP!OnlyCollisionsTerminate, PP!Threads, DiesOfKnownCauses
<1> QED
  BY <1>1, <1>2, <1>3, <1>4, <1>5 DEF Throws, PP!HandleInv, PP!TypeOK

-----------------------------------------------------------------------------
(***************************************************************************)
(* What was ordered, and what was answered.                                *)
(***************************************************************************)
\* Only nextCommand adds to what was taken.
LEMMA TakenStep ==
    ASSUME TakeOK, QueueOK, [Next]_vars
    PROVE  /\ \A i \in 1..Len(Taken) : Taken'[i] = Taken[i]
           /\ Len(Taken) \in Nat
           /\ \/ ~NextCommand /\ Len(Taken') = Len(Taken)
              \/ /\ NextCommand /\ Len(Taken') = Len(Taken) + 1
                 /\ Taken'[Len(Taken) + 1] = args'
<1> USE DEF TakeOK, MainTypeOK
<1>0. TakeOK' /\ QueueOK'
  BY TakeStep, QueueStep
<1>1. /\ Len(Taken) = Len(received) - Len(commandQueue) /\ Len(Taken) \in Nat
      /\ Len(Taken) <= Len(received)
      /\ \A i \in 1..Len(Taken) : Taken[i] = received[i]
  BY TakenIsReceived, LenProperties
<1>2. /\ Len(Taken') = Len(received') - Len(commandQueue')
      /\ \A i \in 1..Len(Taken') : Taken'[i] = received'[i]
  <2>1. (/\ Len(Taken) = Len(received) - Len(commandQueue)
         /\ \A i \in 1..Len(Taken) : Taken[i] = received[i])'
    BY <1>0, TakenIsReceived, PTL
  <2> QED
    BY <2>1
<1>3. CASE Arrive
  <2>1. PICK c \in Commands : /\ commandQueue' = Append(commandQueue, c)
                              /\ received' = Append(received, c)
    BY <1>3 DEF Arrive, Arriving
  <2>2. /\ Len(commandQueue') = Len(commandQueue) + 1
        /\ Len(received') = Len(received) + 1
        /\ \A i \in 1..Len(received) : received'[i] = received[i]
    BY <2>1, AppendProperties
  <2>3. Len(Taken') = Len(Taken)
    BY <1>1, <1>2, <2>2, LenProperties
  <2>4. ~NextCommand
    BY <2>1, <2>2, LenProperties DEF NextCommand
  <2>5. ASSUME NEW i \in 1..Len(Taken) PROVE Taken'[i] = Taken[i]
    <3>1. i \in 1..Len(received)
      BY <1>1, LenProperties
    <3> QED
      BY <1>1, <1>2, <2>2, <2>3, <3>1
  <2> QED
    BY <1>1, <2>3, <2>4, <2>5
<1>4. CASE NextCommand
  <2>1. /\ commandQueue # <<>> /\ commandQueue' = Tail(commandQueue)
        /\ received' = received /\ args' = Head(commandQueue)
    BY <1>4 DEF NextCommand, At, TakesWhatIsThere
  <2>2. /\ Len(commandQueue') = Len(commandQueue) - 1 /\ args' = commandQueue[1]
        /\ Len(commandQueue) \in Nat /\ Len(commandQueue) > 0
    BY <2>1, HeadTailProperties, LenProperties, EmptySeq
  <2>3. commandQueue[1] = received[Len(received) - Len(commandQueue) + 1]
    BY <2>2 DEF QueueOK
  <2>4. Len(received) \in Nat /\ Len(received') = Len(received)
    BY <2>1, LenProperties
  <2>5. Len(Taken') = Len(Taken) + 1
    BY <1>1, <1>2, <2>2, <2>4
  <2>6. ASSUME NEW i \in 1..Len(Taken) PROVE Taken'[i] = Taken[i]
    BY <1>1, <1>2, <2>1, <2>5
  <2>7. Taken'[Len(Taken) + 1] = args'
    <3>1. Len(Taken) + 1 \in 1..Len(Taken') /\ Len(Taken) + 1 = Len(received) - Len(commandQueue) + 1
      BY <1>1, <2>2, <2>4, <2>5
    <3> QED
      BY <1>2, <2>1, <2>2, <2>3, <3>1
  <2> QED
    BY <1>1, <1>4, <2>5, <2>6, <2>7
<1>5. CASE UNCHANGED queueVars
  <2>1. ~NextCommand
    <3>1. ASSUME NextCommand PROVE FALSE
      <4>1. commandQueue # <<>> /\ commandQueue' = Tail(commandQueue)
        BY <3>1 DEF NextCommand, At, TakesWhatIsThere
      <4>2. Len(commandQueue') = Len(commandQueue) - 1 /\ Len(commandQueue) \in Nat
        BY <4>1, HeadTailProperties, LenProperties
      <4> QED
        BY <1>5, <4>2 DEF queueVars
    <3> QED
      BY <3>1
  <2> QED
    BY <1>1, <1>5, <2>1 DEF queueVars, Taken
<1>6. Arrive \/ NextCommand \/ UNCHANGED queueVars
  BY DEF Next, MainStep, vars, Connected, ConnectionLost, ConnectFails, SpuriousWake,
     ConnectDone, IsCommand, Wait, Ignore, Read, ReadThrows, Stop, Start, CallStop,
     Launch, Exit, ExitStop, Return, StopStep, Advance, WorkerWakes, WorkerStops,
     WorkerCalls, Malformed, Gone
<1> QED
  BY <1>3, <1>4, <1>5, <1>6

\* The last command decides, if it is an order to the process; a command that is
\* none does not change what was ordered.
LEMMA LastDecides ==
    ASSUME TakeOK, QueueOK, NEW p, Len(Taken) # 0, IsOrder(Taken[Len(Taken)], p)
    PROVE  OrderedToRun(p) <=> Taken[Len(Taken)].action = "start"
<1>1. Len(Taken) \in 1..Len(Taken) /\ Len(Taken) \in Nat
  BY TakenIsReceived
<1> QED
  BY <1>1 DEF OrderedToRun

\* What was ordered stands until the next order to the process.
LEMMA OrdersStand ==
    ASSUME TakeOK, QueueOK, [Next]_vars, NEW p, NextCommand => ~IsOrder(args', p)
    PROVE  OrderedToRun(p)' <=> OrderedToRun(p)
<1> DEFINE n == Len(Taken)
<1>0. /\ n \in Nat /\ \A i \in 1..n : Taken'[i] = Taken[i]
      /\ \/ ~NextCommand /\ Len(Taken') = n
         \/ NextCommand /\ Len(Taken') = n + 1 /\ Taken'[n + 1] = args'
  BY TakenStep
<1>1. OrderedToRun(p)' <=>
        \E i \in 1..Len(Taken') :
           /\ IsOrder(Taken'[i], p) /\ Taken'[i].action = "start"
           /\ \A j \in (i + 1)..Len(Taken') : ~IsOrder(Taken'[j], p)
  BY DEF OrderedToRun, IsOrder
<1>2. OrderedToRun(p) <=>
        \E i \in 1..n :
           /\ IsOrder(Taken[i], p) /\ Taken[i].action = "start"
           /\ \A j \in (i + 1)..n : ~IsOrder(Taken[j], p)
  BY DEF OrderedToRun
<1> HIDE DEF n
<1>3. CASE ~NextCommand /\ Len(Taken') = n
  BY <1>0, <1>1, <1>2, <1>3
<1>4. CASE NextCommand /\ Len(Taken') = n + 1 /\ Taken'[n + 1] = args'
  <2>1. ~IsOrder(Taken'[n + 1], p)
    BY <1>4
  <2> QED
    BY <1>0, <1>1, <1>2, <1>4, <2>1
<1> QED
  BY <1>0, <1>3, <1>4

\* A process whose state the order under way has yet to change
Busy(p) ==
    \/ pc \in {"execute", "launch"} /\ IsOrder(args, p)
    \/ ~Idle /\ target[Main] = p

\* It runs only if it was ordered to, and if it was, unless it was preempted.
Stands(p) == /\ running[p] => OrderedToRun(p)
             /\ OrderedToRun(p) => running[p] \/ p \in preempted

\* Any other process is in the state it was ordered to be in; and the command
\* under way, or the stop() it called, is the last order.
OrdersOK ==
    /\ pc \in {"execute", "launch"} => Len(Taken) # 0 /\ Taken[Len(Taken)] = args
    /\ pc = "launch" => args.action = "start"
    /\ ~Idle => pc \in {"check", "launch", "exit", "disconnect", "returned"}
    /\ ~Idle /\ pc = "check" => ~OrderedToRun(target[Main])
    /\ ~Idle /\ pc = "launch" => target[Main] = args.url
    /\ ~Leaving =>
         \A p \in Procs : ~Busy(p) => Stands(p)

\* An order is carried out by the steps of one stop(), if the process runs, and
\* of one start(); workers that end their runs leave running as it is, and what a
\* worker stops is preempted.
LEMMA OrdersStep ==
    ASSUME TakeOK, QueueOK, PP!HandleInv, OrdersOK, [Next]_vars
    PROVE  OrdersOK'
<1> USE DEF TakeOK, MainTypeOK, LaunchOK
<1> DEFINE Resting == {"connect", "check", "wait", "waiting", "take"}
<1>0. /\ Idle <=> step[Main] = "idle"
      /\ running \in [Procs -> BOOLEAN] /\ step \in [Procs \cup {Main} -> PP!Steps]
  BY DEF Idle, PP!HandleInv, PP!TypeOK, PP!Threads
<1>a. ~NextCommand =>
        /\ \A p : OrderedToRun(p)' <=> OrderedToRun(p)
        /\ Len(Taken') = Len(Taken)
        /\ Len(Taken) # 0 => Taken'[Len(Taken')] = Taken[Len(Taken)]
  <2>1. ~NextCommand => \A p : OrderedToRun(p)' <=> OrderedToRun(p)
    BY OrdersStand
  <2>2. /\ \A i \in 1..Len(Taken) : Taken'[i] = Taken[i]
        /\ Len(Taken) \in Nat /\ (~NextCommand => Len(Taken') = Len(Taken))
    BY TakenStep
  <2>3. Len(Taken) # 0 => Len(Taken) \in 1..Len(Taken)
    BY <2>2
  <2> QED
    BY <2>1, <2>2, <2>3
<1>1. ASSUME ~NextCommand, UNCHANGED <<running, preempted, args>>,
             step'[Main] = step[Main], target'[Main] = target[Main],
             \/ pc' = pc
             \/ pc \in Resting /\ pc' \in Resting /\ (Idle \/ pc' = "check")
      PROVE OrdersOK'
  <2>1. \A p : Busy(p)' <=> Busy(p)
    BY <1>1 DEF Busy, Idle
  <2>2. \A p : Stands(p)' <=> Stands(p)
    BY <1>a, <1>1 DEF Stands
  <2>3. OrderedToRun(target[Main])' <=> OrderedToRun(target'[Main])
    <3>1. \A p : p = target'[Main] => (OrderedToRun(target[Main])' <=> OrderedToRun(p)')
      BY DEF OrderedToRun, IsOrder
    <3> QED
      BY <1>a, <1>1, <3>1
  <2> QED
    BY <1>a, <1>1, <2>1, <2>2, <2>3 DEF OrdersOK, Idle, Leaving
<1>2. ASSUME ~NextCommand, UNCHANGED <<running, preempted, step, target, args>>, Idle,
             pc = "execute", \A p \in Procs : ~IsOrder(args, p), pc' # "execute", pc' # "launch"
      PROVE OrdersOK'
  <2>1. \A p \in Procs : ~Busy(p) /\ ~Busy(p)'
    BY <1>2 DEF Busy, Idle
  <2>2. \A p : Stands(p)' <=> Stands(p)
    BY <1>a, <1>2 DEF Stands
  <2> QED
    BY <1>a, <1>2, <2>1, <2>2 DEF OrdersOK, Idle, Leaving
<1>3. ASSUME pc' \in {"exit", "disconnect", "returned"} PROVE OrdersOK'
  BY <1>3 DEF OrdersOK, Leaving
<1>4. CASE Connected \/ ConnectionLost \/ Arrive \/ ConnectFails \/ SpuriousWake
           \/ ConnectDone \/ IsCommand \/ Wait \/ ReadThrows \/ Malformed
  <2>1. UNCHANGED <<running, preempted, step, target, args>>
    BY <1>4 DEF Connected, ConnectionLost, Arrive, ConnectFails, SpuriousWake, ConnectDone,
       IsCommand, Wait, ReadThrows, Malformed, Dies, pvars, mainVars
  <2>2. \/ pc' = pc
        \/ pc \in Resting /\ pc' \in Resting /\ (Idle \/ pc' = "check")
    BY <1>4 DEF Connected, ConnectionLost, Arrive, ConnectFails, SpuriousWake, ConnectDone,
       IsCommand, Wait, ReadThrows, Malformed, mainVars, At
  <2>3. ~NextCommand \/ (NextCommand /\ pc = "take" /\ pc' # pc)
    BY DEF NextCommand, At, LoopCondition
  <2>4. ~NextCommand
    BY <1>4, <2>2, <2>3 DEF Connected, ConnectionLost, Arrive, ConnectFails, SpuriousWake,
       ConnectDone, IsCommand, Wait, ReadThrows, Malformed, mainVars, At, Executes
  <2> QED
    BY <1>1, <2>1, <2>2, <2>4
<1>5. CASE NextCommand
  <2>1. /\ Idle /\ pc = "take" /\ UNCHANGED <<running, preempted, step, target>>
        /\ pc' = IF args'.url \in Invalid THEN LoopCondition(args') ELSE "execute"
    BY <1>5 DEF NextCommand, At, pvars
  <2>2. Len(Taken') = Len(Taken) + 1 /\ Len(Taken) \in Nat /\ Taken'[Len(Taken) + 1] = args'
    BY <1>5, TakenStep
  <2>3. \A p \in Procs : ~IsOrder(args', p) => (OrderedToRun(p)' <=> OrderedToRun(p))
    BY OrdersStand
  <2>4. \A p \in Procs : Stands(p)
    BY <2>1 DEF OrdersOK, Busy, Leaving
  <2>8. \A p \in Procs : ~IsOrder(args', p) => Stands(p)'
    BY <2>1, <2>3, <2>4 DEF Stands
  <2>5. Idle'
    BY <2>1 DEF Idle
  <2>6. CASE args'.url \in Invalid
    <3>1. \A p \in Procs : ~IsOrder(args', p)
      BY <2>6, UrlsDiffer DEF IsOrder
    <3>2. pc' \in {"disconnect", "check"}
      BY <2>1, <2>6 DEF LoopCondition
    <3> QED
      BY <2>1, <2>5, <2>8, <3>1, <3>2 DEF OrdersOK, Leaving
  <2>7. CASE args'.url \notin Invalid
    <3>1. pc' = "execute"
      BY <2>1, <2>7
    <3>2. Len(Taken') # 0 /\ Taken'[Len(Taken')] = args'
      BY <2>2
    <3>3. \A p \in Procs : ~Busy(p)' => ~IsOrder(args', p)
      BY <3>1 DEF Busy, IsOrder
    <3> QED
      BY <2>1, <2>5, <2>8, <3>1, <3>2, <3>3 DEF OrdersOK, Leaving
  <2> QED
    BY <2>6, <2>7
<1>b. pc # "take" => ~NextCommand
  BY DEF NextCommand, At
<1>6. CASE Ignore \/ Read
  <2>1. /\ UNCHANGED <<running, preempted, step, target, args>> /\ Idle /\ pc = "execute"
        /\ pc' # "execute" /\ pc' # "launch"
    BY <1>6 DEF Ignore, Read, Executes, At, LoopCondition, pvars
  <2>2. \A p \in Procs : ~IsOrder(args, p)
    BY <1>6 DEF Ignore, Read, Executes, IsOrder
  <2> QED
    BY <1>2, <1>b, <2>1, <2>2
<1>7. ASSUME NEW then \in {"check", "launch"}, pc = "execute", Idle, args.url \in Procs,
             CallStop(args.url, then),
             args.action = IF then = "check" THEN "stop" ELSE "start", args' = args
      PROVE OrdersOK'
  <2> DEFINE p == args.url
  <2>1. IsOrder(args, p) /\ (OrderedToRun(p) <=> then = "launch")
    BY <1>7, LastDecides DEF OrdersOK, IsOrder
  <2>2. \A q \in Procs : q # p => ~IsOrder(args, q) /\ Stands(q)
    BY <1>7 DEF OrdersOK, Busy, IsOrder, Leaving
  <2>3. pc' = then /\ running' = running /\ preempted' = preempted
    BY <1>7 DEF CallStop, Proc!StopCheck, pvars
  <2>4. \/ ~running[p] /\ UNCHANGED <<step, target>>
        \/ running[p] /\ step'[Main] # "idle" /\ target'[Main] = p
    BY <1>0, <1>7 DEF CallStop, Proc!StopCheck, Proc!Goto, pvars, PP!HandleInv,
       PP!TypeOK, PP!Threads
  <2>5. /\ \A q : OrderedToRun(q)' <=> OrderedToRun(q)
        /\ Len(Taken') # 0 /\ Taken'[Len(Taken')] = args'
    BY <1>a, <1>b, <1>7 DEF OrdersOK
  <2> HIDE DEF p
  <2>6. OrderedToRun(target[Main])' <=> OrderedToRun(target'[Main])
    <3>1. \A q : q = target'[Main] => (OrderedToRun(target[Main])' <=> OrderedToRun(q)')
      BY DEF OrderedToRun, IsOrder
    <3> QED
      BY <2>5, <3>1
  <2>7. ASSUME NEW q \in Procs, ~Busy(q)' PROVE Stands(q)'
    <3>1. CASE q = p
      <4>1. then = "check" /\ ~running[p]
        BY <1>7, <2>1, <2>3, <2>4, <2>7, <3>1 DEF Busy, Idle, IsOrder
      <4> QED
        BY <2>1, <2>3, <2>5, <3>1, <4>1 DEF Stands
    <3>2. CASE q # p
      BY <2>2, <2>3, <2>5, <3>2 DEF Stands
    <3> QED
      BY <3>1, <3>2
  <2> QED
    BY <1>7, <2>1, <2>3, <2>4, <2>5, <2>6, <2>7 DEF OrdersOK, Idle, Leaving, p
<1>8. CASE Stop
  BY <1>7, <1>8 DEF Stop, Executes, At, CallStop
<1>9. CASE Start
  BY <1>7, <1>9 DEF Start, Executes, At, CallStop
<1>10. CASE Launch
  <2> DEFINE p == args.url
  <2>1. /\ pc = "launch" /\ Idle /\ p \in Procs /\ pc' = "check" /\ args' = args
        /\ running' = [running EXCEPT ![p] = TRUE] /\ UNCHANGED <<step, target>>
        /\ preempted' = preempted \ {p}
    BY <1>10 DEF Launch, At, Proc!Start
  <2>2. OrderedToRun(p)
    BY <2>1, LastDecides DEF OrdersOK, IsOrder
  <2>3. \A q \in Procs : q # p => Stands(q)
    BY <2>1 DEF OrdersOK, Busy, IsOrder, Leaving
  <2>4. \A q : OrderedToRun(q)' <=> OrderedToRun(q)
    BY <1>a, <1>b, <2>1
  <2> HIDE DEF p
  <2>5. \A q \in Procs : Stands(q)'
    BY <1>0, <2>1, <2>2, <2>3, <2>4 DEF Stands
  <2> QED
    BY <2>1, <2>5 DEF OrdersOK, Idle
<1>11. CASE Exit \/ Return \/ \E p \in Procs : ExitStop(p)
  BY <1>3, <1>11 DEF Exit, Return, ExitStop, CallStop
<1>12. CASE StopStep
  <2>1. PP!StopStep(Main) /\ UNCHANGED <<pc, args, preempted>> /\ step[Main] # "idle"
    BY <1>12, StopsInSteps DEF StopStep, mainVars, PP!StopStep, PP!StopRequest, PP!StopNotify,
       PP!StopJoin, PP!StopJoined, PP!StopClear
  <2>a. ~Idle /\ ~NextCommand
    BY <2>1 DEF Idle, NextCommand, At
  <2>2. CASE ~PP!StopClear(Main)
    <3>1. UNCHANGED <<running, target>> /\ step'[Main] # "idle"
      BY <1>0, <2>1, <2>2 DEF PP!StopStep, PP!StopRequest, PP!StopNotify, PP!StopJoin,
         PP!StopJoined, PP!Goto
    <3>2. \A p : Busy(p)' <=> Busy(p)
      BY <2>1, <3>1 DEF Busy, Idle
    <3>3. OrderedToRun(target[Main])' <=> OrderedToRun(target[Main])
      <4>1. \A q : q = target'[Main] => (OrderedToRun(target[Main])' <=> OrderedToRun(q)')
        BY DEF OrderedToRun, IsOrder
      <4> QED
        BY <1>a, <2>a, <3>1, <4>1
    <3>4. \A p : Stands(p)' <=> Stands(p)
      BY <1>a, <2>a, <2>1, <3>1 DEF Stands
    <3> QED
      BY <1>a, <2>a, <2>1, <3>1, <3>2, <3>3, <3>4 DEF OrdersOK, Idle, Leaving
  <2>3. CASE PP!StopClear(Main)
    <3> DEFINE p == target[Main]
    <3>1. running' = [running EXCEPT ![p] = FALSE] /\ step'[Main] = "idle" /\ p \in Procs
      BY <1>0, <2>1, <2>3 DEF PP!StopClear, PP!Goto, PP!HandleInv, PP!TargetOK,
         PP!Threads
    <3>2. CASE pc = "check"
      <4>1. ~OrderedToRun(p) /\ \A q \in Procs : q # p => Stands(q)
        BY <2>a, <3>2 DEF OrdersOK, Busy, Leaving
      <4> HIDE DEF p
      <4>2. \A q \in Procs : Stands(q)'
        BY <1>0, <1>a, <2>a, <2>1, <3>1, <4>1 DEF Stands
      <4> QED
        BY <2>1, <3>1, <3>2, <4>2 DEF OrdersOK, Idle
    <3>3. CASE pc = "launch"
      <4>1. p = args.url /\ args.action = "start"
        BY <2>a, <3>3 DEF OrdersOK
      <4>2. \A q \in Procs : q # p => Stands(q)
        BY <3>3, <4>1 DEF OrdersOK, Busy, Leaving, IsOrder
      <4>3. \A q \in Procs : ~Busy(q)' => q # p
        BY <2>1, <3>3, <4>1 DEF Busy, IsOrder
      <4> HIDE DEF p
      <4>4. \A q \in Procs : q # p => Stands(q)'
        BY <1>0, <1>a, <2>a, <2>1, <3>1, <4>2 DEF Stands
      <4> QED
        BY <1>a, <2>a, <2>1, <3>1, <3>3, <4>3, <4>4 DEF OrdersOK, Idle
    <3> QED
      BY <1>3, <2>a, <2>1, <3>2, <3>3 DEF OrdersOK
  <2> QED
    BY <2>2, <2>3
<1>13. ASSUME NEW p \in Procs, Advance(p) \/ WorkerWakes(p) PROVE OrdersOK'
  <2>1. UNCHANGED <<running, preempted, step, target>>
    BY <1>13 DEF Advance, WorkerWakes, Proc!Advance, Proc!SpuriousWake, Proc!EnterLoop,
       Proc!TestStop, Proc!Sleep, Proc!BreakLoop, Proc!Timeout, Proc!WakeTest,
       Proc!RunReturn, Proc!Moves
  <2>2. pc' = pc /\ args' = args
    BY <1>13 DEF Advance, WorkerWakes, mainVars
  <2>3. ~NextCommand
    BY <2>2 DEF NextCommand, At, LoopCondition
  <2> QED
    BY <1>1, <2>1, <2>2, <2>3
<1>14. CASE Gone \/ UNCHANGED vars
  <2>1. UNCHANGED vars
    BY <1>14 DEF Gone
  <2>2. ~NextCommand
    BY <2>1 DEF NextCommand, At, LoopCondition, vars, mainVars
  <2> QED
    BY <1>1, <2>1, <2>2 DEF vars, pvars, mainVars
<1>15. ASSUME NEW t \in Procs, WorkerStops(t) \/ \E p \in Procs : WorkerCalls(t, p)
       PROVE  OrdersOK'
  <2>1. /\ Proc!StopStep(t) \/ \E p \in Procs : Proc!StopCheck(t, p)
        /\ pc' = pc /\ args' = args
    BY <1>15 DEF WorkerStops, WorkerCalls, mainVars
  <2>2. step'[Main] = step[Main] /\ target'[Main] = target[Main]
    BY <2>1, NamesDiffer DEF Proc!StopStep, Proc!StopRequest, Proc!StopNotify, Proc!StopJoin,
       Proc!StopJoined, Proc!StopClear, Proc!StopCheck, Proc!Goto, PP!HandleInv, PP!TypeOK,
       PP!Threads
  <2>3. ~NextCommand
    BY <2>1 DEF NextCommand, At, LoopCondition
  <2>4. CASE running' = running /\ preempted' = preempted
    BY <1>1, <2>1, <2>2, <2>3, <2>4
  <2>5. CASE ~(running' = running /\ preempted' = preempted)
    <3> DEFINE p == target[t]
    <3>1. running' = [running EXCEPT ![p] = FALSE] /\ preempted' = preempted \cup {p}
      BY <1>15, <2>5 DEF WorkerStops, WorkerCalls, Proc!StopStep, Proc!StopRequest,
         Proc!StopNotify, Proc!StopJoin, Proc!StopJoined, Proc!StopClear, Proc!StopCheck
    <3> HIDE DEF p
    <3>2. \A q \in Procs : Stands(q) \/ q = p => Stands(q)'
      BY <1>0, <1>a, <2>3, <3>1 DEF Stands
    <3>3. \A q : Busy(q)' <=> Busy(q)
      BY <2>1, <2>2 DEF Busy, Idle
    <3>4. OrderedToRun(target[Main])' <=> OrderedToRun(target'[Main])
      <4>1. \A q : q = target'[Main] => (OrderedToRun(target[Main])' <=> OrderedToRun(q)')
        BY DEF OrderedToRun, IsOrder
      <4> QED
        BY <1>a, <2>2, <2>3, <4>1
    <3> QED
      BY <1>a, <2>1, <2>2, <2>3, <3>2, <3>3, <3>4 DEF OrdersOK, Idle, Leaving
  <2> QED
    BY <2>4, <2>5
<1> QED
  BY <1>4, <1>5, <1>6, <1>8, <1>9, <1>10, <1>11, <1>12, <1>13, <1>14, <1>15
     DEF Next, MainStep


\* The READs answered up to the i-th command
Before(i) == {j \in Answered : j <= i}

\* They are finitely many, and each has its place among them.
LEMMA AnsweredFinite ==
    ASSUME TakeOK, QueueOK
    PROVE  /\ IsFiniteSet(Answered)
           /\ Cardinality(Answered) \in Nat
           /\ \A i \in Answered : Cardinality(Before(i)) \in 1..Cardinality(Answered)
<1>1. IsFiniteSet(1..Len(Taken))
  BY TakenIsReceived, FS_Interval
<1>2. IsFiniteSet(Answered) /\ Cardinality(Answered) \in Nat
  <2>1. Answered \in SUBSET (1..Len(Taken))
    BY DEF Answered
  <2>2. IsFiniteSet(Answered)
    BY <1>1, <2>1, FS_Subset
  <2> QED
    BY <2>2, FS_CardinalityType
<1>3. ASSUME NEW i \in Answered PROVE Cardinality(Before(i)) \in 1..Cardinality(Answered)
  <2>1. Before(i) \in SUBSET Answered /\ i \in Before(i)
    BY TakenIsReceived DEF Before, Answered
  <2>2. IsFiniteSet(Before(i)) /\ Cardinality(Before(i)) <= Cardinality(Answered)
    BY <1>2, <2>1, FS_Subset
  <2>3. Cardinality(Before(i)) \in Nat /\ Cardinality(Before(i)) # 0
    BY <2>1, <2>2, FS_CardinalityType, FS_EmptySet
  <2> QED
    BY <1>2, <2>2, <2>3
<1> QED
  BY <1>2, <1>3

\* A step that answers no READ leaves the answers in order.
LEMMA AnswersStand ==
    ASSUME TakeOK, QueueOK, [Next]_vars, AnswersInOrder,
           published' = published, Answered' = Answered
    PROVE  AnswersInOrder'
<1>1. \A i \in Answered : Taken'[i] = Taken[i]
  BY TakenStep DEF Answered
<1>2. \A i : {j \in Answered' : j <= i} = {j \in Answered : j <= i}
  OBVIOUS
<1> QED
  BY <1>1, <1>2 DEF AnswersInOrder

\* Read answers the last command taken; no other step leaves a READ behind.
LEMMA AnswersStep ==
    ASSUME TakeOK, QueueOK, OrdersOK, AnswersInOrder, [Next]_vars
    PROVE  AnswersInOrder'
<1> USE DEF TakeOK, MainTypeOK
<1> DEFINE n == Len(Taken)
<1>1. /\ n \in Nat /\ \A i \in 1..n : Taken'[i] = Taken[i]
      /\ \/ ~NextCommand /\ Len(Taken') = n
         \/ NextCommand /\ Len(Taken') = n + 1 /\ Taken'[n + 1] = args'
  BY TakenStep
<1>2. pc = "execute" => n # 0 /\ Taken[n] = args
  BY DEF OrdersOK
<1>3. Answered' =
        {i \in 1..Len(Taken') : IsRead(Taken'[i]) /\ (pc' = "execute" => i < Len(Taken'))}
  BY DEF Answered, IsRead
<1>4. Answered = {i \in 1..n : IsRead(Taken[i]) /\ (pc = "execute" => i < n)}
  BY DEF Answered
<1> HIDE DEF n
<1>5. CASE NextCommand
  <2>1. /\ pc = "take" /\ published' = published
        /\ pc' = IF args'.url \in Invalid THEN LoopCondition(args') ELSE "execute"
    BY <1>5 DEF NextCommand, At
  <2>2. pc' = "execute" \/ ~IsRead(args')
    BY <2>1, UrlsDiffer DEF IsRead
  <2>3. Answered' = Answered
    BY <1>1, <1>3, <1>4, <1>5, <2>1, <2>2
  <2> QED
    BY <2>1, <2>3, AnswersStand
<1>6. CASE Read
  <2>1. /\ pc = "execute" /\ pc' = "check" /\ IsRead(args) /\ args' = args
        /\ published' = Append(published, args.url) /\ args.url \in Readable
    BY <1>6 DEF Read, Executes, At, IsRead
  <2>2. Len(Taken') = n
    BY <1>1, <2>1 DEF NextCommand, At
  <2>3. n \notin Answered /\ Answered' = Answered \cup {n} /\ \A i \in Answered : i < n
    BY <1>1, <1>2, <1>3, <1>4, <2>1, <2>2
  <2>4. /\ IsFiniteSet(Answered) /\ Cardinality(Answered) = Len(published)
        /\ \A i \in Answered : Cardinality(Before(i)) \in 1..Len(published)
    BY AnsweredFinite DEF AnswersInOrder
  <2>5. Cardinality(Answered') = Len(published) + 1
    BY <2>3, <2>4, FS_AddElement
  <2>6. /\ Len(published') = Len(published) + 1 /\ published'[Len(published) + 1] = args.url
        /\ \A k \in 1..Len(published) : published'[k] = published[k]
    BY <2>1, AppendProperties
  <2>7. ASSUME NEW i \in Answered'
        PROVE published'[Cardinality({j \in Answered' : j <= i})] = Taken'[i].url
    <3>1. CASE i = n
      <4>1. \A j \in Answered' : j <= i
        BY <1>1, <1>3, <2>2, <3>1
      <4>2. {j \in Answered' : j <= i} = Answered'
        BY <4>1
      <4>3. Taken'[i] = args
        BY <1>1, <1>2, <2>1, <3>1
      <4> QED
        BY <2>5, <2>6, <3>1, <4>2, <4>3
    <3>2. CASE i \in Answered
      <4>1. {j \in Answered' : j <= i} = Before(i)
        BY <1>1, <1>4, <2>3, <3>2 DEF Before
      <4>2. published[Cardinality(Before(i))] = Taken[i].url /\ Taken'[i] = Taken[i]
        BY <1>1, <1>4, <3>2 DEF AnswersInOrder, Before
      <4> QED
        BY <2>4, <2>6, <3>2, <4>1, <4>2
    <3> QED
      BY <2>3, <3>1, <3>2
  <2> QED
    BY <2>5, <2>6, <2>7 DEF AnswersInOrder
<1>7. CASE ~NextCommand /\ ~Read
  <2>1. published' = published
    BY <1>7 DEF Next, MainStep, vars, Connected, ConnectionLost, Arrive, Malformed,
       ConnectFails, SpuriousWake, ConnectDone, IsCommand, Wait, Ignore, ReadThrows, Stop,
       Start, CallStop, Launch, Exit, ExitStop, Return, StopStep, Advance, WorkerWakes,
       WorkerStops, WorkerCalls, Gone,
       mainVars
  <2>2. pc' = "execute" <=> pc = "execute" /\ ~(Ignore \/ Stop \/ Start \/ Exit)
    BY <1>7 DEF Next, MainStep, vars, Connected, ConnectionLost, Arrive, Malformed,
       ConnectFails, SpuriousWake, ConnectDone, IsCommand, Wait, Ignore, ReadThrows, Stop,
       Start, CallStop, Launch, Exit, ExitStop, Return, StopStep, Advance, WorkerWakes,
       WorkerStops, WorkerCalls, Gone,
       mainVars, LoopCondition, At, Executes
  <2>3. Ignore \/ Stop \/ Start \/ Exit => ~IsRead(args)
    BY DEF Ignore, Stop, Start, Exit, Executes, IsRead
  <2>4. CASE pc = "execute"
    <3>1. pc' = "execute" \/ ~IsRead(Taken[n])
      BY <1>2, <2>2, <2>3, <2>4
    <3> QED
      BY <1>1, <1>3, <1>4, <1>7, <2>1, <2>4, <3>1, AnswersStand
  <2>5. CASE pc # "execute"
    <3>1. pc' # "execute"
      BY <2>2, <2>5
    <3> QED
      BY <1>1, <1>3, <1>4, <1>7, <2>1, <2>5, <3>1, AnswersStand
  <2> QED
    BY <2>4, <2>5
<1> QED
  BY <1>5, <1>6, <1>7

-----------------------------------------------------------------------------
(***************************************************************************)
(* The theorems.                                                           *)
(***************************************************************************)
MainInv ==
    /\ TakeOK /\ QueueOK /\ PreemptedOK /\ PP!HandleInv /\ ExitOK
    /\ DiesOfKnownCauses /\ OrdersOK /\ AnswersInOrder

\* The invariant holds at first, is kept by every step, and so is always true.
LEMMA MainInit == Init => MainInv
<1> SUFFICES ASSUME Init PROVE MainInv
  OBVIOUS
<1>0. MainTypeOK
  BY EmptySeq DEF Init, MainTypeOK, Pcs
<1>1. TakeOK /\ PreemptedOK /\ ExitOK /\ DiesOfKnownCauses
  BY <1>0 DEF Init, Proc!Init, TakeOK, LaunchOK, TakesWhatIsThere, PreemptedOK, ExitOK,
     Leaving, DiesOfKnownCauses
<1>2. QueueOK
  BY DEF Init, QueueOK
<1>3. PP!TypeOK
  BY DEF Init, Proc!Init, Proc!Threads, PP!TypeOK, PP!Threads, PP!Handles, PP!Phases,
     PP!Steps
<1>4. PP!TargetOK /\ PP!JoinerOK /\ PP!OneJoiner
  BY DEF Init, Proc!Init, Proc!Threads, PP!Threads, PP!TargetOK, PP!JoinerOK, PP!OneJoiner
<1>5. PP!AliveOK /\ PP!RunningCoversHandle
  BY DEF Init, Proc!Init, Proc!Threads, PP!Threads, PP!AliveOK, PP!RunningCoversHandle,
     PP!Clearing
<1>6. Len(Taken) = 0 /\ 1..Len(Taken) = {}
  BY <1>1, <1>2, TakenIsReceived DEF Init
<1>7. OrdersOK
  BY <1>6 DEF Init, Proc!Init, Proc!Threads, OrdersOK, Stands, OrderedToRun, Idle
<1>8. AnswersInOrder
  <2>1. Answered = {}
    BY <1>6 DEF Answered
  <2> QED
    BY <2>1, FS_EmptySet DEF Init, AnswersInOrder
<1> QED
  BY <1>1, <1>2, <1>3, <1>4, <1>5, <1>7, <1>8 DEF MainInv, PP!HandleInv

\* The invariant behind all theorems about the main loop
LEMMA MainInvariant == Spec => []MainInv
<1>1. MainInv /\ [Next]_vars => MainInv'
  BY TakeStep, QueueStep, PreemptedStep, StopperStep, ExitStep, DiesStep, OrdersStep,
     AnswersStep DEF MainInv, TakeOK
<1> QED
  BY <1>1, MainInit, PTL DEF Spec

\* Every variable of main(), of the queue and of the processes keeps its type.
THEOREM MainTypes == Spec => []TypeOK
<1>1. MainInv => TypeOK
  BY DEF MainInv, TakeOK, MainTypeOK, PreemptedOK, PP!HandleInv, PP!TypeOK, PP!Threads,
     PP!Handles, PP!Phases, PP!Steps, TypeOK, Proc!TypeOK, Proc!Threads, Proc!Handles,
     Proc!Phases, Proc!Steps
<1> QED
  BY <1>1, MainInvariant, PTL

\* However many commands arrive, and whenever, main() takes them once each and
\* in the order of their arrival (MQTT.cpp:82-91, 195-202).
THEOREM CommandsTakenInOrder == Spec => []CommandsInOrder
<1>1. MainInv => CommandsInOrder
  BY QueueInOrder DEF MainInv
<1> QED
  BY <1>1, MainInvariant, PTL

\* main() never takes the front of an empty queue (Main.cpp:137-143).
THEOREM NothingTakenFromNothing == Spec => []TakesWhatIsThere
<1>1. MainInv => TakesWhatIsThere
  BY DEF MainInv, TakeOK
<1> QED
  BY <1>1, MainInvariant, PTL

\* main() returns from an EXIT it executed with every thread joined, for any
\* number of processes (Main.cpp:171-179).
THEOREM ExitJoins == Spec => []ExitJoinsAll
<1>1. MainInv => ExitJoinsAll
  BY DEF MainInv, ExitOK, Leaving, Joined, Idle, ExitJoinsAll
<1> QED
  BY <1>1, MainInvariant, PTL

\* Whichever workers stop whichever processes, and in whatever order commands and
\* texts arrive, the program dies of the causes the property lists and of no other
\* (Process.cpp:19-52, Controller.cpp:12-44, Main.cpp:130-249, MQTT.cpp:71-193).
THEOREM OnlyKnownCauses == Spec => []DiesOfKnownCauses
<1>1. MainInv => DiesOfKnownCauses
  BY DEF MainInv
<1> QED
  BY <1>1, MainInvariant, PTL

\* Between two commands a process that runs was ordered to, and one that was ordered
\* to runs unless a worker has stopped it, for any processes and commands
\* (Controller.cpp:12-44, BrewModule.cpp:334).
THEOREM OrdersAreObeyed == Spec => []LastOrderStands
<1>1. MainInv => LastOrderStands
  BY DEF MainInv, OrdersOK, Stands, Busy, Leaving, LastOrderStands
<1> QED
  BY <1>1, MainInvariant, PTL

\* Each value that was read is transmitted once, in the order of the READs
\* (Main.cpp:207-219).
THEOREM ReadsAreAnswered == Spec => []AnswersInOrder
<1>1. MainInv => AnswersInOrder
  BY DEF MainInv
<1> QED
  BY <1>1, MainInvariant, PTL
=============================================================================
