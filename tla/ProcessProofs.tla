--------------------------- MODULE ProcessProofs ---------------------------
(***************************************************************************)
(* Theorems about Process, for any set of processes.  TLC checks the same  *)
(* formulas on two and three of them (MCProcess).                          *)
(***************************************************************************)
EXTENDS Process, TLAPS

\* A thread between the first and the last step of stop() has a target.
TargetOK ==
    \A t \in Threads : step[t] # "idle" => target[t] \in Procs

\* A joiner waits for a thread that is still joinable; once it has joined, the
\* handle is gone and the flag still set.
JoinerOK ==
    \A t \in Threads :
        /\ step[t] = "joining" => handle[target[t]] # "none"
        /\ step[t] = "clear" => handle[target[t]] = "none"

\* run() is being executed exactly while the thread is alive.
AliveOK == \A p \in Procs : phase[p] # "idle" <=> handle[p] = "alive"

\* However many threads call stop() on one process, at most one of them is
\* past the join or in it.
OneJoiner ==
    \A t, u \in Threads :
        (/\ step[t] \in {"joining", "clear"}
         /\ step[u] \in {"joining", "clear"}
         /\ target[t] = target[u]) => t = u

HandleInv ==
    TypeOK /\ TargetOK /\ JoinerOK /\ AliveOK /\ OneJoiner /\ RunningCoversHandle

-----------------------------------------------------------------------------
\* The type invariant of the process life cycle is preserved by every step of
\* start(), stop() and run() (Process.cpp:19-87).
LEMMA TypingStep == ASSUME TypeOK, TargetOK, [Next]_pvars PROVE TypeOK' /\ TargetOK'
<1> USE MainIsNoProcess, NoneIsNoProcess, MayStopType DEF Threads
<1>1. CASE UNCHANGED pvars
  BY <1>1 DEF pvars, TypeOK, TargetOK
<1>2. ASSUME NEW p \in Procs, Start(p) PROVE TypeOK' /\ TargetOK'
  BY <1>2 DEF Start, TypeOK, TargetOK, Handles, Phases
<1>3. ASSUME NEW t \in Threads, NEW p \in Procs, StopCheck(t, p)
      PROVE TypeOK' /\ TargetOK'
  BY <1>3 DEF StopCheck, Goto, TypeOK, TargetOK, Steps
<1>4. ASSUME NEW t \in Threads, StopStep(t) PROVE TypeOK' /\ TargetOK'
  <2>1. CASE StopRequest(t)
    BY <2>1 DEF StopRequest, Goto, TypeOK, TargetOK, Steps
  <2>2. CASE StopNotify(t)
    BY <2>2 DEF StopNotify, Goto, TypeOK, TargetOK, Steps, Phases
  <2>3. CASE StopJoin(t)
    BY <2>3 DEF StopJoin, Goto, TypeOK, TargetOK, Steps
  <2>4. CASE StopJoined(t)
    BY <2>4 DEF StopJoined, Goto, TypeOK, TargetOK, Steps, Handles
  <2>5. CASE StopClear(t)
    BY <2>5 DEF StopClear, Goto, TypeOK, TargetOK, Steps
  <2> QED
    BY <1>4, <2>1, <2>2, <2>3, <2>4, <2>5 DEF StopStep
<1>5. ASSUME NEW p \in Procs, RunStep(p) PROVE TypeOK' /\ TargetOK'
  BY <1>5 DEF RunStep, Advance, EnterLoop, TestStop, Sleep, BreakLoop, Timeout,
     SpuriousWake, WakeTest, RunReturn, Moves, TypeOK, TargetOK, Phases, Handles
<1>6. CASE Terminated
  BY <1>6 DEF Terminated, pvars, TypeOK, TargetOK
<1>7. ASSUME NEW tp \in MayStop, StopCheck(tp[1], tp[2])
      PROVE TypeOK' /\ TargetOK'
  BY <1>3, <1>7
<1> QED
  BY <1>1, <1>2, <1>4, <1>5, <1>6, <1>7 DEF Next

\* Every variable of the model keeps its type in every behaviour.
THEOREM TypeCorrect == Spec => []TypeOK
<1>1. Init => TypeOK /\ TargetOK
  <2> SUFFICES ASSUME Init PROVE TypeOK /\ TargetOK
    OBVIOUS
  <2>1. TypeOK
    BY DEF Init, TypeOK, Handles, Phases, Steps
  <2>2. TargetOK
    BY DEF Init, TargetOK
  <2> QED
    BY <2>1, <2>2
<1>2. TypeOK /\ TargetOK /\ [Next]_pvars => (TypeOK /\ TargetOK)'
  BY TypingStep
<1> QED
  BY <1>1, <1>2, PTL DEF Spec

-----------------------------------------------------------------------------
\* The accounting of thread handles survives every step: the mutex only covers
\* the single flag updates, so this is where interleaved stop() calls matter.
LEMMA HandleStep == ASSUME HandleInv, [Next]_pvars PROVE HandleInv'
<1> USE MainIsNoProcess, NoneIsNoProcess, MayStopType
    DEF Threads, Joining, Clearing
<1>0. TypeOK /\ TargetOK /\ TypeOK' /\ TargetOK'
  BY TypingStep DEF HandleInv
<1> SUFFICES (JoinerOK /\ AliveOK /\ OneJoiner /\ RunningCoversHandle)'
  BY <1>0 DEF HandleInv
<1>1. CASE UNCHANGED pvars
  BY <1>1 DEF pvars, HandleInv, JoinerOK, AliveOK, OneJoiner, RunningCoversHandle
<1>2. ASSUME NEW p \in Procs, Start(p)
      PROVE (JoinerOK /\ AliveOK /\ OneJoiner /\ RunningCoversHandle)'
  BY <1>0, <1>2
     DEF Start, HandleInv, JoinerOK, AliveOK, OneJoiner, RunningCoversHandle, TypeOK, TargetOK
<1>3. ASSUME NEW t \in Threads, NEW p \in Procs, StopCheck(t, p)
      PROVE (JoinerOK /\ AliveOK /\ OneJoiner /\ RunningCoversHandle)'
  BY <1>0, <1>3 DEF StopCheck, CanCall, Goto, HandleInv, JoinerOK, AliveOK, OneJoiner,
     RunningCoversHandle, TypeOK, TargetOK
<1>4. ASSUME NEW t \in Threads, StopStep(t)
      PROVE (JoinerOK /\ AliveOK /\ OneJoiner /\ RunningCoversHandle)'
  <2>1. CASE StopRequest(t)
    BY <1>0, <2>1 DEF StopRequest, Goto, HandleInv, JoinerOK, AliveOK, OneJoiner,
       RunningCoversHandle, TypeOK, TargetOK
  <2>2. CASE StopNotify(t)
    BY <1>0, <2>2 DEF StopNotify, Goto, HandleInv, JoinerOK, AliveOK, OneJoiner,
       RunningCoversHandle, TypeOK, TargetOK
  <2>3. CASE StopJoin(t)
    BY <1>0, <2>3 DEF StopJoin, JoinThrows, BeingJoined, Goto, HandleInv,
       JoinerOK, AliveOK, OneJoiner, RunningCoversHandle, TypeOK, TargetOK
  <2>4. CASE StopJoined(t)
    BY <1>0, <2>4 DEF StopJoined, Goto, HandleInv, JoinerOK, AliveOK, OneJoiner,
       RunningCoversHandle, TypeOK, TargetOK
  <2>5. CASE StopClear(t)
    BY <1>0, <2>5 DEF StopClear, Goto, HandleInv, JoinerOK, AliveOK, OneJoiner,
       RunningCoversHandle, TypeOK, TargetOK
  <2> QED
    BY <1>4, <2>1, <2>2, <2>3, <2>4, <2>5 DEF StopStep
<1>5. ASSUME NEW p \in Procs, RunStep(p)
      PROVE (JoinerOK /\ AliveOK /\ OneJoiner /\ RunningCoversHandle)'
  BY <1>0, <1>5 DEF RunStep, Advance, EnterLoop, TestStop, Sleep, BreakLoop, Timeout,
     SpuriousWake, WakeTest, RunReturn, Moves, HandleInv, JoinerOK, AliveOK, OneJoiner,
     RunningCoversHandle, TypeOK, TargetOK
<1>6. CASE Terminated
  BY <1>6 DEF Terminated, pvars, HandleInv, JoinerOK, AliveOK, OneJoiner, RunningCoversHandle
<1>7. ASSUME NEW tp \in MayStop, StopCheck(tp[1], tp[2])
      PROVE (JoinerOK /\ AliveOK /\ OneJoiner /\ RunningCoversHandle)'
  BY <1>3, <1>7
<1> QED
  BY <1>1, <1>2, <1>4, <1>5, <1>6, <1>7 DEF Next

\* The inductive invariant of the life cycle holds in every behaviour.
LEMMA HandleInvariant == Spec => []HandleInv
<1>1. Init => HandleInv
  <2> SUFFICES ASSUME Init PROVE HandleInv
    OBVIOUS
  <2>1. TypeOK
    BY DEF Init, TypeOK, Handles, Phases, Steps
  <2>2. TargetOK /\ JoinerOK /\ OneJoiner
    BY DEF Init, TargetOK, JoinerOK, OneJoiner
  <2>3. AliveOK /\ RunningCoversHandle
    BY DEF Init, AliveOK, RunningCoversHandle, Clearing
  <2> QED
    BY <2>1, <2>2, <2>3 DEF HandleInv
<1>2. HandleInv /\ [Next]_pvars => HandleInv'
  BY HandleStep
<1> QED
  BY <1>1, <1>2, PTL DEF Spec

\* The flag running accounts for the std::thread in every reachable state, so
\* start() never assigns over a joinable thread (Process.cpp:23-29).
THEOREM RunningCorrect == Spec => []RunningCoversHandle
<1>1. HandleInv => RunningCoversHandle
  BY DEF HandleInv
<1> QED
  BY <1>1, HandleInvariant, PTL

\* A step that ends the program is a join whose stop() met another one.
LEMMA CollisionStep ==
    ASSUME HandleInv, OnlyCollisionsTerminate, [Next]_pvars
    PROVE  OnlyCollisionsTerminate'
<1> USE MainIsNoProcess, NoneIsNoProcess, MayStopType DEF Threads
<1>1. CASE UNCHANGED pvars
  BY <1>1 DEF pvars, OnlyCollisionsTerminate, Collides
<1>2. ASSUME NEW p \in Procs, Start(p) PROVE ~terminated'
  BY <1>2 DEF Start, HandleInv, RunningCoversHandle, TypeOK
<1>3. ASSUME NEW tp \in MayStop, StopCheck(tp[1], tp[2]) PROVE ~terminated'
  BY <1>3 DEF StopCheck, CanCall
<1>4. ASSUME NEW t \in Threads, StopStep(t), terminated' PROVE Collides(t)'
  <2>1. /\ step[t] = "join" /\ JoinThrows(t, target[t])
        /\ UNCHANGED <<step, target, running, handle>>
    BY <1>4 DEF StopStep, StopRequest, StopNotify, StopJoin, StopJoined, StopClear
  <2>2. CASE handle[target[t]] = "none"
    <3>1. target[t] \in Procs
      BY <2>1 DEF HandleInv, TargetOK
    <3>2. ~running[target[t]] \/ Clearing(target[t])
      BY <2>2, <3>1 DEF HandleInv, RunningCoversHandle
    <3> QED
      BY <2>1, <3>2 DEF Collides, Clearing
  <2>3. CASE handle[target[t]] # "none"
    BY <2>1, <2>3 DEF JoinThrows, BeingJoined, Collides
  <2> QED
    BY <2>2, <2>3
<1>5. ASSUME NEW p \in Procs, RunStep(p) PROVE ~terminated'
  BY <1>5 DEF RunStep, Advance, EnterLoop, TestStop, Sleep, BreakLoop, Timeout,
     SpuriousWake, WakeTest, RunReturn, Moves
<1>6. CASE Terminated
  BY <1>1, <1>6 DEF Terminated
<1> QED
  BY <1>1, <1>2, <1>3, <1>4, <1>5, <1>6 DEF Next, OnlyCollisionsTerminate

\* Whoever may stop whom, only two calls of stop() that meet terminate the
\* program: no start() does, and no stop() on its own (Process.cpp:19-52).
THEOREM CollisionsTerminate == Spec => []OnlyCollisionsTerminate
<1>1. Init => OnlyCollisionsTerminate
  BY DEF Init, OnlyCollisionsTerminate
<1>2. HandleInv /\ OnlyCollisionsTerminate /\ [Next]_pvars => OnlyCollisionsTerminate'
  BY CollisionStep
<1> QED
  BY <1>1, <1>2, HandleInvariant, PTL DEF Spec

\* When stop() returns to its caller the run it waited for is over and the
\* process can be started anew (Process.cpp:45-50, Controller.cpp:25-26).
THEOREM StopSynchronous == Spec => StopIsSynchronous
<1> DEFINE Returns(t) == step[t] = "clear" /\ step'[t] = "idle"
           Over(t) == /\ handle'[target[t]] = "none"
                      /\ phase'[target[t]] = "idle"
                      /\ ~running'[target[t]]
<1>1. ASSUME HandleInv, [Next]_pvars, NEW t \in Threads, Returns(t) PROVE Over(t)
  <2> USE <1>1 DEF HandleInv
  <2>1. ASSUME NEW u \in Threads, StopClear(u) PROVE Over(t)
    <3>1. u = t
      BY <2>1 DEF StopClear, Goto, TypeOK
    <3>2. target[t] \in Procs /\ handle[target[t]] = "none"
      BY DEF TargetOK, JoinerOK
    <3>3. phase[target[t]] = "idle"
      BY <3>2 DEF AliveOK, TypeOK
    <3> QED
      BY <2>1, <3>1, <3>2, <3>3 DEF StopClear, TypeOK
  <2>2. \E u \in Threads : StopClear(u)
    <3>1. CASE UNCHANGED pvars
      BY <3>1 DEF pvars
    <3>2. ASSUME NEW p \in Procs, Start(p) PROVE FALSE
      BY <3>2 DEF Start
    <3>3. ASSUME NEW tp \in MayStop, StopCheck(tp[1], tp[2]) PROVE FALSE
      BY <3>3 DEF StopCheck, CanCall, Goto, TypeOK
    <3>4. ASSUME NEW u \in Threads, StopStep(u) PROVE StopClear(u)
      BY <3>4 DEF StopStep, StopRequest, StopNotify, StopJoin, StopJoined,
         Goto, TypeOK
    <3>5. ASSUME NEW p \in Procs, RunStep(p) PROVE FALSE
      BY <3>5 DEF RunStep, Advance, EnterLoop, TestStop, Sleep, BreakLoop, Timeout,
         SpuriousWake, WakeTest, RunReturn, Moves
    <3>6. CASE Terminated
      BY <3>6 DEF Terminated, pvars
    <3> QED
      BY <3>1, <3>2, <3>3, <3>4, <3>5, <3>6 DEF Next
  <2> QED
    BY <2>1, <2>2
<1>2. HandleInv /\ [Next]_pvars =>
        [\A t \in Threads : Returns(t) => Over(t)]_pvars
  BY <1>1
<1>3. [][\A t \in Threads : Returns(t) => Over(t)]_pvars => StopIsSynchronous
  BY PTL DEF StopIsSynchronous
<1> QED
  BY <1>2, <1>3, HandleInvariant, PTL DEF Spec

-----------------------------------------------------------------------------
\* A thread inside stop() is one that may stop its target.
MayStopOK == \A t \in Threads : step[t] # "idle" => <<t, target[t]>> \in MayStop

\* The process a thread is stopping is still running until that thread itself
\* has joined it.
StopperOK ==
    \A t \in Threads :
        step[t] \in {"request", "notify", "join", "joining"} =>
            running[target[t]] /\ handle[target[t]] # "none"

SingleInv == HandleInv /\ MayStopOK /\ StopperOK /\ NeverTerminated

\* With one stopper per process nobody else can end the run a stop() is
\* waiting for, so its join never throws.
LEMMA SingleStep ==
    ASSUME SingleStopper, SingleInv, [Next]_pvars PROVE SingleInv'
<1> USE MainIsNoProcess, NoneIsNoProcess, MayStopType DEF Threads
<1>0. HandleInv /\ HandleInv' /\ TypeOK /\ TargetOK /\ JoinerOK /\ RunningCoversHandle
  BY HandleStep DEF SingleInv, HandleInv
<1>a. \A t, u \in Threads :
        (step[t] # "idle" /\ step[u] # "idle" /\ target[t] = target[u]) => t = u
  BY DEF SingleInv, MayStopOK, SingleStopper
<1>b. \A t \in Threads : step[t] # "idle" => t # target[t]
  BY DEF SingleInv, MayStopOK, SingleStopper
<1>c. \A t, u \in Threads :
        (step[t] # "idle" /\ step[u] # "idle" /\ target[t] = u) => target[u] # t
  BY DEF SingleInv, MayStopOK, SingleStopper
<1> SUFFICES (MayStopOK /\ StopperOK /\ NeverTerminated)'
  BY <1>0 DEF SingleInv
<1>1. CASE UNCHANGED pvars
  BY <1>1 DEF pvars, SingleInv, MayStopOK, StopperOK, NeverTerminated
<1>2. ASSUME NEW p \in Procs, Start(p)
      PROVE (MayStopOK /\ StopperOK /\ NeverTerminated)'
  <2>1. handle[p] = "none"
    BY <1>0, <1>2 DEF RunningCoversHandle, Start, TypeOK
  <2> QED
    BY <1>0, <1>2, <2>1
       DEF Start, SingleInv, MayStopOK, StopperOK, NeverTerminated, TypeOK, TargetOK
<1>3. ASSUME NEW tp \in MayStop, StopCheck(tp[1], tp[2])
      PROVE (MayStopOK /\ StopperOK /\ NeverTerminated)'
  <2>1. tp[1] \in Threads /\ tp[2] \in Procs /\ tp = <<tp[1], tp[2]>>
    OBVIOUS
  <2>2. handle[tp[2]] # "none"
    <3>1. ASSUME NEW u \in Threads, step[u] = "clear", target[u] = tp[2]
          PROVE FALSE
      <4>1. <<u, tp[2]>> \in MayStop
        BY <3>1 DEF SingleInv, MayStopOK
      <4>2. <<u, tp[2]>>[2] = tp[2] /\ <<u, tp[2]>>[1] = u
        OBVIOUS
      <4>3. u = tp[1]
        BY <4>1, <4>2 DEF SingleStopper
      <4> QED
        BY <1>3, <3>1, <4>3 DEF StopCheck, CanCall
    <3> QED
      BY <1>0, <1>3, <2>1, <3>1 DEF StopCheck, RunningCoversHandle, Clearing
  <2> QED
    BY <1>0, <1>3, <2>1, <2>2 DEF StopCheck, CanCall, Goto, SingleInv, MayStopOK,
       StopperOK, NeverTerminated, TypeOK, TargetOK
<1>4. ASSUME NEW t \in Threads, StopStep(t)
      PROVE (MayStopOK /\ StopperOK /\ NeverTerminated)'
  <2>1. CASE StopRequest(t)
    BY <1>0, <2>1 DEF StopRequest, Goto, SingleInv, MayStopOK, StopperOK,
       NeverTerminated, TypeOK, TargetOK
  <2>2. CASE StopNotify(t)
    BY <1>0, <2>2 DEF StopNotify, Goto, SingleInv, MayStopOK, StopperOK,
       NeverTerminated, TypeOK, TargetOK
  <2>3. CASE StopJoin(t)
    <3>1. ~JoinThrows(t, target[t])
      BY <1>0, <2>3, <1>a, <1>b, <1>c DEF StopJoin, JoinThrows, BeingJoined,
         SingleInv, StopperOK, TypeOK, TargetOK
    <3> QED
      BY <1>0, <2>3, <3>1 DEF StopJoin, Goto, SingleInv, MayStopOK, StopperOK,
         NeverTerminated, TypeOK, TargetOK
  <2>4. CASE StopJoined(t)
    BY <1>0, <1>a, <2>4 DEF StopJoined, Goto, SingleInv, MayStopOK, StopperOK,
       NeverTerminated, TypeOK, TargetOK
  <2>5. CASE StopClear(t)
    BY <1>0, <1>a, <2>5 DEF StopClear, Goto, SingleInv, MayStopOK, StopperOK,
       NeverTerminated, TypeOK, TargetOK
  <2> QED
    BY <1>4, <2>1, <2>2, <2>3, <2>4, <2>5 DEF StopStep
<1>5. ASSUME NEW p \in Procs, RunStep(p)
      PROVE (MayStopOK /\ StopperOK /\ NeverTerminated)'
  BY <1>0, <1>5 DEF RunStep, Advance, EnterLoop, TestStop, Sleep, BreakLoop, Timeout,
     SpuriousWake, WakeTest, RunReturn, Moves, SingleInv, MayStopOK, StopperOK,
     NeverTerminated, TypeOK, TargetOK
<1>6. CASE Terminated
  BY <1>6 DEF Terminated, SingleInv, NeverTerminated
<1> QED
  BY <1>1, <1>2, <1>3, <1>4, <1>5, <1>6 DEF Next

\* If every process has a single stopper, which is not itself, and no two
\* processes stop each other, no interleaving of start(), stop() and run()
\* makes a join throw: the program is never terminated (Process.cpp:32-52).
THEOREM SingleStopperSafe == SingleStopper => (Spec => []NeverTerminated)
<1> SUFFICES ASSUME SingleStopper PROVE Spec => []NeverTerminated
  OBVIOUS
<1>1. Init => SingleInv
  <2> SUFFICES ASSUME Init PROVE SingleInv
    OBVIOUS
  <2>1. TypeOK
    BY DEF Init, TypeOK, Handles, Phases, Steps
  <2>2. TargetOK /\ JoinerOK /\ OneJoiner /\ MayStopOK /\ StopperOK
    BY DEF Init, TargetOK, JoinerOK, OneJoiner, MayStopOK, StopperOK
  <2>3. AliveOK /\ RunningCoversHandle /\ NeverTerminated
    BY DEF Init, AliveOK, RunningCoversHandle, Clearing, NeverTerminated
  <2> QED
    BY <2>1, <2>2, <2>3 DEF HandleInv, SingleInv
<1>2. SingleInv /\ [Next]_pvars => SingleInv'
  BY SingleStep
<1>3. SingleInv => NeverTerminated
  BY DEF SingleInv
<1> QED
  BY <1>1, <1>2, <1>3, PTL DEF Spec
=============================================================================
