------------------------------ MODULE Process ------------------------------
(***************************************************************************)
(* The life of the control processes of src/src/core/Process.cpp: a        *)
(* Process object owns a std::thread that executes run(); start() launches *)
(* it and stop() raises two flags, notifies the condition variable the     *)
(* thread sleeps on, joins the thread and only then forgets it was         *)
(* running.                                                                *)
(*                                                                         *)
(* stop() is called by the thread that executes commands (Main) and by the *)
(* workers themselves: BrewModule::relinguish stops the process that holds *)
(* the equipment the caller wants, and a run() without a module stops its  *)
(* own process.  MayStop says which thread may stop which process.         *)
(*                                                                         *)
(* Each lock_guard block of the code is one step here; everything between  *)
(* two blocks is a place where other threads run.  A run() is abstracted   *)
(* to the shape all of DevProc.cpp shares: some set-up, then possibly the  *)
(* loop while(!shouldStop()) { work; sleepProcess(TS); }, then the         *)
(* shutdown code.                                                          *)
(***************************************************************************)
EXTENDS Naturals

CONSTANTS
    Procs,      \* the registered control processes
    Main,       \* the thread that executes commands
    None,       \* "no process"
    MayStop     \* <<t, p>>: the code that thread t executes may call p->stop()

Threads == Procs \cup {Main}

ASSUME MainIsNoProcess == Main \notin Procs
ASSUME NoneIsNoProcess == None \notin Procs
ASSUME MayStopType == MayStop \subseteq Threads \X Procs

VARIABLES
    running,        \* Process::running
    stopRequested,  \* Process::stopRequested
    wakeRequested,  \* Process::wakeRequested
    handle,         \* Process::th: not joinable, thread alive, run() returned
    phase,          \* where the process's thread is in run()
    step,           \* where a thread is in Process::stop()
    target,         \* the process a thread is stopping
    terminated      \* std::terminate was called: the program is gone

pvars == <<running, stopRequested, wakeRequested, handle, phase, step,
           target, terminated>>

Handles == {"none", "alive", "finished"}
Phases == {"idle", "start", "test", "work", "waiting", "woken", "leaving"}
Steps == {"idle", "request", "notify", "join", "joining", "clear"}

TypeOK ==
    /\ running \in [Procs -> BOOLEAN]
    /\ stopRequested \in [Procs -> BOOLEAN]
    /\ wakeRequested \in [Procs -> BOOLEAN]
    /\ handle \in [Procs -> Handles]
    /\ phase \in [Procs -> Phases]
    /\ step \in [Threads -> Steps]
    /\ target \in [Threads -> Procs \cup {None}]
    /\ terminated \in BOOLEAN

Init ==
    /\ running = [p \in Procs |-> FALSE]
    /\ stopRequested = [p \in Procs |-> FALSE]
    /\ wakeRequested = [p \in Procs |-> FALSE]
    /\ handle = [p \in Procs |-> "none"]
    /\ phase = [p \in Procs |-> "idle"]
    /\ step = [t \in Threads |-> "idle"]
    /\ target = [t \in Threads |-> None]
    /\ terminated = FALSE

-----------------------------------------------------------------------------
(***************************************************************************)
(* start(), executed by Main only.  When the process is already running    *)
(* the call returns without effect, which is no step.  Assigning a new     *)
(* thread over one that is still joinable calls std::terminate.            *)
(***************************************************************************)
\* Mutant: starts a process that is running.
MutStart(p) ==
    /\ ~terminated
    /\ step[Main] = "idle"
    /\ running' = [running EXCEPT ![p] = TRUE]
    /\ handle' = [handle EXCEPT ![p] = "alive"]
    /\ phase' = [phase EXCEPT ![p] = "start"]
    /\ terminated' = (handle[p] # "none")
    /\ UNCHANGED <<stopRequested, wakeRequested, step, target>>

Start(p) ==
    /\ ~terminated
    /\ step[Main] = "idle"
    /\ ~running[p]
    /\ stopRequested' = [stopRequested EXCEPT ![p] = FALSE]
    /\ wakeRequested' = [wakeRequested EXCEPT ![p] = FALSE]
    /\ running' = [running EXCEPT ![p] = TRUE]
    /\ handle' = [handle EXCEPT ![p] = "alive"]
    /\ phase' = [phase EXCEPT ![p] = "start"]
    /\ terminated' = (handle[p] # "none")
    /\ UNCHANGED <<step, target>>

(***************************************************************************)
(* stop(), step by step.  The first test reads running without the mutex;  *)
(* when it is false the call returns at once, which is no step.            *)
(***************************************************************************)
\* A worker stops others, or itself, only in the set-up of its run().
CanCall(t) ==
    /\ ~terminated
    /\ step[t] = "idle"
    /\ t # Main => phase[t] = "start"

Goto(t, s) == step' = [step EXCEPT ![t] = s]

\* Mutant: the caller stops itself.
MutStopCheck(t, p) ==
    /\ CanCall(t)
    /\ running[p]
    /\ Goto(t, "request")
    /\ target' = [target EXCEPT ![t] = t]
    /\ UNCHANGED <<running, stopRequested, wakeRequested, handle, phase,
                   terminated>>

StopCheck(t, p) ==
    /\ CanCall(t)
    /\ running[p]
    /\ Goto(t, "request")
    /\ target' = [target EXCEPT ![t] = p]
    /\ UNCHANGED <<running, stopRequested, wakeRequested, handle, phase,
                   terminated>>

\* Mutants: running is cleared before the join; only the wake-up is requested.
MutStopRequestClears(t) ==
    /\ ~terminated
    /\ step[t] = "request"
    /\ wakeRequested' = [wakeRequested EXCEPT ![target[t]] = TRUE]
    /\ stopRequested' = [stopRequested EXCEPT ![target[t]] = TRUE]
    /\ running' = [running EXCEPT ![target[t]] = FALSE]
    /\ Goto(t, "notify")
    /\ UNCHANGED <<handle, phase, target, terminated>>

MutStopRequestWakes(t) ==
    /\ ~terminated
    /\ step[t] = "request"
    /\ wakeRequested' = [wakeRequested EXCEPT ![target[t]] = TRUE]
    /\ Goto(t, "notify")
    /\ UNCHANGED <<running, stopRequested, handle, phase, target, terminated>>

StopRequest(t) ==
    /\ ~terminated
    /\ step[t] = "request"
    /\ wakeRequested' = [wakeRequested EXCEPT ![target[t]] = TRUE]
    /\ stopRequested' = [stopRequested EXCEPT ![target[t]] = TRUE]
    /\ Goto(t, "notify")
    /\ UNCHANGED <<running, handle, phase, target, terminated>>

\* notify_all outside the mutex: it wakes the thread only if it waits now.
StopNotify(t) ==
    /\ ~terminated
    /\ step[t] = "notify"
    /\ phase' = [phase EXCEPT ![target[t]] = IF @ = "waiting" THEN "woken"
                                                              ELSE @]
    /\ Goto(t, "join")
    /\ UNCHANGED <<running, stopRequested, wakeRequested, handle, target,
                   terminated>>

\* std::thread::join throws when the thread is not joinable, is already being
\* joined, is the caller, or is itself joining the caller (glibc detects that
\* pair).  Nobody catches the exception: the program terminates.
BeingJoined(p) == \E u \in Threads : step[u] = "joining" /\ target[u] = p

JoinThrows(t, p) ==
    \/ handle[p] = "none"
    \/ BeingJoined(p)
    \/ t = p
    \/ step[p] = "joining" /\ target[p] = t

\* Mutant: the thread is not joined.
MutStopJoin(t) ==
    /\ ~terminated
    /\ step[t] = "join"
    /\ Goto(t, "clear")
    /\ UNCHANGED <<running, stopRequested, wakeRequested, handle, phase,
                   target, terminated>>

StopJoin(t) ==
    /\ ~terminated
    /\ step[t] = "join"
    /\ IF JoinThrows(t, target[t])
         THEN terminated' = TRUE /\ UNCHANGED step
         ELSE Goto(t, "joining") /\ UNCHANGED terminated
    /\ UNCHANGED <<running, stopRequested, wakeRequested, handle, phase,
                   target>>

StopJoined(t) ==
    /\ ~terminated
    /\ step[t] = "joining"
    /\ handle[target[t]] = "finished"
    /\ handle' = [handle EXCEPT ![target[t]] = "none"]
    /\ Goto(t, "clear")
    /\ UNCHANGED <<running, stopRequested, wakeRequested, phase, target,
                   terminated>>

\* Mutant: running is not cleared.
MutStopClear(t) ==
    /\ ~terminated
    /\ step[t] = "clear"
    /\ Goto(t, "idle")
    /\ target' = [target EXCEPT ![t] = None]
    /\ UNCHANGED <<running, stopRequested, wakeRequested, handle, phase,
                   terminated>>

StopClear(t) ==
    /\ ~terminated
    /\ step[t] = "clear"
    /\ running' = [running EXCEPT ![target[t]] = FALSE]
    /\ Goto(t, "idle")
    /\ target' = [target EXCEPT ![t] = None]
    /\ UNCHANGED <<stopRequested, wakeRequested, handle, phase, terminated>>

-----------------------------------------------------------------------------
(***************************************************************************)
(* run(): the steps of the process's own thread.                           *)
(***************************************************************************)
Moves(p, from, to) ==
    /\ ~terminated
    /\ step[p] = "idle"
    /\ phase[p] = from
    /\ phase' = [phase EXCEPT ![p] = to]
    /\ UNCHANGED <<running, stopRequested, wakeRequested, step, target,
                   terminated>>

\* The set-up is done and run() enters its loop.
EnterLoop(p) == Moves(p, "start", "test") /\ UNCHANGED handle

\* Mutant: while(true)
MutTestStop(p) == Moves(p, "test", "work") /\ UNCHANGED handle

\* while(!shouldStop())
TestStop(p) ==
    /\ \/ ~stopRequested[p] /\ Moves(p, "test", "work")
       \/ stopRequested[p] /\ Moves(p, "test", "leaving")
    /\ UNCHANGED handle

\* sleepProcess(): the mutex is taken and given up to the condition variable.
\* wakeRequested is not looked at before the wait.
Sleep(p) == Moves(p, "work", "waiting") /\ UNCHANGED handle

\* The body threw: the measuring loops leave with break.
BreakLoop(p) == Moves(p, "work", "leaving") /\ UNCHANGED handle

\* wait_for returned timeout.
Timeout(p) == Moves(p, "waiting", "test") /\ UNCHANGED handle

\* wait_for returned no_timeout without a notification.
SpuriousWake(p) == Moves(p, "waiting", "woken") /\ UNCHANGED handle

\* no_timeout: leave if a wake-up was requested, else wait the full time again.
WakeTest(p) ==
    /\ \/ wakeRequested[p] /\ Moves(p, "woken", "test")
       \/ ~wakeRequested[p] /\ Moves(p, "woken", "waiting")
    /\ UNCHANGED handle

\* run() returns: a one-shot process from its set-up, a loop after its
\* shutdown code.  The thread ends; running keeps its value.
RunReturn(p) ==
    /\ Moves(p, "start", "idle") \/ Moves(p, "leaving", "idle")
    /\ handle' = [handle EXCEPT ![p] = "finished"]

\* std::terminate is final.
Terminated == terminated /\ UNCHANGED pvars

-----------------------------------------------------------------------------
StopStep(t) ==
    StopRequest(t) \/ StopNotify(t) \/ StopJoin(t) \/ StopJoined(t) \/ StopClear(t)

\* What the thread of p does when it is scheduled; a spurious wake is no duty.
Advance(p) ==
    \/ EnterLoop(p) \/ TestStop(p) \/ Sleep(p) \/ BreakLoop(p)
    \/ Timeout(p) \/ WakeTest(p) \/ RunReturn(p)

RunStep(p) == Advance(p) \/ SpuriousWake(p)

Next ==
    \/ \E p \in Procs : Start(p)
    \/ \E tp \in MayStop : StopCheck(tp[1], tp[2])
    \/ \E t \in Threads : StopStep(t)
    \/ \E p \in Procs : RunStep(p)
    \/ Terminated

Spec == Init /\ [][Next]_pvars

\* The operating system runs every thread that can run, and timed waits end.
\* Strong fairness of the end of a set-up: it scans a finite list of holders,
\* so it does not call stop() forever.  Nothing obliges Main to issue commands,
\* a body to throw or a wait to end early.
Fairness ==
    /\ \A t \in Threads : WF_pvars(StopStep(t))
    /\ \A p \in Procs : /\ SF_pvars(EnterLoop(p) \/ RunReturn(p))
                        /\ WF_pvars(Advance(p))

FairSpec == Spec /\ Fairness

-----------------------------------------------------------------------------
(***************************************************************************)
(* Properties.                                                             *)
(***************************************************************************)

Joining(p) == \E t \in Threads : step[t] = "joining" /\ target[t] = p
Clearing(p) == \E t \in Threads : step[t] = "clear" /\ target[t] = p

\* The flag running, written before the thread exists and after it is joined,
\* always accounts for the std::thread: it is set exactly while the handle is
\* joinable or its joiner has not yet cleared the flag.  start() relies on it
\* to never assign over a joinable thread (Process.cpp:23-29).
RunningCoversHandle ==
    \A p \in Procs : running[p] <=> (handle[p] # "none" \/ Clearing(p))

\* The stop() in which t is about to join p met another one: p is t itself, or is
\* in turn stopping t, or another thread has joined p since t found it running.
Collides(t) ==
    LET p == target[t]
    IN  /\ step[t] = "join"
        /\ \/ t = p
           \/ step[p] # "idle" /\ target[p] = t
           \/ ~running[p]
           \/ \E u \in Threads \ {t} : step[u] \in {"joining", "clear"} /\ target[u] = p

\* Whichever threads stop whichever processes, and however often they are
\* started again meanwhile, nothing but two colliding calls of stop() terminates
\* the program: no start() assigns over a joinable thread, and a stop() that
\* meets no other one never throws (Process.cpp:19-52).
OnlyCollisionsTerminate == terminated => \E t \in Threads : Collides(t)

\* stop() is synchronous: when it returns, the run it waited for has ended,
\* nothing of it is left in the loop, and start() may launch a new thread.
StopIsSynchronous ==
    [][\A t \in Threads :
         step[t] = "clear" /\ step'[t] = "idle" =>
             /\ handle'[target[t]] = "none"
             /\ phase'[target[t]] = "idle"
             /\ ~running'[target[t]]]_pvars

\* The program is never terminated: no join throws and no start() assigns
\* over a joinable thread.  It needs SingleStopper (below).
NeverTerminated == ~terminated

\* Each process has at most one thread that may stop it, which is not its own,
\* and no two workers may stop each other.
SingleStopper ==
    /\ \A a, b \in MayStop : a[2] = b[2] => a = b
    /\ \A a, b \in MayStop : a[1] = b[2] => b[1] # a[2]

\* Every call of stop() returns.  The notification may be lost, when it comes
\* between the worker's shouldStop() and its wait: the timed wait ends then.
StopReturns == \A t \in Threads : step[t] # "idle" ~> step[t] = "idle"

\* A run that is asked to stop ends: the flag is tested before every turn of
\* the loop, and sleepProcess() does not swallow it (Process.cpp:60-68, 83-87).
StopEndsRun ==
    \A p \in Procs :
        (stopRequested[p] /\ phase[p] # "idle") ~> (phase[p] = "idle")
================================================================================
