-------------------------- MODULE BrewModuleProofs --------------------------
(***************************************************************************)
(* Theorems about BrewModule, for any processes, equipment and levels.     *)
(*                                                                         *)
(* At any pace of the commands every step is a step of Process, so the     *)
(* theorems of ProcessProofs hold; and a loop that lost its entry has been *)
(* told to stop.  That is GeneralInv.  If the commands are paced, the      *)
(* arbitration implements EquipmentLock.  Its inductive invariant,         *)
(* PacedInv, is a chain: the order in which processes ask for equipment    *)
(* (OrderOK) keeps two threads off the list, hence the list says who has   *)
(* what (RelinguishOK, ListOK), hence a search that ends has passed all    *)
(* who are in its way (ScanOK), hence exclusive use is exclusive, hence a  *)
(* level has somebody who set it (PowerOK).                                *)
(***************************************************************************)
EXTENDS BrewModule, ListFacts

PP == INSTANCE ProcessProofs WITH MayStop <- {tp \in (Procs \cup {Main}) \X Procs :
                                                tp[1] # tp[2]}
Threads == Procs \cup {Main}

-----------------------------------------------------------------------------
(***************************************************************************)
(* The invariants.                                                         *)
(***************************************************************************)
\* What addUsage appends for p; the list holds nothing else.
Entry(p) == [usageID |-> Usage(p), exclusive |-> p \in Exclusive]
Entries == {Entry(p) : p \in Procs}

\* Inside getExclusive or getNonExclusive, or on either side of it; and in a loop
Asking == {"arg", "scan", "relinguish", "stopping", "add", "set"}
Looping == {"test", "work", "waiting", "woken", "leaving"}

\* The types, the processes' left out and that of the list exact
ModuleTypeOK ==
    /\ usedList \in Seq(Entries)
    /\ itrPosition \in Int
    /\ relinguishingEquip \in (Procs \X Equipment) \cup {NoUsage}
    /\ cached \in [Equipment -> CachedLevels]
    /\ power \in [Equipment -> Levels]
    /\ argument \in [Procs -> SwitchLevels \cup {Off}]
    /\ level \in [Procs -> SwitchLevels \cup {Off}]
    /\ pc \in [Procs -> Pcs]
    /\ holding \in [Procs -> (Procs \X Equipment) \cup {NoUsage}]
    /\ command \in Procs \cup {None}
    /\ undefined \in BOOLEAN

\* Where a thread is in run() agrees with what it does with the module.
PlaceOK ==
    \A p \in Procs :
        /\ pc[p] = "idle" => phase[p] = "idle"
        /\ pc[p] \in Asking => phase[p] = "start"
        /\ pc[p] \in {"arg", "set"} => p \in Switches
        /\ pc[p] = "loop" => p \notin Switches /\ phase[p] \in Looping
        /\ pc[p] = "release" =>
             \/ p \in Switches /\ phase[p] = "start"
             \/ p \in Controls /\ phase[p] = "leaving"

\* What a thread found in its way is another process's, and it stops no other.
HoldingOK ==
    \A p \in Procs :
        /\ pc[p] \in {"relinguish", "stopping"} =>
             \E q \in Procs \ {p} : holding[p] = Usage(q)
        /\ step[p] # "idle" => pc[p] = "stopping" /\ target[p] = P(holding[p])

GeneralInv ==
    ModuleTypeOK /\ PP!HandleInv /\ PlaceOK /\ HoldingOK /\ PreemptedIsStopping

\* Some thread is on its way to join p.
BeingStopped(p) ==
    \E t \in Threads : step[t] \in {"notify", "join", "joining"} /\ target[t] = p

\* At most one process is about to get equipment, and then no command is under
\* way and nobody stops that process.
StartOK ==
    /\ \A p, q \in Procs : phase[p] = "start" /\ phase[q] = "start" => p = q
    /\ \A p \in Procs :
         phase[p] = "start" => /\ command = None /\ step[Main] = "idle"
                               /\ ~stopRequested[p]

\* The stop() of a START stops the process that is started.
CommandOK == step[Main] # "idle" /\ command # None => target[Main] = command

\* A loop ends for a stop() that waits for it, and for nothing else.
LoopOK ==
    \A p \in Procs :
        phase[p] \in Looping /\ (stopRequested[p] \/ phase[p] = "leaving") =>
            BeingStopped(p)

OrderOK ==
    /\ StartOK /\ CommandOK /\ LoopOK /\ PP!StopperOK
    /\ ~terminated /\ ~undefined

\* While a process is made to give up its equipment, its usage is the one in
\* relinguishingEquip, until its run is over; otherwise there is none.
RelinguishOK ==
    /\ \A p \in Procs :
         pc[p] = "stopping" =>
             /\ relinguishingEquip = holding[p]
             /\ step[p] = "idle" =>
                  \A q \in Procs : holding[p] = Usage(q) => phase[q] = "idle"
    /\ (\A p \in Procs : pc[p] # "stopping") => relinguishingEquip = NoUsage

\* An ID is in the list once.  Who has equipment is listed or being made to give
\* it up, and not both; who has no exclusive use is not listed with it.
ListOK ==
    /\ \A i, j \in 1..Len(usedList) : usedList[i].usageID = usedList[j].usageID => i = j
    /\ \A p \in Procs :
         /\ Holds(p) => Listed(Usage(p)) \/ relinguishingEquip = Usage(p)
         /\ p \in Exclusive /\ ~Holds(p) => ~Listed(Usage(p))
         /\ relinguishingEquip = Usage(p) => ~Listed(Usage(p))

\* Nobody among the first n entries is in p's way.
Passed(p, n) ==
    \A i \in 1..Len(usedList) :
        i <= n /\ E(usedList[i].usageID) = Uses[p] => ~InTheWay(p, usedList[i])

\* The search has passed all up to itrPosition, all but the one it found, or all.
ScanOK ==
    /\ PositionInRange
    /\ (\A p \in Procs : pc[p] \notin {"scan", "relinguish", "stopping"}) =>
            usedList = <<>> \/ itrPosition = 0
    /\ \A p \in Procs :
         /\ pc[p] \in {"scan", "stopping"} => usedList = <<>> \/ Passed(p, itrPosition)
         /\ pc[p] = "relinguish" =>
              /\ itrPosition \in 1..Len(usedList)
              /\ usedList[itrPosition].usageID = holding[p]
              /\ Passed(p, itrPosition - 1)
         /\ pc[p] = "add" => itrPosition = 0 /\ Passed(p, Len(usedList))

\* What setPower may cache for a switch or the shutdown code of a control.
Given(e) ==
    {Off} \cup {argument[s] : s \in {t \in Switches : Uses[t] = e}}
          \cup {l \in {MAX_POWER} : \E asked \in SwitchLevels : asked > MAX_POWER}

\* A cached level was given so, or its control is in its loop, or a switch is
\* about to set it.
PowerOK ==
    /\ \A s \in Switches :
         pc[s] \in Asking \ {"arg"} => level[s] = argument[s]
    /\ \A e \in Equipment :
         \/ \E c \in Controls : Uses[c] = e /\ pc[c] = "loop"
         \/ \E s \in Switches : Uses[s] = e /\ (command = s \/ pc[s] \in Asking)
         \/ cached[e] \in Given(e)

PacedInv ==
    /\ GeneralInv /\ OrderOK /\ RelinguishOK /\ ListOK /\ ScanOK /\ ExclusiveAlone /\ PowerOK

-----------------------------------------------------------------------------
(***************************************************************************)
(* The list.                                                               *)
(***************************************************************************)
\* An entry with the ID, the list without the first of them, and each ID once
Has(s, id) == \E i \in 1..Len(s) : s[i].usageID = id
Without(s, id) == RemoveFirstMatch(s, LAMBDA u : u.usageID = id)
Unique(s) == \A i, j \in 1..Len(s) : s[i].usageID = s[j].usageID => i = j

\* What erasing leaves: everything but the first entry with the ID
LEMMA ErasedPlaces ==
    ASSUME NEW s \in Seq(Entries), NEW id
    PROVE  /\ Without(s, id) \in Seq(Entries)
           /\ ~Has(s, id) => Without(s, id) = s
           /\ Has(s, id) =>
                \E i \in 1..Len(s) :
                   /\ s[i].usageID = id
                   /\ Len(Without(s, id)) = Len(s) - 1
                   /\ \A j \in 1..(Len(s) - 1) :
                        Without(s, id)[j] = IF j < i THEN s[j] ELSE s[j + 1]
<1> DEFINE I == {i \in 1..Len(s) : s[i].usageID = id}
<1>1. CASE ~Has(s, id)
  <2>1. Without(s, id) = s
    BY <1>1 DEF Without, RemoveFirstMatch, Has
  <2> QED
    BY <1>1, <2>1
<1>2. CASE Has(s, id)
  <2>1. I \in SUBSET Nat /\ I # {}
    BY <1>2 DEF Has
  <2>2. Min(I) \in I
    BY <2>1, MinIsLeast
  <2>3. Without(s, id) = RemoveAt(s, Min(I))
    BY <1>2, <2>1 DEF Without, RemoveFirstMatch, SelectInSeq, Has
  <2> HIDE DEF I
  <2>4. Min(I) \in 1..Len(s) /\ s[Min(I)].usageID = id
    BY <2>2 DEF I
  <2>5. /\ RemoveAt(s, Min(I)) \in Seq(Entries)
        /\ Len(RemoveAt(s, Min(I))) = Len(s) - 1
        /\ \A j \in 1..(Len(s) - 1) :
             RemoveAt(s, Min(I))[j] = IF j < Min(I) THEN s[j] ELSE s[j + 1]
    BY <2>4, RemoveAtProperties
  <2> QED
    BY <1>2, <2>3, <2>4, <2>5
<1> QED
  BY <1>1, <1>2

\* The other IDs stay, and with distinct IDs the erased one is gone.
LEMMA ErasedIds ==
    ASSUME NEW s \in Seq(Entries), NEW id
    PROVE  /\ \A other : other # id => (Has(Without(s, id), other) <=> Has(s, other))
           /\ \A other : Has(Without(s, id), other) => Has(s, other)
           /\ Unique(s) => ~Has(Without(s, id), id) /\ Unique(Without(s, id))
<1> DEFINE t == Without(s, id)
<1>1. CASE ~Has(s, id)
  BY <1>1, ErasedPlaces
<1>2. CASE Has(s, id)
  <2>1. PICK i \in 1..Len(s) :
           /\ s[i].usageID = id
           /\ Len(t) = Len(s) - 1
           /\ \A j \in 1..(Len(s) - 1) : t[j] = IF j < i THEN s[j] ELSE s[j + 1]
    BY <1>2, ErasedPlaces
  <2>0. Len(s) \in Nat
    BY LenProperties
  <2> HIDE DEF t
  <2>2. ASSUME NEW other, NEW k \in 1..Len(s), s[k].usageID = other, k # i
        PROVE  Has(t, other)
    <3>1. CASE k < i
      BY <2>0, <2>1, <2>2, <3>1 DEF Has
    <3>2. CASE k > i
      <4>1. k - 1 \in 1..(Len(s) - 1) /\ ~(k - 1 < i) /\ (k - 1) + 1 = k
        BY <2>0, <3>2
      <4>2. t[k - 1] = s[k]
        BY <2>1, <4>1
      <4> QED
        BY <2>1, <2>2, <4>1, <4>2 DEF Has
    <3> QED
      BY <2>2, <3>1, <3>2
  <2>3. ASSUME NEW j \in 1..Len(t)
        PROVE  \E k \in 1..Len(s) : k # i /\ t[j] = s[k] /\ k = (IF j < i THEN j ELSE j + 1)
    <3>1. CASE j < i
      BY <2>0, <2>1, <3>1
    <3>2. CASE ~(j < i)
      BY <2>0, <2>1, <3>2
    <3> QED
      BY <3>1, <3>2
  <2>4. \A other : other # id => (Has(t, other) <=> Has(s, other))
    BY <2>1, <2>2, <2>3, SMTT(30) DEF Has
  <2>5. \A other : Has(t, other) => Has(s, other)
    BY <2>3 DEF Has
  <2>6. ASSUME Unique(s) PROVE ~Has(t, id) /\ Unique(t)
    <3>1. ~Has(t, id)
      BY <2>1, <2>3, <2>6 DEF Has, Unique
    <3>2. ASSUME NEW j \in 1..Len(t), NEW l \in 1..Len(t), t[j].usageID = t[l].usageID
          PROVE  j = l
      <4>1. PICK k \in 1..Len(s) : t[j] = s[k] /\ k = (IF j < i THEN j ELSE j + 1)
        BY <2>3
      <4>2. PICK m \in 1..Len(s) : t[l] = s[m] /\ m = (IF l < i THEN l ELSE l + 1)
        BY <2>3
      <4>3. k = m
        BY <2>6, <3>2, <4>1, <4>2 DEF Unique
      <4> QED
        BY <2>0, <2>1, <4>1, <4>2, <4>3
    <3> QED
      BY <3>1, <3>2 DEF Unique
  <2> QED
    BY <2>4, <2>5, <2>6 DEF t
<1> QED
  BY <1>1, <1>2

\* addUsage adds the ID of the process and no other.
LEMMA AddedIds ==
    ASSUME NEW s \in Seq(Entries), s = usedList, NEW p \in Procs
    PROVE  /\ WithUsage(p) \in Seq(Entries)
           /\ Has(WithUsage(p), Usage(p))
           /\ \A other : other # Usage(p) => (Has(WithUsage(p), other) <=> Has(s, other))
           /\ Unique(s) => Unique(WithUsage(p))
<1> DEFINE I == {i \in 1..Len(s) : s[i].usageID = Usage(p)}
           i == IF I # {} THEN Min(I) ELSE 0
           t == WithUsage(p)
<1>0. Len(s) \in Nat /\ Entry(p) \in Entries /\ Entry(p).usageID = Usage(p)
  BY LenProperties DEF Entries, Entry
<1>1. WithUsage(p) = IF i > 0 THEN [s EXCEPT ![i] = Entry(p)] ELSE Append(s, Entry(p))
  BY DEF WithUsage, SelectInSeq, Entry
<1>2. CASE I = {}
  <2>1. t = Append(s, Entry(p)) /\ ~Has(s, Usage(p))
    BY <1>1, <1>2 DEF Has
  <2>2. /\ t \in Seq(Entries)
        /\ Len(t) = Len(s) + 1
        /\ \A k \in 1..Len(s) : t[k] = s[k]
        /\ t[Len(s) + 1] = Entry(p)
    BY <1>0, <2>1, AppendProperties
  <2> HIDE DEF t
  <2>3. Has(t, Usage(p))
    BY <1>0, <2>2 DEF Has
  <2>4. \A other : other # Usage(p) => (Has(t, other) <=> Has(s, other))
    BY <1>0, <2>2 DEF Has
  <2>5. Unique(s) => Unique(t)
    BY <1>0, <2>1, <2>2 DEF Has, Unique
  <2> QED
    BY <2>2, <2>3, <2>4, <2>5 DEF t
<1>3. CASE I # {}
  <2>0. I \in SUBSET Nat
    OBVIOUS
  <2>1. Min(I) \in I
    BY <1>3, <2>0, MinIsLeast
  <2>2. t = [s EXCEPT ![i] = Entry(p)] /\ i \in 1..Len(s) /\ s[i].usageID = Usage(p)
    BY <1>1, <1>3, <2>1
  <2> HIDE DEF i
  <2>3. /\ t \in Seq(Entries)
        /\ Len(t) = Len(s)
        /\ \A k \in 1..Len(s) : t[k] = IF k = i THEN Entry(p) ELSE s[k]
    BY <1>0, <2>2, ExceptSeq
  <2> HIDE DEF t
  <2>4. \A k \in 1..Len(s) : t[k].usageID = s[k].usageID
    BY <1>0, <2>2, <2>3
  <2> QED
    BY <2>2, <2>3, <2>4 DEF Has, Unique, t
<1> QED
  BY <1>2, <1>3

-----------------------------------------------------------------------------
(***************************************************************************)
(* The steps of the module are steps of the processes.                     *)
(***************************************************************************)
\* The assumptions of Process hold of the processes of this module.
LEMMA ProcessAssumptions ==
    PP!MainIsNoProcess /\ PP!NoneIsNoProcess /\ PP!MayStopType
BY NamesDiffer DEF PP!MainIsNoProcess, PP!NoneIsNoProcess, PP!MayStopType, PP!Threads

\* The two instances of Process have the same actions: those of stop() ...
LEMMA SameStops ==
    ASSUME NEW t \in Threads
    PROVE  /\ \A p \in Procs : Proc!StopCheck(t, p) <=> PP!StopCheck(t, p)
           /\ Proc!StopRequest(t) <=> PP!StopRequest(t)
           /\ Proc!StopNotify(t) <=> PP!StopNotify(t)
           /\ Proc!StopJoin(t) <=> PP!StopJoin(t)
           /\ Proc!StopJoined(t) <=> PP!StopJoined(t)
           /\ Proc!StopClear(t) <=> PP!StopClear(t)
<1>1. \A p \in Procs : Proc!StopCheck(t, p) <=> PP!StopCheck(t, p)
  BY DEF Proc!StopCheck, PP!StopCheck, Proc!CanCall, PP!CanCall, Proc!Goto, PP!Goto
<1>2. Proc!StopRequest(t) <=> PP!StopRequest(t)
  BY DEF Proc!StopRequest, PP!StopRequest, Proc!Goto, PP!Goto
<1>3. Proc!StopNotify(t) <=> PP!StopNotify(t)
  BY DEF Proc!StopNotify, PP!StopNotify, Proc!Goto, PP!Goto
<1>4. \A u, p : Proc!JoinThrows(u, p) <=> PP!JoinThrows(u, p)
  BY DEF Proc!JoinThrows, PP!JoinThrows, Proc!BeingJoined, PP!BeingJoined,
     Proc!Threads, PP!Threads
<1>5. Proc!StopJoin(t) <=> PP!StopJoin(t)
  BY <1>4 DEF Proc!StopJoin, PP!StopJoin, Proc!Goto, PP!Goto
<1>6. Proc!StopJoined(t) <=> PP!StopJoined(t)
  BY DEF Proc!StopJoined, PP!StopJoined, Proc!Goto, PP!Goto
<1>7. Proc!StopClear(t) <=> PP!StopClear(t)
  BY DEF Proc!StopClear, PP!StopClear, Proc!Goto, PP!Goto
<1> QED
  BY <1>1, <1>2, <1>3, <1>5, <1>6, <1>7

\* ... and those of a run.
LEMMA SameRuns ==
    ASSUME NEW p \in Procs
    PROVE  /\ Proc!Start(p) <=> PP!Start(p)
           /\ Proc!EnterLoop(p) <=> PP!EnterLoop(p)
           /\ Proc!TestStop(p) <=> PP!TestStop(p)
           /\ Proc!Sleep(p) <=> PP!Sleep(p)
           /\ Proc!Timeout(p) <=> PP!Timeout(p)
           /\ Proc!WakeTest(p) <=> PP!WakeTest(p)
           /\ Proc!SpuriousWake(p) <=> PP!SpuriousWake(p)
           /\ Proc!RunReturn(p) <=> PP!RunReturn(p)
<1> USE DEF Proc!Moves, PP!Moves
<1>1. Proc!Start(p) <=> PP!Start(p)
  BY DEF Proc!Start, PP!Start
<1>2. Proc!EnterLoop(p) <=> PP!EnterLoop(p)
  BY DEF Proc!EnterLoop, PP!EnterLoop
<1>3. Proc!TestStop(p) <=> PP!TestStop(p)
  BY DEF Proc!TestStop, PP!TestStop
<1>4. Proc!Sleep(p) <=> PP!Sleep(p)
  BY DEF Proc!Sleep, PP!Sleep
<1>5. Proc!Timeout(p) <=> PP!Timeout(p)
  BY DEF Proc!Timeout, PP!Timeout
<1>6. Proc!WakeTest(p) <=> PP!WakeTest(p)
  BY DEF Proc!WakeTest, PP!WakeTest
<1>7. Proc!SpuriousWake(p) <=> PP!SpuriousWake(p)
  BY DEF Proc!SpuriousWake, PP!SpuriousWake
<1>8. Proc!RunReturn(p) <=> PP!RunReturn(p)
  BY DEF Proc!RunReturn, PP!RunReturn
<1> QED
  BY <1>1, <1>2, <1>3, <1>4, <1>5, <1>6, <1>7, <1>8

\* The steps that leave the processes alone
Alone(p) ==
    \/ CommandStart(p) \/ GetArg(p) \/ GetUsage(p) \/ GetUsageOutOfRange(p)
    \/ Relinguished(p) \/ SwitchPower(p) \/ SwitchOff(p)

\* They do.
LEMMA AloneLeaves == ASSUME NEW p \in Procs, Alone(p) PROVE UNCHANGED pvars
BY DEF Alone, CommandStart, GetArg, GetUsage, GetUsageOutOfRange, Relinguished,
   SwitchPower, SwitchOff

\* The steps of the processes: who does what to whom
LEMMA ProcessSteps ==
    ASSUME HoldingOK, [Next]_vars
    PROVE  \/ UNCHANGED pvars
           \/ \E p \in Procs : /\ StartLaunches(p) /\ PP!Start(p)
           \/ \E p \in Procs : /\ StartStops(p) \/ CommandStop(p)
                               /\ PP!StopCheck(Main, p)
           \/ \E p, q \in Procs : /\ Relinguish(p) /\ p # q /\ holding[p] = Usage(q)
                                  /\ PP!StopCheck(p, q)
           \/ \E t \in Threads : StopStep(t) /\ PP!StopStep(t)
           \/ \E p \in Procs : /\ \/ AddUsage(p) \/ Turn(p) \/ LoopStep(p) \/ SpuriousWake(p)
                                  \/ ReleaseUsage(p) \/ SharerReturns(p)
                               /\ PP!RunStep(p)
<1>1. CASE UNCHANGED vars \/ Gone \/ Race
  BY <1>1 DEF vars, Gone, Race
<1>2. ASSUME NEW p \in Procs, Alone(p) PROVE UNCHANGED pvars
  BY <1>2, AloneLeaves
<1>3. ASSUME NEW p \in Procs, StartLaunches(p) PROVE PP!Start(p)
  BY <1>3, SameRuns DEF StartLaunches
<1>4. ASSUME NEW p \in Procs, StartStops(p) \/ CommandStop(p) PROVE PP!StopCheck(Main, p)
  BY <1>4, SameStops DEF StartStops, CommandStop, Threads
<1>5. ASSUME NEW p \in Procs, Relinguish(p)
      PROVE  \/ UNCHANGED pvars
             \/ \E q \in Procs : p # q /\ holding[p] = Usage(q) /\ PP!StopCheck(p, q)
  <2>1. PICK q \in Procs \ {p} : holding[p] = Usage(q)
    BY <1>5 DEF Relinguish, Runs, HoldingOK
  <2>2. P(holding[p]) = q
    BY <2>1 DEF Usage, P, PE
  <2>3. UNCHANGED pvars \/ Proc!StopCheck(p, q)
    BY <1>5, <2>2 DEF Relinguish, StopHolder
  <2> QED
    BY <2>1, <2>3, SameStops DEF Threads
<1>6. ASSUME NEW t \in Threads, StopStep(t) PROVE PP!StopStep(t)
  BY <1>6, SameStops DEF StopStep, Proc!StopStep, PP!StopStep
<1>7. ASSUME NEW p \in Procs,
             \/ AddUsage(p) \/ Turn(p) \/ LoopStep(p) \/ SpuriousWake(p)
             \/ ReleaseUsage(p) \/ SharerReturns(p)
      PROVE  UNCHANGED pvars \/ PP!RunStep(p)
  BY <1>7, SameRuns DEF AddUsage, Turn, LoopStep, SpuriousWake, ReleaseUsage,
     SharerReturns, PP!RunStep, PP!Advance
<1> QED
  BY <1>1, <1>2, <1>3, <1>4, <1>5, <1>6, <1>7
     DEF Next, Commanding, Acquiring, Using, Alone, Threads

\* Every step is one of the processes, or leaves them alone: a process stops only
\* those it found in its way, and never itself.
LEMMA ProcessStep == ASSUME HoldingOK, [Next]_vars PROVE [PP!Next]_PP!pvars
<1>1. CASE UNCHANGED pvars
  BY <1>1 DEF pvars, PP!pvars
<1>2. ASSUME NEW t \in Threads, NEW p \in Procs, t # p, PP!StopCheck(t, p)
      PROVE  PP!Next
  <2>1. <<t, p>> \in {tp \in (Procs \cup {Main}) \X Procs : tp[1] # tp[2]}
    BY <1>2 DEF Threads
  <2>2. <<t, p>>[1] = t /\ <<t, p>>[2] = p
    OBVIOUS
  <2> QED
    BY <1>2, <2>1, <2>2 DEF PP!Next
<1>3. \A p \in Procs : Main # p
  BY NamesDiffer
<1> QED
  BY <1>1, <1>2, <1>3, ProcessSteps DEF PP!Next, Threads, PP!Threads

-----------------------------------------------------------------------------
(***************************************************************************)
(* Commands at any pace: the types, and who is told to stop.               *)
(***************************************************************************)
\* The search finds the next entry for the equipment, if there is one.
LEMMA NextUsageFinds ==
    ASSUME usedList \in Seq(Entries), itrPosition \in 0..Len(usedList), NEW e
    PROVE  \/ /\ NextUsage(e) = 0
              /\ \A j \in (itrPosition + 1)..Len(usedList) : E(usedList[j].usageID) # e
           \/ /\ NextUsage(e) \in (itrPosition + 1)..Len(usedList)
              /\ E(usedList[NextUsage(e)].usageID) = e
              /\ \A j \in (itrPosition + 1)..(NextUsage(e) - 1) :
                   E(usedList[j].usageID) # e
<1> DEFINE I == {i \in (itrPosition + 1)..Len(usedList) : E(usedList[i].usageID) = e}
<1>0. Len(usedList) \in Nat
  BY LenProperties
<1>1. NextUsage(e) = IF I # {} THEN Min(I) ELSE 0
  BY DEF NextUsage, SelectInSubSeq
<1>2. CASE I = {}
  BY <1>1, <1>2
<1>3. CASE I # {}
  <2>1. I \in SUBSET Nat
    BY <1>0
  <2>2. Min(I) \in I /\ \A m \in I : Min(I) <= m
    BY <1>3, <2>1, MinIsLeast
  <2>3. /\ NextUsage(e) = Min(I)
        /\ Min(I) \in (itrPosition + 1)..Len(usedList)
        /\ E(usedList[Min(I)].usageID) = e
    BY <1>1, <1>3, <2>2
  <2>4. ASSUME NEW j \in (itrPosition + 1)..(Min(I) - 1)
        PROVE  E(usedList[j].usageID) # e
    <3>1. j \in (itrPosition + 1)..Len(usedList) /\ j \notin I
      BY <1>0, <2>2, <2>3
    <3> QED
      BY <3>1
  <2> HIDE DEF I
  <2> QED
    BY <2>3, <2>4
<1> QED
  BY <1>2, <1>3

\* setPower caches what it was asked for, or the maximum if a level above it was
\* cached, which a client must have sent.
LEMMA ClampGives ==
    ASSUME NEW c \in CachedLevels, NEW asked \in CachedLevels
    PROVE  /\ Clamp(c, asked) \in CachedLevels
           /\ \/ Clamp(c, asked) = asked
              \/ /\ Clamp(c, asked) = MAX_POWER
                 /\ \E l \in SwitchLevels : l > MAX_POWER
<1>1. CASE c > MAX_POWER
  <2>1. c \in SwitchLevels
    BY <1>1, LevelsType DEF CachedLevels, Off, MAX_POWER
  <2> QED
    BY <1>1, <2>1 DEF Clamp, CachedLevels
<1>2. CASE ~(c > MAX_POWER)
  BY <1>2 DEF Clamp
<1> QED
  BY <1>1, <1>2

\* Every action keeps the types; the list gains entries of processes only.
LEMMA TypeStep == ASSUME ModuleTypeOK, HoldingOK, [Next]_vars PROVE ModuleTypeOK'
<1> USE DEF ModuleTypeOK
<1>1. CASE UNCHANGED vars \/ Gone \/ Race
  BY <1>1 DEF vars, usage, locals, Gone, Race, nodes
<1>2. ASSUME NEW p \in Procs, CommandStart(p) \/ StartStops(p) \/ CommandStop(p) \/ StartLaunches(p)
      PROVE ModuleTypeOK'
  <2>1. CASE CommandStart(p)
    BY <2>1 DEF CommandStart, usage, nodes
  <2>2. CASE StartStops(p) \/ CommandStop(p)
    BY <2>2 DEF StartStops, CommandStop, usage, locals, nodes
  <2>3. CASE StartLaunches(p)
    BY <2>3 DEF StartLaunches, usage, Pcs, nodes
  <2> QED
    BY <1>2, <2>1, <2>2, <2>3
<1>3. ASSUME NEW p \in Procs, GetArg(p) PROVE ModuleTypeOK'
  BY <1>3 DEF GetArg, Becomes, Pcs, usage, nodes
<1>4. ASSUME NEW p \in Procs, GetUsage(p) PROVE ModuleTypeOK'
  <2>1. CASE usedList = <<>>
    <3>1. /\ itrPosition' = 0 /\ Becomes(p, "add") /\ holding' = holding
          /\ UNCHANGED <<usedList, relinguishingEquip, nodes, argument, level, command, undefined>>
      BY <1>4, <2>1 DEF GetUsage
    <3> QED
      BY <3>1 DEF Becomes, Pcs, nodes
  <2>2. CASE usedList # <<>>
    <3> DEFINE i == NextUsage(Uses[p])
    <3>1. i = 0 \/ i \in 1..Len(usedList)
      BY <1>4, <2>2, NextUsageFinds, LenProperties DEF GetUsage, PositionInRange
    <3>2. i # 0 => usedList[i] \in Entries
      BY <3>1, ElementOfSeq
    <3>3. i # 0 => usedList[i].usageID \in Procs \X Equipment
      BY <3>2, UsesType DEF Entries, Entry, Usage, PE
    <3>4. /\ itrPosition' = i
          /\ holding' \in {holding, [holding EXCEPT ![p] = usedList[i].usageID]}
          /\ i = 0 => holding' = holding
          /\ pc' = pc \/ Becomes(p, "add") \/ Becomes(p, "relinguish")
          /\ UNCHANGED <<usedList, relinguishingEquip, nodes, argument, level, command, undefined>>
      BY <1>4, <2>2 DEF GetUsage
    <3>5. pc' \in [Procs -> Pcs]
      BY <3>4 DEF Becomes, Pcs
    <3> HIDE DEF i
    <3>6. itrPosition' \in Int
      BY <3>1, <3>4
    <3>7. holding' \in [Procs -> (Procs \X Equipment) \cup {NoUsage}]
      BY <3>3, <3>4
    <3> QED
      BY <3>4, <3>5, <3>6, <3>7 DEF nodes
  <2> QED
    BY <2>1, <2>2
<1>5. ASSUME NEW p \in Procs, GetUsageOutOfRange(p) PROVE ModuleTypeOK'
  BY <1>5 DEF GetUsageOutOfRange, usage, nodes
<1>6. ASSUME NEW p \in Procs, Relinguish(p) PROVE ModuleTypeOK'
  <2>1. usedList' = Without(usedList, holding[p])
    BY <1>6 DEF Relinguish, Erase, Without
  <2>2. usedList' \in Seq(Entries)
    BY <2>1, ErasedPlaces
  <2> QED
    BY <1>6, <2>2 DEF Relinguish, PositionAfter, Becomes, Pcs, locals, nodes
<1>7. ASSUME NEW p \in Procs, Relinguished(p) PROVE ModuleTypeOK'
  BY <1>7 DEF Relinguished, Becomes, Pcs, nodes
<1>8. ASSUME NEW p \in Procs, AddUsage(p) PROVE ModuleTypeOK'
  <2>1. usedList' \in Seq(Entries)
    BY <1>8, AddedIds DEF AddUsage
  <2> QED
    BY <1>8, <2>1 DEF AddUsage, Becomes, Pcs, locals, nodes
<1>9. ASSUME NEW p \in Procs, SwitchPower(p) \/ Turn(p) \/ SwitchOff(p) PROVE ModuleTypeOK'
  <2>1. \/ UNCHANGED nodes
        \/ \E l \in CachedLevels : SetPower(p, l)
    BY <1>9 DEF SwitchPower, Turn, SwitchOff, CachedLevels
  <2>2. cached' \in [Equipment -> CachedLevels] /\ power' \in [Equipment -> Levels]
    <3>1. CASE UNCHANGED nodes
      BY <3>1 DEF nodes
    <3>2. ASSUME NEW l \in CachedLevels, SetPower(p, l)
          PROVE  cached' \in [Equipment -> CachedLevels] /\ power' \in [Equipment -> Levels]
      <4>1. Clamp(cached[Uses[p]], l) \in CachedLevels
        BY UsesType, ClampGives
      <4> QED
        BY <3>2, <4>1, UsesType DEF SetPower, Levels
    <3> QED
      BY <2>1, <3>1, <3>2
  <2>3. level' \in [Procs -> SwitchLevels \cup {Off}]
    BY <1>9 DEF SwitchPower, Turn, SwitchOff, locals
  <2> QED
    BY <1>9, <2>2, <2>3 DEF SwitchPower, Turn, SwitchOff, Becomes, Pcs, usage, locals
<1>10. ASSUME NEW p \in Procs, LoopStep(p) \/ SpuriousWake(p) \/ SharerReturns(p) PROVE ModuleTypeOK'
  BY <1>10 DEF LoopStep, SpuriousWake, SharerReturns, Becomes, Pcs, usage, locals, nodes
<1>11. ASSUME NEW p \in Procs, ReleaseUsage(p) PROVE ModuleTypeOK'
  <2>1. usedList' = usedList \/ usedList' = Without(usedList, Usage(p))
    BY <1>11 DEF ReleaseUsage, Erase, Without
  <2>2. usedList' \in Seq(Entries)
    BY <2>1, ErasedPlaces
  <2> QED
    BY <1>11, <2>2 DEF ReleaseUsage, Becomes, Pcs, locals, nodes
<1>12. ASSUME NEW t \in Threads, StopStep(t) PROVE ModuleTypeOK'
  BY <1>12 DEF StopStep, usage, locals, nodes
<1> QED
  BY <1>1, <1>2, <1>3, <1>4, <1>5, <1>6, <1>7, <1>8, <1>9, <1>10, <1>11, <1>12
     DEF Next, Commanding, Acquiring, Using, Threads

\* The thread is in one place of run(), and stops whom it found in its way.
LEMMA PlaceStep ==
    ASSUME ModuleTypeOK, PP!HandleInv, PlaceOK, HoldingOK, [Next]_vars
    PROVE  PlaceOK' /\ HoldingOK'
<1> USE ClassesDiffer, NamesDiffer
    DEF PlaceOK, HoldingOK, Asking, Looping, ModuleTypeOK, Pcs, PP!HandleInv, PP!TypeOK,
        PP!Threads, Threads
<1>1. CASE UNCHANGED vars \/ Gone \/ Race
  BY <1>1 DEF vars, pvars, locals, Gone, Race
<1>2. ASSUME NEW p \in Procs, CommandStart(p) PROVE PlaceOK' /\ HoldingOK'
  BY <1>2 DEF CommandStart, pvars
<1>3. ASSUME NEW p \in Procs, PP!StopCheck(Main, p), UNCHANGED <<pc, holding>>
      PROVE PlaceOK' /\ HoldingOK'
  BY <1>3 DEF PP!StopCheck, PP!Goto
<1>4. ASSUME NEW p \in Procs, StartLaunches(p), PP!Start(p) PROVE PlaceOK' /\ HoldingOK'
  <2>1. phase[p] = "idle"
    BY <1>4 DEF PP!Start, PP!AliveOK, PP!RunningCoversHandle
  <2>2. pc[p] = "idle"
    BY <2>1
  <2>3. step[p] = "idle"
    BY <2>2
  <2> QED
    BY <1>4, <2>1, <2>2, <2>3 DEF StartLaunches, PP!Start
<1>5. ASSUME NEW p \in Procs, GetArg(p) \/ SwitchPower(p) PROVE PlaceOK' /\ HoldingOK'
  BY <1>5 DEF GetArg, SwitchPower, Becomes, Runs, pvars, locals
<1>6. ASSUME NEW p \in Procs, GetUsage(p) PROVE PlaceOK' /\ HoldingOK'
  <2> DEFINE i == IF usedList = <<>> THEN 0 ELSE NextUsage(Uses[p])
  <2>1. /\ UNCHANGED pvars /\ Runs(p, "scan")
        /\ \/ Becomes(p, "add") /\ UNCHANGED holding
           \/ UNCHANGED <<pc, holding>>
           \/ /\ Becomes(p, "relinguish") /\ i > 0 /\ InTheWay(p, usedList[i])
              /\ holding' = [holding EXCEPT ![p] = usedList[i].usageID]
    BY <1>6 DEF GetUsage
  <2>2. ASSUME i > 0, InTheWay(p, usedList[i])
        PROVE  \E q \in Procs \ {p} : usedList[i].usageID = Usage(q)
    <3>1. i \in 1..Len(usedList)
      BY <1>6, <2>2, NextUsageFinds, LenProperties DEF GetUsage, PositionInRange
    <3>2. usedList[i] \in Entries
      BY <3>1, ElementOfSeq
    <3>3. PICK q \in Procs : usedList[i] = Entry(q)
      BY <3>2 DEF Entries
    <3>4. usedList[i].usageID = Usage(q)
      BY <3>3 DEF Entry
    <3> QED
      BY <2>2, <3>4 DEF InTheWay
  <2> HIDE DEF i
  <2>3. PlaceOK'
    BY <2>1 DEF Becomes, Runs, pvars
  <2>4. HoldingOK'
    BY <2>1, <2>2 DEF Becomes, Runs, pvars
  <2> QED
    BY <2>3, <2>4
<1>7. ASSUME NEW p \in Procs, GetUsageOutOfRange(p) PROVE PlaceOK' /\ HoldingOK'
  BY <1>7 DEF GetUsageOutOfRange, pvars
<1>8. ASSUME NEW p \in Procs, Relinguish(p) PROVE PlaceOK' /\ HoldingOK'
  <2>1. Runs(p, "relinguish") /\ Becomes(p, "stopping") /\ UNCHANGED holding
    BY <1>8 DEF Relinguish, locals
  <2>2. PICK q \in Procs \ {p} : holding[p] = Usage(q)
    BY <2>1 DEF Runs
  <2>3. P(holding[p]) = q
    BY <2>2 DEF Usage, P, PE
  <2>4. UNCHANGED pvars \/ PP!StopCheck(p, q)
    BY <1>8, <2>3, SameStops DEF Relinguish, StopHolder
  <2>5. CASE UNCHANGED pvars
    BY <2>1, <2>2, <2>5 DEF Becomes, Runs, pvars
  <2>6. CASE PP!StopCheck(p, q)
    BY <2>1, <2>2, <2>3, <2>6 DEF Becomes, Runs, PP!StopCheck, PP!Goto
  <2> QED
    BY <2>4, <2>5, <2>6
<1>9. ASSUME NEW p \in Procs, Relinguished(p) PROVE PlaceOK' /\ HoldingOK'
  BY <1>9 DEF Relinguished, Becomes, Runs, pvars
<1>10. ASSUME NEW p \in Procs, AddUsage(p) PROVE PlaceOK' /\ HoldingOK'
  <2>1. CASE p \in Switches
    BY <1>10, <2>1, SMTT(30) DEF AddUsage, Becomes, Runs, pvars, locals
  <2>2. CASE p \notin Switches
    BY <1>10, <2>2, SameRuns DEF AddUsage, Becomes, Runs, locals, PP!EnterLoop, PP!Moves
  <2> QED
    BY <2>1, <2>2
<1>11. ASSUME NEW p \in Procs, Turn(p) \/ LoopStep(p) \/ SpuriousWake(p)
       PROVE PlaceOK' /\ HoldingOK'
  <2>1. /\ UNCHANGED <<pc, holding, step, target>>
        /\ \E from, to \in Looping : PP!Moves(p, from, to)
    BY <1>11, SameRuns DEF Turn, LoopStep, SpuriousWake, locals, PP!Moves, PP!Sleep,
       PP!TestStop, PP!Timeout, PP!WakeTest, PP!SpuriousWake
  <2>0. phase[p] \in {"test", "work", "waiting", "woken"}
    BY <1>11, SameRuns DEF PP!Moves, Turn, LoopStep, SpuriousWake, PP!Sleep,
       PP!TestStop, PP!Timeout, PP!WakeTest, PP!SpuriousWake
  <2>2. pc[p] = "loop"
    BY <2>0
  <2>3. \A q \in Procs : q # p => phase'[q] = phase[q]
    BY <2>1 DEF PP!Moves
  <2>4. phase'[p] \in Looping
    BY <2>1 DEF PP!Moves
  <2>5. p \notin Switches
    BY <2>2
  <2> QED
    BY <2>1, <2>2, <2>3, <2>4, <2>5
<1>12. ASSUME NEW p \in Procs, SwitchOff(p) PROVE PlaceOK' /\ HoldingOK'
  BY <1>12 DEF SwitchOff, Becomes, Runs, pvars, locals
<1>13. ASSUME NEW p \in Procs, ReleaseUsage(p) \/ SharerReturns(p)
       PROVE PlaceOK' /\ HoldingOK'
  <2>1. /\ pc[p] \in {"release", "loop"} /\ step[p] = "idle" /\ Becomes(p, "idle")
        /\ UNCHANGED <<holding, step, target>>
        /\ phase' = [phase EXCEPT ![p] = "idle"]
    BY <1>13, SameRuns DEF ReleaseUsage, SharerReturns, Runs, PP!RunReturn, PP!Moves, locals
  <2> QED
    BY <2>1 DEF Becomes
<1>14. ASSUME NEW t \in Threads, StopStep(t), PP!StopStep(t) PROVE PlaceOK' /\ HoldingOK'
  <2>0. UNCHANGED <<pc, holding>>
    BY <1>14 DEF StopStep, locals
  <2>1. CASE PP!StopRequest(t) \/ PP!StopJoin(t) \/ PP!StopJoined(t) \/ PP!StopClear(t)
    BY <2>0, <2>1 DEF PP!StopRequest, PP!StopJoin, PP!StopJoined, PP!StopClear, PP!Goto
  <2>2. CASE PP!StopNotify(t)
    BY <2>0, <2>2 DEF PP!StopNotify, PP!Goto, PP!TargetOK
  <2> QED
    BY <1>14, <2>1, <2>2 DEF PP!StopStep
<1> QED
  BY <1>1, <1>2, <1>3, <1>4, <1>5, <1>6, <1>7, <1>8, <1>9, <1>10, <1>11, <1>12, <1>13,
     <1>14, SameRuns, SameStops
     DEF Next, Commanding, Acquiring, Using, Threads, StartStops, CommandStop, locals,
     StartLaunches, StopStep, Proc!StopStep, PP!StopStep

\* p has\* p has been asked to stop, or is about to be.
Told(p) ==
    \/ stopRequested[p]
    \/ \E t \in Threads : step[t] = "request" /\ target[t] = p

\* Only start() takes that back.
LEMMA ToldStays ==
    ASSUME HoldingOK, PP!HandleInv, NEW p \in Procs, Told(p), [Next]_vars, ~PP!Start(p)
    PROVE  Told(p)'
<1> USE NamesDiffer DEF Told, PP!HandleInv, PP!TypeOK, PP!Threads, Threads
<1>1. CASE UNCHANGED pvars
  BY <1>1 DEF pvars
<1>2. ASSUME NEW q \in Procs, PP!Start(q) PROVE Told(p)'
  BY <1>2 DEF PP!Start
<1>3. ASSUME NEW t \in Threads, NEW q \in Procs, PP!StopCheck(t, q) PROVE Told(p)'
  BY <1>3 DEF PP!StopCheck, PP!CanCall, PP!Goto
<1>4. ASSUME NEW t \in Threads, PP!StopStep(t) PROVE Told(p)'
  <2>1. CASE PP!StopRequest(t)
    BY <2>1 DEF PP!StopRequest, PP!Goto, PP!TargetOK
  <2>2. CASE PP!StopNotify(t) \/ PP!StopJoin(t) \/ PP!StopJoined(t) \/ PP!StopClear(t)
    BY <2>2 DEF PP!StopNotify, PP!StopJoin, PP!StopJoined, PP!StopClear, PP!Goto
  <2> QED
    BY <1>4, <2>1, <2>2 DEF PP!StopStep
<1>5. ASSUME NEW q \in Procs, PP!RunStep(q) PROVE Told(p)'
  BY <1>5 DEF PP!RunStep, PP!Advance, PP!EnterLoop, PP!TestStop, PP!Sleep, PP!BreakLoop,
     PP!Timeout, PP!SpuriousWake, PP!WakeTest, PP!RunReturn, PP!Moves
<1> QED
  BY <1>1, <1>2, <1>3, <1>4, <1>5, ProcessSteps

\* An entry is lost to relinguish alone, which turns to its process at once.
LEMMA PreemptedStep ==
    ASSUME GeneralInv, [Next]_vars PROVE PreemptedIsStopping'
<1> USE DEF GeneralInv
<1> SUFFICES ASSUME NEW p \in Procs, pc'[p] = "loop", ~Has(usedList', Usage(p))
             PROVE  Told(p)'
  BY DEF PreemptedIsStopping, Told, Listed, Has, Threads
<1>0. ~PP!Start(p)
  <2>1. PlaceOK'
    BY PlaceStep
  <2>2. phase'[p] # "start"
    BY <2>1 DEF PlaceOK, Looping
  <2> QED
    BY <2>2 DEF PP!Start, PP!HandleInv, PP!TypeOK
<1>1. CASE Told(p)
  BY <1>0, <1>1, ToldStays
<1>2. CASE pc[p] # "loop"
  <2>1. \A q \in Procs : q # p => Usage(q) # Usage(p)
    BY DEF Usage, PE
  <2>2. PICK q \in Procs : AddUsage(q) /\ Becomes(q, "loop")
    BY <1>2 DEF ModuleTypeOK, Next, Commanding, Acquiring, Using, CommandStart, StartStops,
       StartLaunches, CommandStop, GetArg, GetUsage, GetUsageOutOfRange, Relinguish,
       Relinguished, AddUsage, SwitchPower, Turn, LoopStep, SpuriousWake, SwitchOff,
       ReleaseUsage, SharerReturns, StopStep, Race, Gone, vars, Becomes
  <2>3. q = p
    BY <1>2, <2>2 DEF Becomes, ModuleTypeOK
  <2>4. Has(usedList', Usage(p))
    BY <2>2, <2>3, AddedIds DEF AddUsage, ModuleTypeOK
  <2> QED
    BY <2>4
<1>3. CASE pc[p] = "loop" /\ ~Told(p)
  <2>1. Has(usedList, Usage(p))
    BY <1>3 DEF PreemptedIsStopping, Told, Listed, Has, Threads
  <2>2. \A q \in Procs : q # p => Usage(q) # Usage(p)
    BY DEF Usage, PE
  <2>3. ASSUME NEW q \in Procs, AddUsage(q) PROVE Has(usedList', Usage(p))
    <3>1. CASE q = p
      BY <1>3, <2>3, <3>1 DEF AddUsage, Runs
    <3>2. CASE q # p
      BY <2>1, <2>2, <2>3, <3>2, AddedIds DEF AddUsage, ModuleTypeOK
    <3> QED
      BY <3>1, <3>2
  <2>4. ASSUME NEW q \in Procs, ReleaseUsage(q) PROVE Has(usedList', Usage(p))
    <3>1. q # p
      BY <1>3, <2>4 DEF ReleaseUsage, Runs
    <3>2. usedList' = usedList \/ usedList' = Without(usedList, Usage(q))
      BY <2>4 DEF ReleaseUsage, Erase, Without
    <3> QED
      BY <2>1, <2>2, <3>1, <3>2, ErasedIds DEF ModuleTypeOK
  <2>5. ASSUME NEW q \in Procs, Relinguish(q) PROVE Told(p)'
    <3>1. usedList' = Without(usedList, holding[q])
      BY <2>5 DEF Relinguish, Erase, Without
    <3>2. holding[q] = Usage(p)
      BY <2>1, <3>1, ErasedIds DEF ModuleTypeOK
    <3>3. P(holding[q]) = p /\ Listed(holding[q])
      BY <2>1, <3>2 DEF P, Usage, PE, Listed, Has
    <3>4. running[p]
      <4>1. phase[p] # "idle"
        BY <1>3 DEF PlaceOK, Looping
      <4> QED
        BY <4>1 DEF PP!HandleInv, PP!AliveOK, PP!RunningCoversHandle, PP!TypeOK
    <3>5. PP!StopCheck(q, p)
      BY <2>5, <3>3, <3>4, SameStops DEF Relinguish, StopHolder, Threads
    <3> QED
      BY <3>5 DEF PP!StopCheck, PP!Goto, Told, Threads, PP!Threads, PP!HandleInv, PP!TypeOK
  <2>6. \/ usedList' = usedList
        \/ \E q \in Procs : AddUsage(q) \/ ReleaseUsage(q) \/ Relinguish(q)
    BY DEF Next, Commanding, Acquiring, Using, CommandStart, StartStops,
       StartLaunches, CommandStop, GetArg, GetUsage, GetUsageOutOfRange,
       Relinguished, SwitchPower, Turn, LoopStep, SpuriousWake, SwitchOff,
       SharerReturns, StopStep, Race, Gone, vars, usage
  <2> QED
    BY <2>1, <2>3, <2>4, <2>5, <2>6
<1> QED
  BY <1>1, <1>2, <1>3

\* The invariant at any pace holds at first, is kept by every step, and so is
\* always true.
LEMMA GeneralInit == Init => GeneralInv
<1> SUFFICES ASSUME Init PROVE GeneralInv
  OBVIOUS
<1>1. ModuleTypeOK
  <2>1. usedList \in Seq(Entries)
    BY EmptySeq DEF Init
  <2>2. itrPosition \in Int
    BY PositionsType DEF Init
  <2>3. Off \in CachedLevels /\ Off \in Levels
    <3>1. Written(Off) = Off
      BY DEF Written, FourDigits, Off
    <3> QED
      BY <3>1 DEF CachedLevels, Levels
  <2> QED
    BY <2>1, <2>2, <2>3 DEF Init, ModuleTypeOK, Pcs
<1>2. PP!TypeOK /\ PP!TargetOK /\ PP!JoinerOK /\ PP!OneJoiner
  BY DEF Init, Proc!Init, Proc!Threads, PP!TypeOK, PP!Threads, PP!Handles, PP!Phases,
     PP!Steps, PP!TargetOK, PP!JoinerOK, PP!OneJoiner
<1>3. PP!AliveOK /\ PP!RunningCoversHandle
  BY DEF Init, Proc!Init, Proc!Threads, PP!Threads, PP!AliveOK, PP!RunningCoversHandle,
     PP!Clearing
<1>4. PlaceOK /\ HoldingOK /\ PreemptedIsStopping
  BY DEF Init, Proc!Init, Proc!Threads, PlaceOK, HoldingOK, PreemptedIsStopping, Asking
<1> QED
  BY <1>1, <1>2, <1>3, <1>4 DEF GeneralInv, PP!HandleInv

\* What concerns the processes alone is inherited from ProcessProofs.
LEMMA GeneralStep == ASSUME GeneralInv, [Next]_vars PROVE GeneralInv'
<1>1. PP!HandleInv'
  BY ProcessStep, ProcessAssumptions, PP!HandleStep DEF GeneralInv
<1> QED
  BY <1>1, TypeStep, PlaceStep, PreemptedStep DEF GeneralInv

\* The invariant of the arbitration at any pace
LEMMA GeneralInvariant == Spec => []GeneralInv
<1>1. GeneralInv /\ [Next]_vars => GeneralInv'
  BY GeneralStep
<1> QED
  BY <1>1, GeneralInit, PTL DEF Spec

\* The module is made of processes, at any pace: its behaviours are behaviours of
\* Process (DevProc.cpp, Controller.cpp:12-44).
THEOREM ModuleOfProcesses == Spec => PP!Spec
<1>1. Init => PP!Init
  BY DEF Init, Proc!Init, Proc!Threads, PP!Init, PP!Threads
<1>2. GeneralInv /\ [Next]_vars => [PP!Next]_PP!pvars
  BY ProcessStep DEF GeneralInv
<1> QED
  BY <1>1, <1>2, GeneralInvariant, PTL DEF Spec, PP!Spec

\* So a stop() that joined returns only after the run, in the arbitration too and
\* at any pace of the commands (Process.cpp:30-53).
THEOREM RelinguishIsSynchronous == Spec => PP!StopIsSynchronous
BY ModuleOfProcesses, ProcessAssumptions, PP!StopSynchronous

\* Every variable of the module and of its processes keeps its type, at any
\* pace of the commands, for as long as the list is not ruined by a race.
THEOREM ModuleTypes == Spec => []TypeOK
<1>1. ASSUME GeneralInv PROVE TypeOK
  <2>1. Entries \subseteq [usageID : Procs \X Equipment, exclusive : BOOLEAN]
    <3>1. ASSUME NEW p \in Procs
          PROVE  Entry(p) \in [usageID : Procs \X Equipment, exclusive : BOOLEAN]
      BY UsesType DEF Entry, Usage, PE
    <3> QED
      BY <3>1 DEF Entries
  <2>2. usedList \in Seq([usageID : Procs \X Equipment, exclusive : BOOLEAN])
    BY <1>1, <2>1, SeqMonotonic DEF GeneralInv, ModuleTypeOK
  <2>3. Proc!TypeOK
    BY <1>1 DEF GeneralInv, PP!HandleInv, PP!TypeOK, PP!Threads, PP!Handles, PP!Phases,
       PP!Steps, Proc!TypeOK, Proc!Threads, Proc!Handles, Proc!Phases, Proc!Steps
  <2> QED
    BY <1>1, <2>2, <2>3 DEF GeneralInv, ModuleTypeOK, TypeOK
<1> QED
  BY <1>1, GeneralInvariant, PTL

\* At any pace of the commands, a loop whose entry another process took away is
\* told to stop, by the thread that took it (BrewModule.cpp:333-337).
THEOREM PreemptedStops == Spec => []PreemptedIsStopping
<1>1. GeneralInv => PreemptedIsStopping
  BY DEF GeneralInv
<1> QED
  BY <1>1, GeneralInvariant, PTL

-----------------------------------------------------------------------------
(***************************************************************************)
(* Paced commands: one after the other.                                    *)
(***************************************************************************)
\* A process inside stop() is the one that is about to get equipment.
LEMMA StoppersStart ==
    ASSUME GeneralInv, NEW p \in Procs, step[p] # "idle" PROVE phase[p] = "start"
BY DEF GeneralInv, HoldingOK, PlaceOK, Asking

\* At most one thread is inside stop(), and not to stop itself.
LEMMA OneStopper ==
    ASSUME GeneralInv, StartOK
    PROVE  /\ \A t, u \in Threads : step[t] # "idle" /\ step[u] # "idle" => t = u
           /\ \A t \in Threads : step[t] # "idle" => t # target[t]
<1>1. ASSUME NEW t \in Threads, NEW u \in Threads, step[t] # "idle", step[u] # "idle"
      PROVE  t = u
  BY <1>1, StoppersStart DEF StartOK, Threads
<1>2. ASSUME NEW t \in Threads, step[t] # "idle" PROVE t # target[t]
  <2>1. CASE t = Main
    BY <1>2, <2>1, NamesDiffer DEF GeneralInv, PP!HandleInv, PP!TargetOK, PP!Threads
  <2>2. CASE t \in Procs
    <3>1. PICK q \in Procs \ {t} : holding[t] = Usage(q)
      BY <1>2, <2>2 DEF GeneralInv, HoldingOK
    <3>2. P(holding[t]) = q
      BY <3>1 DEF P, Usage, PE
    <3> QED
      BY <1>2, <2>2, <3>1, <3>2 DEF GeneralInv, HoldingOK
  <2> QED
    BY <2>1, <2>2 DEF Threads
<1> QED
  BY <1>1, <1>2

\* The accesses to the list are ordered by the joins alone.
LEMMA OrderedAccesses == ASSUME GeneralInv, OrderOK PROVE NoListRace
<1> USE DEF OrderOK
<1> SUFFICES ASSUME NEW p \in Procs, NEW q \in Procs, Accesses(p), Accesses(q) PROVE p = q
  BY DEF NoListRace
<1>1. ASSUME NEW r \in Procs, Accesses(r)
      PROVE  /\ step[r] = "idle"
             /\ phase[r] = "start" \/ (phase[r] = "leaving" /\ BeingStopped(r))
  <2>1. pc[r] \in {"scan", "relinguish", "stopping", "add", "release"} /\ step[r] = "idle"
    BY <1>1 DEF Accesses
  <2>2. phase[r] \in {"start", "leaving"}
    BY <2>1 DEF GeneralInv, PlaceOK, Asking
  <2>3. phase[r] = "leaving" => BeingStopped(r)
    BY DEF LoopOK, Looping, BeingStopped
  <2> QED
    BY <2>1, <2>2, <2>3
<1>2. ASSUME NEW r \in Procs, NEW s \in Procs, Accesses(r), phase[r] = "start",
             BeingStopped(s)
      PROVE  FALSE
  <2>1. PICK t \in Threads : step[t] # "idle" /\ target[t] = s
    BY <1>2 DEF BeingStopped
  <2>2. t \in Procs
    BY <1>2, <2>1 DEF StartOK, Threads
  <2>3. t = r
    BY <1>2, <2>1, <2>2, StoppersStart DEF StartOK
  <2> QED
    BY <1>1, <1>2, <2>1, <2>3
<1>3. ASSUME BeingStopped(p), BeingStopped(q) PROVE p = q
  BY <1>3, OneStopper DEF BeingStopped
<1> QED
  BY <1>1, <1>2, <1>3 DEF StartOK

\* No command is taken, and none launched, while a process waits for equipment.
LEMMA NobodyStarts ==
    ASSUME Paced, GeneralInv, OrderOK, NEW p \in Procs,
           CommandStart(p) \/ StartStops(p) \/ StartLaunches(p) \/ CommandStop(p)
    PROVE  /\ \A q \in Procs : phase[q] # "start"
           /\ \A t \in Threads : step[t] = "idle"
<1>1. \A q \in Procs : phase[q] # "start"
  <2>1. CASE CommandStart(p) \/ CommandStop(p)
    <3>1. \A q \in Procs : pc[q] \in {"idle", "loop"}
      BY <2>1 DEF CommandStart, CommandStop, TakesCommand, Settled
    <3> QED
      BY <3>1 DEF GeneralInv, PlaceOK, Looping
  <2>2. CASE StartStops(p) \/ StartLaunches(p)
    <3>1. command # None
      BY <2>2, NamesDiffer DEF StartStops, StartLaunches
    <3> QED
      BY <3>1 DEF OrderOK, StartOK
  <2> QED
    BY <2>1, <2>2
<1>2. step[Main] = "idle"
  BY DEF CommandStart, CommandStop, TakesCommand, StartStops, StartLaunches,
     Proc!StopCheck, Proc!CanCall, Proc!Start
<1> QED
  BY <1>1, <1>2, StoppersStart DEF Threads

\* So whoever calls stop() is alone with it.
LEMMA LoneStopper ==
    ASSUME GeneralInv, StartOK, NEW t \in Threads, NEW q \in Procs, PP!StopCheck(t, q),
           t = Main => \A p \in Procs : phase[p] # "start"
    PROVE  \A u \in Threads : step[u] = "idle"
<1>1. step[t] = "idle" /\ (t # Main => phase[t] = "start")
  BY DEF PP!StopCheck, PP!CanCall
<1>2. CASE t = Main
  BY <1>1, <1>2, StoppersStart DEF Threads
<1>3. CASE t \in Procs
  <2>1. step[Main] = "idle"
    BY <1>1, <1>3, NamesDiffer DEF StartOK
  <2>2. \A u \in Procs : step[u] # "idle" => u = t
    BY <1>1, <1>3, NamesDiffer, StoppersStart DEF StartOK
  <2> QED
    BY <1>1, <2>1, <2>2 DEF Threads
<1> QED
  BY <1>2, <1>3 DEF Threads

\* What the commands and the ends of stop() do to the order of the processes
LEMMA OrderStop ==
    ASSUME GeneralInv, OrderOK, NEW t \in Threads, PP!StopStep(t), command' = command,
           undefined' = undefined
    PROVE  OrderOK'
<1> USE NamesDiffer
    DEF OrderOK, Threads, GeneralInv, PP!HandleInv, PP!TypeOK, PP!Threads
<1> DEFINE q == target[t]
<1>1. q \in Procs /\ step[t] # "idle"
  BY DEF PP!StopStep, PP!StopRequest, PP!StopNotify, PP!StopJoin, PP!StopJoined,
     PP!StopClear, PP!TargetOK
<1>2. q # t /\ \A u \in Threads : step[u] # "idle" => u = t
  BY <1>1, OneStopper
<1>3. phase[q] # "start"
  BY <1>1, <1>2, StoppersStart DEF StartOK
<1>4. CASE PP!StopRequest(t)
  BY <1>1, <1>2, <1>3, <1>4 DEF PP!StopRequest, PP!Goto, StartOK, CommandOK, LoopOK,
     BeingStopped, PP!StopperOK
<1>5. CASE PP!StopNotify(t)
  BY <1>1, <1>2, <1>3, <1>5 DEF PP!StopNotify, PP!Goto, StartOK, CommandOK, LoopOK,
     BeingStopped, PP!StopperOK, Looping
<1>6. CASE PP!StopJoin(t)
  <2>1. ~PP!JoinThrows(t, q)
    BY <1>1, <1>2, <1>6 DEF PP!StopJoin, PP!JoinThrows, PP!BeingJoined, PP!StopperOK
  <2> QED
    BY <1>1, <1>2, <1>3, <1>6, <2>1 DEF PP!StopJoin, PP!Goto, StartOK, CommandOK, LoopOK,
       BeingStopped, PP!StopperOK
<1>7. CASE PP!StopJoined(t)
  <2>1. phase[q] = "idle"
    BY <1>1, <1>7 DEF PP!StopJoined, PP!AliveOK
  <2> QED
    BY <1>1, <1>2, <1>3, <1>7, <2>1 DEF PP!StopJoined, PP!Goto, StartOK, CommandOK,
       LoopOK, BeingStopped, PP!StopperOK, Looping
<1>8. CASE PP!StopClear(t)
  BY <1>1, <1>2, <1>3, <1>8 DEF PP!StopClear, PP!Goto, StartOK, CommandOK, LoopOK,
     BeingStopped, PP!StopperOK
<1> QED
  BY <1>4, <1>5, <1>6, <1>7, <1>8 DEF PP!StopStep

\* A step of run() in the order of the module: no loop ends by itself.
RunsOn(p) ==
    \/ PP!EnterLoop(p) \/ PP!TestStop(p) \/ PP!Sleep(p) \/ PP!Timeout(p)
    \/ PP!WakeTest(p) \/ PP!SpuriousWake(p) \/ PP!RunReturn(p)

\* Neither does a step of run() change that order, whoever makes it.
LEMMA OrderRun ==
    ASSUME GeneralInv, OrderOK, NEW p \in Procs, RunsOn(p), command' = command,
           undefined' = undefined
    PROVE  OrderOK'
<1> USE NamesDiffer
    DEF OrderOK, Threads, GeneralInv, PP!HandleInv, PP!TypeOK, PP!Threads
<1>1. /\ UNCHANGED <<running, stopRequested, step, target, terminated>>
      /\ \E to \in {"test", "work", "waiting", "woken", "leaving", "idle"} :
           /\ phase' = [phase EXCEPT ![p] = to]
           /\ to = "leaving" => stopRequested[p]
           /\ phase[p] \in Looping \/ to \in {"test", "idle"}
           /\ phase[p] \notin {"idle"}
      /\ phase[p] \in Looping \cup {"start"}
      /\ handle' = handle \/ handle' = [handle EXCEPT ![p] = "finished"]
  BY DEF RunsOn, Looping, PP!EnterLoop, PP!TestStop, PP!Sleep, PP!Timeout, PP!WakeTest,
     PP!SpuriousWake, PP!RunReturn, PP!Moves
<1>2. StartOK' /\ CommandOK'
  BY <1>1 DEF StartOK, CommandOK
<1>4. PP!StopperOK'
  BY <1>1 DEF PP!StopperOK, PP!TargetOK
<1>3. LoopOK'
  BY <1>1 DEF StartOK, LoopOK, BeingStopped, Looping
<1> QED
  BY <1>1, <1>2, <1>3, <1>4

\* Nor any other step, while commands are paced and the search in its range.
LEMMA OrderStep ==
    ASSUME Paced, GeneralInv, OrderOK, PositionInRange, [Next]_vars
    PROVE  OrderOK'
<1> USE NamesDiffer
    DEF OrderOK, Threads, GeneralInv, PP!HandleInv, PP!TypeOK, PP!Threads
<1>1. ~Race /\ \A p \in Procs : ~GetUsageOutOfRange(p)
  BY OrderedAccesses DEF Race, NoListRace, GetUsageOutOfRange
<1>2. undefined' = undefined
  BY <1>1 DEF Next, Commanding, Acquiring, Using, CommandStart, StartStops,
     StartLaunches, CommandStop, GetArg, GetUsage, Relinguish, Relinguished, AddUsage,
     SwitchPower, Turn, LoopStep, SpuriousWake, SwitchOff, ReleaseUsage, SharerReturns,
     StopStep, Gone, vars, locals
<1>3. \/ command' = command
      \/ \E p \in Procs : CommandStart(p) \/ StartLaunches(p)
  BY <1>1 DEF Next, Commanding, Acquiring, Using, StartStops,
     CommandStop, GetArg, GetUsage, Relinguish, Relinguished, AddUsage,
     SwitchPower, Turn, LoopStep, SpuriousWake, SwitchOff, ReleaseUsage, SharerReturns,
     StopStep, Gone, vars, locals
<1>4. ASSUME UNCHANGED pvars, command' = command PROVE OrderOK'
  BY <1>2, <1>4 DEF pvars, StartOK, CommandOK, LoopOK, BeingStopped, PP!StopperOK
<1>5. ASSUME NEW p \in Procs, CommandStart(p) PROVE OrderOK'
  <2>1. \A q \in Procs : phase[q] # "start"
    BY <1>5, NobodyStarts
  <2>2. UNCHANGED pvars /\ step[Main] = "idle"
    BY <1>5 DEF CommandStart, TakesCommand
  <2> QED
    BY <1>2, <2>1, <2>2 DEF pvars, StartOK, CommandOK, LoopOK, BeingStopped, PP!StopperOK
<1>6. ASSUME NEW p \in Procs, StartLaunches(p), PP!Start(p) PROVE OrderOK'
  <2>1. \A q \in Procs : phase[q] # "start"
    BY <1>6, NobodyStarts
  <2>2. handle[p] = "none"
    BY <1>6 DEF PP!Start, PP!RunningCoversHandle
  <2>3. command' = None
    BY <1>6 DEF StartLaunches
  <2> QED
    BY <1>2, <1>6, <2>1, <2>2, <2>3 DEF PP!Start, StartOK, CommandOK, LoopOK,
       BeingStopped, PP!StopperOK, Looping
<1>7. ASSUME NEW p \in Procs, StartStops(p) \/ CommandStop(p), PP!StopCheck(Main, p)
      PROVE OrderOK'
  <2>1. \A q \in Procs : phase[q] # "start"
    BY <1>7, NobodyStarts
  <2>2. \A u \in Threads : step[u] = "idle"
    BY <1>7, <2>1, LoneStopper
  <2>3. command' = command /\ command \in {p, None}
    BY <1>7 DEF StartStops, CommandStop, TakesCommand, locals
  <2>4. running[p] /\ handle[p] # "none"
    BY <1>7, <2>2 DEF PP!StopCheck, PP!RunningCoversHandle, PP!Clearing
  <2> QED
    BY <1>2, <1>7, <2>1, <2>2, <2>3, <2>4 DEF PP!StopCheck, PP!Goto, StartOK, CommandOK,
       LoopOK, BeingStopped, PP!StopperOK
<1>8. ASSUME NEW p \in Procs, NEW q \in Procs, Relinguish(p), PP!StopCheck(p, q)
      PROVE OrderOK'
  <2>1. \A u \in Threads : step[u] = "idle"
    BY <1>8, LoneStopper
  <2>2. running[q] /\ handle[q] # "none"
    BY <1>8, <2>1 DEF PP!StopCheck, PP!RunningCoversHandle, PP!Clearing
  <2>3. command' = command
    BY <1>8 DEF Relinguish, locals
  <2> QED
    BY <1>2, <1>8, <2>1, <2>2, <2>3 DEF PP!StopCheck, PP!Goto, StartOK, CommandOK,
       LoopOK, BeingStopped, PP!StopperOK
<1>9. ASSUME NEW t \in Threads, StopStep(t), PP!StopStep(t) PROVE OrderOK'
  BY <1>2, <1>9, OrderStop DEF StopStep, locals
<1>10. ASSUME NEW p \in Procs,
              \/ AddUsage(p) \/ Turn(p) \/ LoopStep(p) \/ SpuriousWake(p)
              \/ ReleaseUsage(p) \/ SharerReturns(p)
       PROVE OrderOK'
  <2>1. command' = command
    BY <1>10 DEF AddUsage, Turn, LoopStep, SpuriousWake, ReleaseUsage, SharerReturns, locals
  <2>2. UNCHANGED pvars \/ RunsOn(p)
    BY <1>10, SameRuns DEF AddUsage, Turn, LoopStep, SpuriousWake, ReleaseUsage,
       SharerReturns, RunsOn
  <2> QED
    BY <1>2, <1>4, <2>1, <2>2, OrderRun
<1>11. ASSUME UNCHANGED pvars PROVE OrderOK'
  <2>1. ASSUME NEW p \in Procs, StartLaunches(p) PROVE FALSE
    BY <1>11, <2>1, SameRuns DEF StartLaunches, PP!Start, pvars
  <2> QED
    BY <1>3, <1>4, <1>5, <1>11, <2>1
<1> QED
  BY <1>6, <1>7, <1>8, <1>9, <1>10, <1>11, ProcessSteps

\* One process asks for equipment at a time; the others are not in its code.
LEMMA OneAsker ==
    ASSUME GeneralInv, StartOK, NEW p \in Procs, pc[p] \in Asking
    PROVE  phase[p] = "start" /\ \A q \in Procs : pc[q] \in Asking => q = p
BY DEF GeneralInv, PlaceOK, StartOK

\* relinguish turns to the process it found in its way, and waits for its end.
LEMMA RelinguishStep ==
    ASSUME Paced, GeneralInv, OrderOK, RelinguishOK, ScanOK, [Next]_vars
    PROVE  RelinguishOK'
<1> USE NamesDiffer
    DEF OrderOK, Threads, GeneralInv, ModuleTypeOK, PP!HandleInv, PP!TypeOK, PP!Threads
<1> DEFINE Nobody == \A p \in Procs : pc[p] # "stopping"
<1>1. CASE UNCHANGED vars \/ Gone \/ Race
  BY <1>1 DEF vars, pvars, usage, locals, Gone, Race, RelinguishOK
<1>2. ASSUME NEW p \in Procs, CommandStart(p) \/ StartStops(p) \/ CommandStop(p)
      PROVE RelinguishOK'
  <2>1. Nobody
    BY <1>2, NobodyStarts DEF PlaceOK, Asking
  <2>2. UNCHANGED <<pc, relinguishingEquip>>
    BY <1>2 DEF CommandStart, StartStops, CommandStop, usage
  <2> QED
    BY <2>1, <2>2 DEF RelinguishOK
<1>3. ASSUME NEW p \in Procs,
             \/ StartLaunches(p) \/ GetArg(p) \/ GetUsage(p) \/ AddUsage(p) \/ SwitchPower(p)
      PROVE RelinguishOK'
  <2>1. Nobody
    <3>1. CASE StartLaunches(p)
      BY <3>1, NobodyStarts DEF PlaceOK, Asking
    <3>2. CASE ~StartLaunches(p)
      <4>1. pc[p] \in Asking \ {"stopping"}
        BY <1>3, <3>2 DEF GetArg, GetUsage, AddUsage, SwitchPower, Runs, Asking
      <4> QED
        BY <4>1, OneAsker DEF Asking
    <3> QED
      BY <3>1, <3>2
  <2>2. relinguishingEquip' = relinguishingEquip /\ \A q \in Procs : pc'[q] # "stopping"
    BY <1>3, <2>1 DEF StartLaunches, GetArg, GetUsage, AddUsage, SwitchPower, Becomes, usage
  <2> QED
    BY <2>1, <2>2 DEF RelinguishOK
<1>4. ASSUME NEW p \in Procs, Relinguish(p) PROVE RelinguishOK'
  <2>1. pc[p] = "relinguish" /\ pc' = [pc EXCEPT ![p] = "stopping"] /\ holding' = holding
        /\ relinguishingEquip' = holding[p]
    BY <1>4 DEF Relinguish, Runs, Becomes, locals
  <2>2. \A r \in Procs : pc'[r] = "stopping" => r = p
    BY <2>1, OneAsker DEF Asking
  <2>3. PICK q \in Procs \ {p} : holding[p] = Usage(q)
    BY <2>1 DEF HoldingOK
  <2>4. P(holding[p]) = q
    BY <2>3 DEF P, Usage, PE
  <2>5. Listed(holding[p])
    BY <2>1 DEF ScanOK, Listed
  <2>6. step'[p] = "idle" => phase'[q] = "idle"
    <3>1. CASE running[q]
      BY <1>4, <2>4, <2>5, <3>1 DEF Relinguish, StopHolder, Proc!StopCheck, Proc!Goto
    <3>2. CASE ~running[q]
      <4>1. phase[q] = "idle"
        BY <3>2 DEF PP!RunningCoversHandle, PP!AliveOK
      <4>2. UNCHANGED pvars
        BY <1>4, <2>4, <3>2 DEF Relinguish, StopHolder
      <4> QED
        BY <4>1, <4>2 DEF pvars
    <3> QED
      BY <3>1, <3>2
  <2>7. \A r \in Procs : holding[p] = Usage(r) => r = q
    BY <2>3 DEF Usage, PE
  <2> QED
    BY <2>1, <2>2, <2>6, <2>7 DEF RelinguishOK
<1>5. ASSUME NEW p \in Procs, Relinguished(p) PROVE RelinguishOK'
  <2>1. pc[p] = "stopping" /\ pc' = [pc EXCEPT ![p] = "scan"] /\ relinguishingEquip' = NoUsage
    BY <1>5 DEF Relinguished, Runs, Becomes
  <2>2. \A r \in Procs : pc'[r] # "stopping"
    BY <2>1, OneAsker DEF Asking
  <2> QED
    BY <2>1, <2>2 DEF RelinguishOK
<1>6. ASSUME NEW p \in Procs, SwitchOff(p) PROVE RelinguishOK'
  <2>1. pc[p] = "loop" /\ pc' = [pc EXCEPT ![p] = "release"]
        /\ UNCHANGED <<relinguishingEquip, holding, phase, step>>
    BY <1>6 DEF SwitchOff, Runs, Becomes, pvars, usage, locals
  <2> QED
    BY <2>1 DEF RelinguishOK
<1>7. ASSUME NEW p \in Procs, Turn(p) \/ LoopStep(p) \/ SpuriousWake(p) PROVE RelinguishOK'
  <2>1. UNCHANGED <<relinguishingEquip, holding, pc, step>> /\ phase[p] # "idle"
        /\ \A q \in Procs : phase[q] = "idle" => phase'[q] = "idle"
    BY <1>7, SameRuns DEF Turn, LoopStep, SpuriousWake, PP!Sleep, PP!TestStop,
       PP!Timeout, PP!WakeTest, PP!SpuriousWake, PP!Moves, usage, locals
  <2> QED
    BY <2>1 DEF RelinguishOK
<1>8. ASSUME NEW p \in Procs, ReleaseUsage(p) \/ SharerReturns(p) PROVE RelinguishOK'
  <2>1. /\ pc[p] # "stopping" /\ pc' = [pc EXCEPT ![p] = "idle"]
        /\ UNCHANGED <<relinguishingEquip, holding, step>>
        /\ phase' = [phase EXCEPT ![p] = "idle"]
    BY <1>8, SameRuns DEF ReleaseUsage, SharerReturns, Runs, Becomes, PP!RunReturn,
       PP!Moves, usage, locals
  <2> QED
    BY <2>1 DEF RelinguishOK
<1>9. ASSUME NEW t \in Threads, StopStep(t), PP!StopStep(t) PROVE RelinguishOK'
  <2>1. UNCHANGED <<relinguishingEquip, holding, pc>>
    BY <1>9 DEF StopStep, usage, locals
  <2>2. \A q \in Procs : phase[q] = "idle" => phase'[q] = "idle"
    BY <1>9 DEF PP!StopStep, PP!StopRequest, PP!StopNotify, PP!StopJoin, PP!StopJoined,
       PP!StopClear, PP!TargetOK
  <2>3. ASSUME NEW p \in Procs, pc[p] = "stopping", step'[p] = "idle", step[p] # "idle",
               NEW q \in Procs, holding[p] = Usage(q)
        PROVE  phase'[q] = "idle"
    <3>1. PP!StopClear(p)
      BY <1>9, <2>3 DEF PP!StopStep, PP!StopRequest, PP!StopNotify, PP!StopJoin,
         PP!StopJoined, PP!StopClear, PP!Goto
    <3>2. target[p] = q
      BY <2>3 DEF HoldingOK, P, Usage, PE
    <3>3. phase[q] = "idle"
      BY <3>1, <3>2 DEF PP!StopClear, PP!JoinerOK, PP!AliveOK
    <3> QED
      BY <2>2, <3>3
  <2> QED
    BY <2>1, <2>2, <2>3 DEF RelinguishOK
<1> QED
  BY <1>1, <1>2, <1>3, <1>4, <1>5, <1>6, <1>7, <1>8, <1>9, SameStops
     DEF Next, Commanding, Acquiring, Using, GetUsageOutOfRange, ScanOK,
         StopStep, Proc!StopStep, PP!StopStep

\* A usage says which process it is of.
LEMMA UsageNames == \A p, q \in Procs : Usage(p) = Usage(q) => p = q
BY DEF Usage, PE

\* relinguishingEquip tells nobody's usage from a process's.
LEMMA NoUsageOfNobody == \A p \in Procs : Usage(p) # NoUsage
BY NamesDiffer DEF Usage, NoUsage, PE

\* A process that asks, and has not turned to another, relinquishes nothing.
LEMMA NothingRelinquished ==
    ASSUME GeneralInv, StartOK, RelinguishOK, NEW p \in Procs, pc[p] \in Asking \ {"stopping"}
    PROVE  relinguishingEquip = NoUsage
BY OneAsker DEF RelinguishOK, Asking

\* The list says who has the equipment, save for the process that is being made
\* to give it up, whose entry is gone already.
LEMMA ListStep ==
    ASSUME Paced, GeneralInv, OrderOK, RelinguishOK, ScanOK, ListOK, [Next]_vars
    PROVE  ListOK'
<1> USE NamesDiffer DEF OrderOK, Threads, GeneralInv, ModuleTypeOK
<1>0. /\ Unique(usedList)
      /\ \A p \in Procs : Listed(Usage(p)) <=> Has(usedList, Usage(p))
  BY DEF ListOK, Unique, Listed, Has
<1>a. ASSUME Unique(usedList'),
             \A p \in Procs :
               /\ Holds(p)' => Has(usedList', Usage(p)) \/ relinguishingEquip' = Usage(p)
               /\ p \in Exclusive /\ ~Holds(p)' => ~Has(usedList', Usage(p))
               /\ relinguishingEquip' = Usage(p) => ~Has(usedList', Usage(p))
      PROVE  ListOK'
  BY <1>a DEF ListOK, Unique, Listed, Has
<1>1. ASSUME UNCHANGED <<usedList, relinguishingEquip>>,
             \A p \in Procs : Holds(p)' <=> Holds(p)
      PROVE  ListOK'
  BY <1>0, <1>1, <1>a DEF ListOK
<1>2. CASE UNCHANGED vars \/ Gone \/ Race
  BY <1>1, <1>2 DEF vars, usage, Gone, Race, Holds
<1>3. ASSUME NEW p \in Procs,
             \/ CommandStart(p) \/ StartStops(p) \/ CommandStop(p) \/ Turn(p)
             \/ LoopStep(p) \/ SpuriousWake(p)
      PROVE  ListOK'
  BY <1>1, <1>3 DEF CommandStart, StartStops, CommandStop, Turn, LoopStep, SpuriousWake,
     usage, locals, Holds
<1>4. ASSUME NEW t \in Threads, StopStep(t) PROVE ListOK'
  BY <1>1, <1>4 DEF StopStep, usage, Holds
<1>5. ASSUME NEW p \in Procs, StartLaunches(p) PROVE ListOK'
  <2>1. ~Holds(p)
    BY <1>5, NobodyStarts, SameRuns DEF StartLaunches, PP!Start, PlaceOK, Holds, Asking, Looping,
       PP!HandleInv, PP!AliveOK, PP!RunningCoversHandle
  <2>2. \A q \in Procs : Holds(q)' <=> Holds(q)
    BY <1>5, <2>1 DEF StartLaunches, Holds
  <2> QED
    BY <1>1, <1>5, <2>2 DEF StartLaunches, usage
<1>6. ASSUME NEW p \in Procs, GetArg(p) \/ GetUsage(p) \/ SwitchPower(p) \/ SwitchOff(p)
      PROVE  ListOK'
  <2>1. \A q \in Procs : Holds(q)' <=> Holds(q)
    BY <1>6 DEF GetArg, GetUsage, SwitchPower, SwitchOff, Becomes, Runs, Holds
  <2> QED
    BY <1>1, <1>6, <2>1 DEF GetArg, GetUsage, SwitchPower, SwitchOff, usage
<1>7. ASSUME NEW p \in Procs, Relinguish(p) PROVE ListOK'
  <2>1. pc[p] = "relinguish" /\ pc' = [pc EXCEPT ![p] = "stopping"]
    BY <1>7 DEF Relinguish, Runs, Becomes
  <2>2. PICK r \in Procs : holding[p] = Usage(r)
    BY <2>1 DEF HoldingOK
  <2>3. usedList' = Without(usedList, Usage(r)) /\ relinguishingEquip' = Usage(r)
    BY <1>7, <2>2 DEF Relinguish, Erase, Without
  <2>4. relinguishingEquip = NoUsage
    BY <2>1, NothingRelinquished DEF Asking
  <2>5. \A q \in Procs : Holds(q)' <=> Holds(q)
    BY <2>1 DEF Holds
  <2>6. /\ Unique(usedList') /\ ~Has(usedList', Usage(r))
        /\ \A q \in Procs : q # r => (Has(usedList', Usage(q)) <=> Has(usedList, Usage(q)))
    BY <1>0, <2>3, ErasedIds, UsageNames
  <2> QED
    BY <1>0, <1>a, <2>3, <2>4, <2>5, <2>6, UsageNames, NoUsageOfNobody DEF ListOK
<1>8. ASSUME NEW p \in Procs, Relinguished(p) PROVE ListOK'
  <2>1. /\ pc[p] = "stopping" /\ pc' = [pc EXCEPT ![p] = "scan"] /\ step[p] = "idle"
        /\ usedList' = usedList /\ relinguishingEquip' = NoUsage
    BY <1>8 DEF Relinguished, Runs, Becomes
  <2>2. PICK r \in Procs : holding[p] = Usage(r)
    BY <2>1 DEF HoldingOK
  <2>3. phase[r] = "idle" /\ relinguishingEquip = Usage(r)
    BY <2>1, <2>2 DEF RelinguishOK
  <2>4. ~Holds(r)
    BY <2>3 DEF Holds, PlaceOK, Asking, Looping
  <2>5. \A q \in Procs : Holds(q)' <=> Holds(q)
    BY <2>1 DEF Holds
  <2> QED
    BY <1>0, <1>a, <2>1, <2>3, <2>4, <2>5, UsageNames, NoUsageOfNobody DEF ListOK
<1>9. ASSUME NEW p \in Procs, AddUsage(p) PROVE ListOK'
  <2>1. /\ pc[p] = "add"
        /\ pc' = [pc EXCEPT ![p] = "set"] \/ pc' = [pc EXCEPT ![p] = "loop"]
        /\ usedList' = WithUsage(p) /\ relinguishingEquip' = relinguishingEquip
    BY <1>9 DEF AddUsage, Runs, Becomes
  <2>2. relinguishingEquip = NoUsage
    BY <2>1, NothingRelinquished DEF Asking
  <2>3. Holds(p)' /\ \A q \in Procs : q # p => (Holds(q)' <=> Holds(q))
    BY <2>1 DEF Holds
  <2>4. /\ Unique(usedList') /\ Has(usedList', Usage(p))
        /\ \A q \in Procs : q # p => (Has(usedList', Usage(q)) <=> Has(usedList, Usage(q)))
    BY <1>0, <2>1, AddedIds, UsageNames
  <2> QED
    BY <1>0, <1>a, <2>1, <2>2, <2>3, <2>4, NoUsageOfNobody DEF ListOK
<1>10. ASSUME NEW p \in Procs, ReleaseUsage(p) PROVE ListOK'
  <2>1. /\ pc[p] = "release" /\ pc' = [pc EXCEPT ![p] = "idle"]
        /\ relinguishingEquip' = relinguishingEquip
    BY <1>10 DEF ReleaseUsage, Runs, Becomes
  <2>3. ~Holds(p)' /\ \A q \in Procs : q # p => (Holds(q)' <=> Holds(q))
    BY <2>1 DEF Holds
  <2>4. CASE relinguishingEquip = Usage(p)
    <3>1. usedList' = usedList
      BY <1>10, <2>4 DEF ReleaseUsage
    <3> QED
      BY <1>0, <1>a, <2>1, <2>3, <2>4, <3>1 DEF ListOK
  <2>5. CASE relinguishingEquip # Usage(p)
    <3>1. usedList' = Without(usedList, Usage(p))
      BY <1>10, <2>5 DEF ReleaseUsage, Erase, Without
    <3>2. /\ Unique(usedList') /\ ~Has(usedList', Usage(p))
          /\ \A q \in Procs : q # p => (Has(usedList', Usage(q)) <=> Has(usedList, Usage(q)))
      BY <1>0, <3>1, ErasedIds, UsageNames
    <3> QED
      BY <1>0, <1>a, <2>1, <2>3, <2>5, <3>2 DEF ListOK
  <2> QED
    BY <2>4, <2>5
<1>11. ASSUME NEW p \in Procs, SharerReturns(p) PROVE ListOK'
  <2>1. /\ pc' = [pc EXCEPT ![p] = "idle"] /\ p \notin Exclusive
        /\ UNCHANGED <<usedList, relinguishingEquip>>
    BY <1>11, ClassesDiffer DEF SharerReturns, Becomes, usage, Exclusive
  <2>2. ~Holds(p)' /\ \A q \in Procs : q # p => (Holds(q)' <=> Holds(q))
    BY <2>1 DEF Holds
  <2> QED
    BY <1>0, <1>a, <2>1, <2>2 DEF ListOK
<1> QED
  BY <1>2, <1>3, <1>4, <1>5, <1>6, <1>7, <1>8, <1>9, <1>10, <1>11
     DEF Next, Commanding, Acquiring, Using, GetUsageOutOfRange, ScanOK

\* releaseUsage erases an entry only while nobody searches the list: a stop()
\* that waits for the process has its usage in relinguishingEquip.
LEMMA EraserAlone ==
    ASSUME GeneralInv, OrderOK, RelinguishOK, NEW p \in Procs, pc[p] = "release",
           step[p] = "idle", relinguishingEquip # Usage(p)
    PROVE  \A q \in Procs : phase[q] = "start" => q = p
<1> USE NamesDiffer DEF GeneralInv, OrderOK
<1>1. CASE phase[p] = "start"
  BY <1>1 DEF StartOK
<1>2. CASE phase[p] = "leaving"
  <2>1. PICK t \in Threads : step[t] # "idle" /\ target[t] = p
    BY <1>2 DEF LoopOK, Looping, BeingStopped
  <2>2. ASSUME NEW q \in Procs, phase[q] = "start" PROVE FALSE
    <3>1. t = q
      BY <2>1, <2>2, StoppersStart DEF StartOK, Threads
    <3>2. pc[q] = "stopping" /\ P(holding[q]) = p
      BY <2>1, <3>1 DEF HoldingOK
    <3>3. PICK r \in Procs : holding[q] = Usage(r)
      BY <3>2 DEF HoldingOK
    <3>4. r = p
      BY <3>2, <3>3 DEF P, Usage, PE
    <3> QED
      BY <3>2, <3>3, <3>4 DEF RelinguishOK
  <2> QED
    BY <2>2
<1> QED
  BY <1>1, <1>2 DEF PlaceOK

\* The place of the search agrees with what it has passed, whatever the stopped
\* processes do to the list in the meantime.
LEMMA ScanStep ==
    ASSUME Paced, GeneralInv, OrderOK, RelinguishOK, ListOK, ScanOK, [Next]_vars
    PROVE  ScanOK'
<1> USE NamesDiffer DEF OrderOK, Threads, GeneralInv, ModuleTypeOK
<1> DEFINE Searching == {"scan", "relinguish", "stopping"}
<1>0. Len(usedList) \in Nat
  BY LenProperties
<1>1. ASSUME UNCHANGED <<usedList, itrPosition, holding>>,
             \A p \in Procs : pc'[p] \in Searching \cup {"add"} => pc'[p] = pc[p],
             \A p \in Procs : pc[p] \in Searching => pc'[p] = pc[p]
      PROVE  ScanOK'
  BY <1>1 DEF ScanOK, Passed, InTheWay, PositionInRange
<1>2. CASE UNCHANGED vars \/ Gone \/ Race
  BY <1>1, <1>2, OrderedAccesses DEF vars, usage, locals, Gone, Race, NoListRace
<1>3. ASSUME NEW p \in Procs,
             \/ CommandStart(p) \/ StartStops(p) \/ CommandStop(p) \/ Turn(p)
             \/ LoopStep(p) \/ SpuriousWake(p)
      PROVE  ScanOK'
  BY <1>1, <1>3 DEF CommandStart, StartStops, CommandStop, Turn, LoopStep, SpuriousWake,
     usage, locals
<1>4. ASSUME NEW t \in Threads, StopStep(t) PROVE ScanOK'
  BY <1>1, <1>4 DEF StopStep, usage, locals
<1>5. ASSUME NEW p \in Procs, SwitchPower(p) \/ SwitchOff(p) \/ SharerReturns(p)
      PROVE  ScanOK'
  <2>1. /\ pc[p] \in {"set", "loop"}
        /\ pc' = [pc EXCEPT ![p] = "release"] \/ pc' = [pc EXCEPT ![p] = "idle"]
        /\ UNCHANGED <<usedList, itrPosition, holding>>
    BY <1>5 DEF SwitchPower, SwitchOff, SharerReturns, Runs, Becomes, usage, locals
  <2> QED
    BY <1>1, <2>1
<1>6. ASSUME NEW p \in Procs, StartLaunches(p) \/ GetArg(p) PROVE ScanOK'
  <2>1. \A q \in Procs : pc[q] \notin Searching \cup {"add"}
    <3>1. CASE StartLaunches(p)
      BY <3>1, NobodyStarts DEF PlaceOK, Asking
    <3>2. CASE GetArg(p)
      <4>1. pc[p] = "arg"
        BY <3>2 DEF GetArg, Runs
      <4> QED
        BY <4>1, OneAsker DEF Asking
    <3> QED
      BY <1>6, <3>1, <3>2
  <2>2. usedList = <<>> \/ itrPosition = 0
    BY <2>1 DEF ScanOK
  <2>3. /\ UNCHANGED <<usedList, itrPosition>>
        /\ \A q \in Procs : pc'[q] \in Searching \cup {"add"} => pc'[q] = "scan"
    BY <1>6, <2>1 DEF StartLaunches, GetArg, Becomes, usage
  <2>4. \A q \in Procs : itrPosition = 0 => Passed(q, itrPosition)
    BY <1>0 DEF Passed
  <2>5. \A q \in Procs : itrPosition = 0 => Passed(q, itrPosition)'
    BY <2>3, <2>4 DEF Passed, InTheWay
  <2> QED
    BY <2>2, <2>3, <2>5 DEF ScanOK, PositionInRange
<1>7. ASSUME NEW p \in Procs, GetUsage(p) PROVE ScanOK'
  <2> DEFINE i == IF usedList = <<>> THEN 0 ELSE NextUsage(Uses[p])
  <2>1. /\ pc[p] = "scan" /\ usedList' = usedList /\ itrPosition' = i
        /\ \/ i = 0 /\ pc' = [pc EXCEPT ![p] = "add"]
           \/ i > 0 /\ ~InTheWay(p, usedList[i]) /\ pc' = pc
           \/ /\ i > 0 /\ pc' = [pc EXCEPT ![p] = "relinguish"]
              /\ holding' = [holding EXCEPT ![p] = usedList[i].usageID]
    BY <1>7 DEF GetUsage, Runs, Becomes
  <2>2. usedList # <<>> => itrPosition \in 0..Len(usedList) /\ Passed(p, itrPosition)
    BY <2>1 DEF ScanOK, PositionInRange
  <2>3. /\ i \in 0..Len(usedList)
        /\ i = 0 => Passed(p, Len(usedList))
        /\ i > 0 => i \in 1..Len(usedList) /\ Passed(p, i - 1)
    <3>1. CASE usedList = <<>>
      BY <3>1, EmptySeq DEF Passed
    <3>2. CASE usedList # <<>>
      <4>0. i = NextUsage(Uses[p]) /\ itrPosition \in 0..Len(usedList) /\ Passed(p, itrPosition)
        BY <2>2, <3>2
      <4> HIDE DEF i
      <4>1. CASE /\ i = 0
                 /\ \A j \in (itrPosition + 1)..Len(usedList) : E(usedList[j].usageID) # Uses[p]
        BY <1>0, <4>0, <4>1 DEF Passed
      <4>2. CASE /\ i \in (itrPosition + 1)..Len(usedList)
                 /\ \A j \in (itrPosition + 1)..(i - 1) : E(usedList[j].usageID) # Uses[p]
        BY <1>0, <4>0, <4>2 DEF Passed
      <4> QED
        BY <4>0, <4>1, <4>2, NextUsageFinds
    <3> QED
      BY <3>1, <3>2
  <2> HIDE DEF i
  <2>4. \A q \in Procs : pc[q] \in Asking => q = p
    BY <2>1, OneAsker DEF Asking
  <2>5. \A n \in Int : Passed(p, n)' <=> Passed(p, n)
    BY <2>1 DEF Passed, InTheWay
  <2>6. i > 0 /\ ~InTheWay(p, usedList[i]) => Passed(p, i)
    BY <1>0, <2>3 DEF Passed
  <2>7. PositionInRange'
    BY <2>1, <2>3 DEF PositionInRange
  <2>8. \A q \in Procs : q # p => pc'[q] \notin Searching \cup {"add"}
    BY <2>1, <2>4 DEF Asking
  <2>9. CASE i = 0 /\ pc' = [pc EXCEPT ![p] = "add"]
    BY <1>0, <2>1, <2>3, <2>5, <2>7, <2>8, <2>9 DEF ScanOK
  <2>10. CASE i > 0 /\ ~InTheWay(p, usedList[i]) /\ pc' = pc
    BY <1>0, <2>1, <2>3, <2>5, <2>6, <2>7, <2>8, <2>10 DEF ScanOK
  <2>11. CASE /\ i > 0 /\ pc' = [pc EXCEPT ![p] = "relinguish"]
              /\ holding' = [holding EXCEPT ![p] = usedList[i].usageID]
    BY <1>0, <2>1, <2>3, <2>5, <2>7, <2>8, <2>11 DEF ScanOK
  <2> QED
    BY <2>1, <2>9, <2>10, <2>11
<1>8. ASSUME NEW p \in Procs, Relinguish(p) PROVE ScanOK'
  <2>1. /\ pc[p] = "relinguish" /\ pc' = [pc EXCEPT ![p] = "stopping"]
        /\ usedList' = Without(usedList, holding[p])
        /\ itrPosition' = PositionAfter(holding[p])
    BY <1>8 DEF Relinguish, Runs, Becomes, Erase, Without
  <2>2. /\ itrPosition \in 1..Len(usedList) /\ usedList[itrPosition].usageID = holding[p]
        /\ Passed(p, itrPosition - 1)
    BY <2>1 DEF ScanOK
  <2>3. itrPosition' = itrPosition - 1
    BY <2>1, <2>2 DEF PositionAfter, Listed
  <2>4. Has(usedList, holding[p])
    BY <2>2 DEF Has
  <2>a. \E i \in 1..Len(usedList) :
          /\ usedList[i].usageID = holding[p]
          /\ Len(Without(usedList, holding[p])) = Len(usedList) - 1
          /\ \A j \in 1..(Len(usedList) - 1) :
               Without(usedList, holding[p])[j] =
                   IF j < i THEN usedList[j] ELSE usedList[j + 1]
    BY <2>4, ErasedPlaces
  <2>5. PICK i \in 1..Len(usedList) :
          /\ usedList[i].usageID = holding[p]
          /\ Len(usedList') = Len(usedList) - 1
          /\ \A j \in 1..(Len(usedList) - 1) :
               usedList'[j] = IF j < i THEN usedList[j] ELSE usedList[j + 1]
    BY <2>1, <2>a
  <2>6. i = itrPosition
    BY <2>2, <2>5 DEF ListOK
  <2>7. \A j \in 1..Len(usedList') : j <= itrPosition - 1 => usedList'[j] = usedList[j]
    BY <1>0, <2>2, <2>5, <2>6
  <2>9. Passed(p, itrPosition)'
    BY <1>0, <2>2, <2>3, <2>5, <2>7 DEF Passed, InTheWay
  <2>10. PositionInRange'
    BY <1>0, <2>2, <2>3, <2>5 DEF PositionInRange
  <2>11. \A q \in Procs : q # p => pc'[q] \notin Searching \cup {"add"}
    BY <2>1, OneAsker DEF Asking
  <2> QED
    BY <2>1, <2>9, <2>10, <2>11 DEF ScanOK
<1>9. ASSUME NEW p \in Procs, Relinguished(p) PROVE ScanOK'
  <2>1. /\ pc[p] = "stopping" /\ pc' = [pc EXCEPT ![p] = "scan"]
        /\ UNCHANGED <<usedList, itrPosition>>
    BY <1>9 DEF Relinguished, Runs, Becomes
  <2>2. \A q \in Procs : q # p => pc'[q] \notin Searching \cup {"add"}
    BY <2>1, OneAsker DEF Asking
  <2> QED
    BY <2>1, <2>2 DEF ScanOK, Passed, InTheWay, PositionInRange
<1>10. ASSUME NEW p \in Procs, AddUsage(p) PROVE ScanOK'
  <2>1. /\ pc[p] = "add"
        /\ pc' = [pc EXCEPT ![p] = "set"] \/ pc' = [pc EXCEPT ![p] = "loop"]
        /\ usedList' = WithUsage(p) /\ itrPosition' = itrPosition
    BY <1>10 DEF AddUsage, Runs, Becomes
  <2>2. itrPosition' = 0
    BY <2>1 DEF ScanOK
  <2>3. Len(usedList') \in Nat
    BY <2>1, AddedIds, LenProperties
  <2>4. \A q \in Procs : pc'[q] \notin Searching \cup {"add"}
    BY <2>1, OneAsker DEF Asking
  <2> QED
    BY <2>2, <2>3, <2>4 DEF ScanOK, PositionInRange
<1>11. ASSUME NEW p \in Procs, ReleaseUsage(p) PROVE ScanOK'
  <2>1. /\ pc[p] = "release" /\ pc' = [pc EXCEPT ![p] = "idle"] /\ step[p] = "idle"
        /\ UNCHANGED <<itrPosition, holding>>
    BY <1>11 DEF ReleaseUsage, Runs, Becomes, locals
  <2>2. CASE relinguishingEquip = Usage(p)
    BY <1>1, <1>11, <2>1, <2>2 DEF ReleaseUsage
  <2>3. CASE relinguishingEquip # Usage(p)
    <3>1. \A q \in Procs : pc[q] \in Asking => q = p
      BY <2>1, <2>3, EraserAlone DEF PlaceOK
    <3>2. \A q \in Procs : pc[q] \notin Searching \cup {"add"}
      BY <2>1, <3>1 DEF Asking
    <3>3. usedList = <<>> \/ itrPosition = 0
      BY <3>2 DEF ScanOK
    <3>4. usedList' = Without(usedList, Usage(p))
      BY <1>11, <2>3 DEF ReleaseUsage, Erase, Without
    <3>5. Len(usedList') \in Nat /\ (usedList = <<>> => usedList' = <<>>)
      <4>1. usedList = <<>> => ~Has(usedList, Usage(p))
        BY EmptySeq DEF Has
      <4> QED
        BY <3>4, <4>1, ErasedPlaces, LenProperties
    <3> QED
      BY <2>1, <3>2, <3>3, <3>5 DEF ScanOK, PositionInRange
  <2> QED
    BY <2>2, <2>3
<1> QED
  BY <1>2, <1>3, <1>4, <1>5, <1>6, <1>7, <1>8, <1>9, <1>10, <1>11
     DEF Next, Commanding, Acquiring, Using, GetUsageOutOfRange, ScanOK

\* A process that has searched the whole list without meeting anybody in its way
\* is alone, or shares with others that share.
LEMMA NobodyInTheWay ==
    ASSUME GeneralInv, StartOK, RelinguishOK, ListOK, ScanOK, NEW p \in Procs, pc[p] = "add",
           NEW q \in Procs, q # p, Uses[q] = Uses[p], Holds(q)
    PROVE  p \notin Exclusive /\ q \notin Exclusive
<1>1. relinguishingEquip = NoUsage
  BY NothingRelinquished DEF Asking
<1>2. PICK i \in 1..Len(usedList) : usedList[i].usageID = Usage(q)
  BY <1>1, NoUsageOfNobody DEF ListOK, Listed
<1>3. PICK r \in Procs : usedList[i] = Entry(r)
  BY ElementOfSeq DEF GeneralInv, ModuleTypeOK, Entries
<1>4. r = q /\ usedList[i].exclusive = (q \in Exclusive)
  BY <1>2, <1>3, UsageNames DEF Entry
<1>5. ~InTheWay(p, usedList[i])
  <2>1. E(usedList[i].usageID) = Uses[p]
    BY <1>2 DEF E, Usage, PE
  <2>2. i <= Len(usedList)
    BY LenProperties DEF GeneralInv, ModuleTypeOK
  <2> QED
    BY <2>1, <2>2 DEF ScanOK, Passed
<1> QED
  BY <1>2, <1>4, <1>5, UsageNames DEF InTheWay

\* Who holds equipment changes with addUsage, releaseUsage and the return of a
\* run() that shares, and with nothing else.
LEMMA HoldersChange ==
    ASSUME GeneralInv, [Next]_vars
    PROVE  \/ \A p \in Procs : Holds(p)' <=> Holds(p)
           \/ \E p \in Procs :
                /\ AddUsage(p) \/ ReleaseUsage(p) \/ SharerReturns(p)
                /\ \A q \in Procs : q # p => (Holds(q)' <=> Holds(q))
<1> USE DEF GeneralInv, ModuleTypeOK
<1>1. ASSUME pc' = pc PROVE \A p \in Procs : Holds(p)' <=> Holds(p)
  BY <1>1 DEF Holds
<1>2. ASSUME NEW p \in Procs, StartLaunches(p) PROVE \A q \in Procs : Holds(q)' <=> Holds(q)
  <2>1. phase[p] = "idle"
    BY <1>2, SameRuns DEF StartLaunches, PP!Start, PP!HandleInv, PP!AliveOK,
       PP!RunningCoversHandle
  <2>2. ~Holds(p)
    BY <2>1 DEF PlaceOK, Holds, Looping, Asking
  <2> QED
    BY <1>2, <2>2 DEF StartLaunches, Holds
<1>3. ASSUME NEW p \in Procs,
             \/ GetArg(p) \/ GetUsage(p) \/ Relinguish(p) \/ Relinguished(p)
             \/ SwitchPower(p) \/ SwitchOff(p)
      PROVE  \A q \in Procs : Holds(q)' <=> Holds(q)
  BY <1>3 DEF GetArg, GetUsage, Relinguish, Relinguished, SwitchPower, SwitchOff, Becomes,
     Runs, Holds
<1>4. ASSUME NEW p \in Procs, AddUsage(p) \/ ReleaseUsage(p) \/ SharerReturns(p)
      PROVE  \A q \in Procs : q # p => (Holds(q)' <=> Holds(q))
  BY <1>4 DEF AddUsage, ReleaseUsage, SharerReturns, Becomes, Holds
<1> QED
  BY <1>1, <1>2, <1>3, <1>4
     DEF Next, Commanding, Acquiring, Using, CommandStart, StartStops, CommandStop,
         GetUsageOutOfRange, Turn, LoopStep, SpuriousWake, StopStep, Race, Gone, vars, locals

\* addUsage, the only step to give equipment to a process, follows a search that
\* met nobody in its way.
LEMMA AloneStep ==
    ASSUME GeneralInv, StartOK, RelinguishOK, ListOK, ScanOK, ExclusiveAlone, [Next]_vars
    PROVE  ExclusiveAlone'
<1>1. CASE \A p \in Procs : Holds(p)' <=> Holds(p)
  BY <1>1 DEF ExclusiveAlone, Exclusive, Procs
<1>2. ASSUME NEW p \in Procs, AddUsage(p), \A q \in Procs : q # p => (Holds(q)' <=> Holds(q))
      PROVE  ExclusiveAlone'
  <2>1. pc[p] = "add"
    BY <1>2 DEF AddUsage, Runs
  <2>2. \A q \in Procs : q # p /\ Uses[q] = Uses[p] /\ Holds(q) =>
          p \notin Exclusive /\ q \notin Exclusive
    BY <2>1, NobodyInTheWay
  <2> QED
    BY <1>2, <2>2 DEF ExclusiveAlone, Exclusive, Procs
<1>3. ASSUME NEW p \in Procs, ReleaseUsage(p) \/ SharerReturns(p),
             \A q \in Procs : q # p => (Holds(q)' <=> Holds(q))
      PROVE  ExclusiveAlone'
  <2>1. ~Holds(p)'
    BY <1>3 DEF ReleaseUsage, SharerReturns, Becomes, Holds, GeneralInv, ModuleTypeOK
  <2> QED
    BY <1>3, <2>1 DEF ExclusiveAlone, Exclusive, Procs
<1> QED
  BY <1>1, <1>2, <1>3, HoldersChange

\* A control leaves its loop through setPower(0), and a switch with its argument.
LEMMA PowerStep ==
    ASSUME Paced, GeneralInv, OrderOK, PowerOK, [Next]_vars
    PROVE  PowerOK'
<1> USE ClassesDiffer, UsesType DEF OrderOK, Threads, GeneralInv, ModuleTypeOK
<1> DEFINE Controlled(e) == \E c \in Controls : Uses[c] = e /\ pc[c] = "loop"
           Switched(e) == \E s \in Switches : Uses[s] = e /\ (command = s \/ pc[s] \in Asking)
<1>0. \A e \in Equipment : Controlled(e) \/ Switched(e) \/ cached[e] \in Given(e)
  BY DEF PowerOK
<1>1. ASSUME UNCHANGED <<cached, argument, level, command>>,
             \A s \in Switches : pc'[s] \in Asking \ {"arg"} => pc[s] \in Asking \ {"arg"},
             \A s \in Switches : pc[s] \in Asking => pc'[s] \in Asking,
             \A c \in Controls : pc[c] = "loop" => pc'[c] = "loop"
      PROVE  PowerOK'
  BY <1>0, <1>1 DEF PowerOK, Given
<1>2. CASE UNCHANGED vars \/ Gone \/ Race
  BY <1>1, <1>2 DEF vars, nodes, locals, Gone, Race
<1>3. ASSUME NEW p \in Procs,
             \/ StartStops(p) \/ CommandStop(p) \/ LoopStep(p) \/ SpuriousWake(p)
             \/ GetUsageOutOfRange(p)
      PROVE  PowerOK'
  BY <1>1, <1>3 DEF StartStops, CommandStop, LoopStep, SpuriousWake, GetUsageOutOfRange, nodes, locals
<1>4. ASSUME NEW t \in Threads, StopStep(t) PROVE PowerOK'
  BY <1>1, <1>4 DEF StopStep, nodes, locals
<1>5. ASSUME NEW p \in Procs, GetUsage(p) \/ Relinguish(p) \/ Relinguished(p) PROVE PowerOK'
  <2>1. /\ pc[p] \in {"scan", "relinguish", "stopping"}
        /\ \E to \in {"scan", "relinguish", "stopping", "add"} : pc' = [pc EXCEPT ![p] = to]
        /\ UNCHANGED <<cached, argument, level, command>>
    BY <1>5 DEF GetUsage, Relinguish, Relinguished, Runs, Becomes, nodes, locals
  <2> QED
    BY <1>1, <2>1 DEF Asking
<1>6. ASSUME NEW p \in Procs, AddUsage(p) PROVE PowerOK'
  <2>1. /\ pc[p] = "add"
        /\ \/ p \in Switches /\ pc' = [pc EXCEPT ![p] = "set"]
           \/ p \notin Switches /\ pc' = [pc EXCEPT ![p] = "loop"]
        /\ UNCHANGED <<cached, argument, level, command>>
    BY <1>6 DEF AddUsage, Runs, Becomes, nodes, locals
  <2>2. \A s \in Switches : pc'[s] \in Asking \ {"arg"} => pc[s] \in Asking \ {"arg"}
    BY <2>1 DEF Asking, Procs
  <2>3. \A s \in Switches : pc[s] \in Asking => pc'[s] \in Asking
    BY <2>1 DEF Asking, Procs
  <2>4. \A c \in Controls : pc[c] = "loop" => pc'[c] = "loop"
    BY <2>1 DEF Procs
  <2> QED
    BY <1>1, <2>1, <2>2, <2>3, <2>4
<1>7. ASSUME NEW p \in Procs, ReleaseUsage(p) \/ SharerReturns(p) PROVE PowerOK'
  <2>1. /\ pc[p] = "release" \/ p \in Sharers
        /\ pc[p] \notin Asking
        /\ pc' = [pc EXCEPT ![p] = "idle"]
        /\ UNCHANGED <<cached, argument, level, command>>
    BY <1>7 DEF ReleaseUsage, SharerReturns, Runs, Becomes, nodes, locals, Asking
  <2> QED
    BY <1>1, <2>1 DEF Asking
<1>8. ASSUME NEW p \in Procs, CommandStart(p) PROVE PowerOK'
  <2>1. /\ \A q \in Procs : q # p => argument'[q] = argument[q]
        /\ command' = p /\ command = None /\ UNCHANGED <<cached, level, pc>>
    BY <1>8 DEF CommandStart, TakesCommand, nodes
  <2>2. \A s \in Switches : pc[s] \notin Asking
    BY <1>8, NobodyStarts DEF PlaceOK, Procs
  <2>3. ASSUME NEW e \in Equipment, ~Controlled(e)', ~Switched(e)'
        PROVE  cached'[e] \in Given(e)'
    <3>1. ~Controlled(e) /\ ~Switched(e)
      BY <2>1, <2>2, <2>3, NamesDiffer DEF Procs
    <3>2. \A s \in Switches : Uses[s] = e => s # p
      BY <2>1, <2>3
    <3>3. Given(e)' = Given(e)
      BY <2>1, <3>2 DEF Procs, Given
    <3> QED
      BY <1>0, <2>1, <3>1, <3>3
  <2> QED
    BY <2>1, <2>2, <2>3 DEF PowerOK
<1>9. ASSUME NEW p \in Procs, StartLaunches(p) PROVE PowerOK'
  <2>1. /\ command = p /\ UNCHANGED <<cached, argument, level>>
        /\ pc' = [pc EXCEPT ![p] = IF p \in Switches THEN "arg" ELSE "scan"]
    BY <1>9 DEF StartLaunches, nodes
  <2>2. phase[p] = "idle"
    BY <1>9, SameRuns DEF StartLaunches, PP!Start, PP!HandleInv, PP!AliveOK,
       PP!RunningCoversHandle
  <2>3. pc[p] = "idle"
    BY <2>2 DEF PlaceOK, Asking, Looping, Pcs
  <2>4. \A s \in Switches : pc'[s] \in Asking \ {"arg"} => level'[s] = argument'[s]
    BY <2>1 DEF PowerOK, Procs
  <2>5. ASSUME NEW e \in Equipment
        PROVE  /\ Controlled(e) => Controlled(e)'
               /\ Switched(e) => Switched(e)'
    BY <2>1, <2>3 DEF Asking, Procs
  <2> QED
    BY <1>0, <2>1, <2>4, <2>5 DEF PowerOK, Given
<1>10. ASSUME NEW p \in Procs, GetArg(p) PROVE PowerOK'
  <2>1. /\ pc[p] = "arg" /\ pc' = [pc EXCEPT ![p] = "scan"]
        /\ level' = [level EXCEPT ![p] = argument[p]]
        /\ UNCHANGED <<cached, argument, command>>
    BY <1>10 DEF GetArg, Runs, Becomes, nodes
  <2>2. \A s \in Switches : pc'[s] \in Asking \ {"arg"} => level'[s] = argument'[s]
    BY <2>1 DEF PowerOK, Procs
  <2>3. ASSUME NEW e \in Equipment
        PROVE  /\ Controlled(e) => Controlled(e)'
               /\ Switched(e) => Switched(e)'
    BY <2>1 DEF Asking, Procs
  <2> QED
    BY <1>0, <2>1, <2>2, <2>3 DEF PowerOK, Given
<1>11. ASSUME NEW p \in Procs, SwitchPower(p) PROVE PowerOK'
  <2>1. /\ pc[p] = "set" /\ pc' = [pc EXCEPT ![p] = "release"]
        /\ cached' = [cached EXCEPT ![Uses[p]] = Clamp(cached[Uses[p]], level[p])]
        /\ level' = [level EXCEPT ![p] = Off]
        /\ UNCHANGED <<argument, command>>
    BY <1>11 DEF SwitchPower, Runs, Becomes, SetPower
  <2>2. p \in Switches /\ level[p] = argument[p]
    BY <2>1 DEF PlaceOK, PowerOK, Asking
  <2>3. cached'[Uses[p]] \in Given(Uses[p])'
    <3>1. \/ Clamp(cached[Uses[p]], level[p]) = argument[p]
          \/ /\ Clamp(cached[Uses[p]], level[p]) = MAX_POWER
             /\ \E asked \in SwitchLevels : asked > MAX_POWER
      BY <2>2, ClampGives DEF CachedLevels
    <3> QED
      BY <2>1, <2>2, <3>1 DEF Given
  <2>4. ASSUME NEW e \in Equipment, e # Uses[p]
        PROVE  /\ Controlled(e) => Controlled(e)'
               /\ Switched(e) => Switched(e)'
               /\ cached[e] \in Given(e) => cached'[e] \in Given(e)'
    BY <2>1, <2>4 DEF Procs, Given
  <2>5. \A s \in Switches : pc'[s] \in Asking \ {"arg"} => level'[s] = argument'[s]
    BY <2>1 DEF PowerOK, Asking, Procs
  <2> QED
    BY <1>0, <2>1, <2>3, <2>4, <2>5 DEF PowerOK
<1>12. ASSUME NEW p \in Procs, Turn(p) \/ SwitchOff(p) PROVE PowerOK'
  <2>1. /\ pc[p] = "loop" /\ UNCHANGED <<argument, level, command>>
        /\ \/ cached' = cached /\ pc' = pc
           \/ /\ p \in Controls /\ pc' = pc
              /\ \E l \in CachedLevels : cached' = [cached EXCEPT ![Uses[p]] = l]
           \/ /\ p \in Controls /\ pc' = [pc EXCEPT ![p] = "release"]
              /\ cached' = [cached EXCEPT ![Uses[p]] = Clamp(cached[Uses[p]], Off)]
    <3>1. CASE Turn(p)
      <4>1. phase[p] = "work"
        BY <3>1, SameRuns DEF Turn, PP!Sleep, PP!Moves
      <4>2. pc[p] = "loop"
        BY <4>1 DEF PlaceOK, Asking, Pcs
      <4>3. CASE p \in Controls /\ \E l \in ControlLevels : SetPower(p, l)
        <5>1. PICK l \in ControlLevels :
                cached' = [cached EXCEPT ![Uses[p]] = Clamp(cached[Uses[p]], l)]
          BY <4>3 DEF SetPower
        <5>2. Clamp(cached[Uses[p]], l) \in CachedLevels
          BY ClampGives DEF CachedLevels
        <5> QED
          BY <3>1, <4>2, <4>3, <5>1, <5>2 DEF Turn, locals
      <4>4. CASE UNCHANGED nodes
        BY <3>1, <4>2, <4>4 DEF Turn, nodes, locals
      <4> QED
        BY <3>1, <4>3, <4>4 DEF Turn
    <3>2. CASE SwitchOff(p)
      BY <3>2 DEF SwitchOff, Runs, Becomes, SetPower, locals
    <3> QED
      BY <1>12, <3>1, <3>2
  <2>2. \A s \in Switches : pc'[s] \in Asking \ {"arg"} => level'[s] = argument'[s]
    BY <2>1 DEF PowerOK, Asking, Procs
  <2>3. ASSUME NEW e \in Equipment, e # Uses[p] \/ p \notin Controls
        PROVE  /\ Controlled(e) => Controlled(e)'
               /\ Switched(e) => Switched(e)'
               /\ cached[e] \in Given(e) => cached'[e] \in Given(e)'
    BY <2>1, <2>3 DEF Asking, Procs, Given
  <2>4. p \in Controls => Controlled(Uses[p])' \/ cached'[Uses[p]] \in Given(Uses[p])'
    <3>1. \/ Clamp(cached[Uses[p]], Off) = Off
          \/ /\ Clamp(cached[Uses[p]], Off) = MAX_POWER
             /\ \E asked \in SwitchLevels : asked > MAX_POWER
      BY ClampGives DEF CachedLevels
    <3> QED
      BY <2>1, <3>1 DEF Procs, Given
  <2> QED
    BY <1>0, <2>1, <2>2, <2>3, <2>4 DEF PowerOK
<1> QED
  BY <1>2, <1>3, <1>4, <1>5, <1>6, <1>7, <1>8, <1>9, <1>10, <1>11, <1>12
     DEF Next, Commanding, Acquiring, Using

-----------------------------------------------------------------------------
(***************************************************************************)
(* The theorems about paced commands.                                      *)
(***************************************************************************)
\* The inductive invariant of the arbitration holds as long as the commands are
\* paced.
LEMMA PacedInvariant == Paced => (Spec => []PacedInv)
<1> SUFFICES ASSUME Paced PROVE Spec => []PacedInv
  OBVIOUS
<1>1. Init => PacedInv
  <2> SUFFICES ASSUME Init PROVE PacedInv
    OBVIOUS
  <2>1. GeneralInv
    BY GeneralInit
  <2> USE DEF Init, Proc!Init, Proc!Threads
  <2>2. OrderOK
    BY DEF OrderOK, StartOK, CommandOK, LoopOK, PP!StopperOK, PP!Threads, Threads, Looping
  <2>3. RelinguishOK /\ ExclusiveAlone
    BY DEF RelinguishOK, ExclusiveAlone, Holds, Exclusive, Procs
  <2>4. ListOK /\ ScanOK
    BY EmptySeq, NoUsageOfNobody DEF ListOK, ScanOK, PositionInRange, Holds, Listed
  <2>5. PowerOK
    BY DEF PowerOK, Given, Asking, Procs
  <2> QED
    BY <2>1, <2>2, <2>3, <2>4, <2>5 DEF PacedInv
<1>2. ASSUME PacedInv, [Next]_vars PROVE PacedInv'
  <2> USE <1>2 DEF PacedInv
  <2>1. PositionInRange /\ StartOK
    BY DEF ScanOK, OrderOK
  <2>2. GeneralInv' /\ OrderOK'
    BY <2>1, GeneralStep, OrderStep
  <2>3. RelinguishOK' /\ ListOK' /\ ScanOK'
    BY RelinguishStep, ListStep, ScanStep
  <2>4. ExclusiveAlone' /\ PowerOK'
    BY <2>1, AloneStep, PowerStep
  <2> QED
    BY <2>2, <2>3, <2>4
<1>3. PacedInv /\ [Next]_vars => PacedInv'
  BY <1>2
<1> QED
  BY <1>1, <1>3, PTL DEF Spec

\* No two threads work on the list at the same time, although the module's mutex
\* is never taken: the joins of stop() order the accesses (BrewModule.hpp:45).
THEOREM ListNotRaced == Paced => (Spec => []NoListRace)
<1>1. PacedInv => NoListRace
  BY OrderedAccesses DEF PacedInv
<1> QED
  BY <1>1, PacedInvariant, PTL

\* No join throws and no start() assigns over a joinable thread, whichever
\* process is started or stopped (Process.cpp:19-52, BrewModule.cpp:333-337).
THEOREM ModuleNeverCollides == Paced => (Spec => []StopsNeverCollide)
<1>1. PacedInv => StopsNeverCollide
  BY DEF PacedInv, OrderOK, StopsNeverCollide
<1> QED
  BY <1>1, PacedInvariant, PTL

\* itrPosition, which is not initialised and which relinguish moves back, never
\* leaves the list, however many entries are erased (BrewModule.cpp:176, 333).
THEOREM PositionStays == Paced => (Spec => []PositionStaysInRange)
<1>1. PacedInv => PositionStaysInRange
  BY DEF PacedInv, OrderOK, ScanOK, PositionStaysInRange
<1> QED
  BY <1>1, PacedInvariant, PTL

\* Between two commands the list has one entry for each running loop and none of
\* a control or a switch that is over.
THEOREM ListExact == Paced => (Spec => []ListIsExact)
<1>1. ASSUME PacedInv PROVE ListIsExact
  <2> USE <1>1 DEF PacedInv
  <2> SUFFICES ASSUME Settled, NEW p \in Procs
               PROVE LET entries == {i \in 1..Len(usedList) : usedList[i].usageID = Usage(p)}
                     IN  /\ Holds(p) => entries # {}
                         /\ p \in Exclusive /\ ~Holds(p) => entries = {}
                         /\ \A i, j \in entries : i = j
                         /\ \A i \in entries : usedList[i].exclusive <=> p \in Exclusive
    BY DEF ListIsExact
  <2>1. relinguishingEquip = NoUsage
    BY DEF Settled, RelinguishOK
  <2>2. Holds(p) => Listed(Usage(p))
    BY <2>1, NoUsageOfNobody DEF ListOK
  <2>3. ASSUME NEW i \in 1..Len(usedList), usedList[i].usageID = Usage(p)
        PROVE  usedList[i].exclusive = (p \in Exclusive)
    <3>1. PICK r \in Procs : usedList[i] = Entry(r)
      BY ElementOfSeq DEF GeneralInv, ModuleTypeOK, Entries
    <3>2. r = p
      BY <2>3, <3>1, UsageNames DEF Entry
    <3> QED
      BY <3>1, <3>2 DEF Entry
  <2> QED
    BY <2>2, <2>3 DEF ListOK, Listed
<1>2. PacedInv => ListIsExact
  BY <1>1
<1> QED
  BY <1>2, PacedInvariant, PTL

\* Between two commands no level that the PID algorithm computed is left on
\* equipment that no control holds, whatever the clamp of SwitchNode makes of the
\* levels, unless the last write failed (DevProc.cpp:175-178, 213-215).
THEOREM PowerIsAccounted == Paced => (Spec => []PowerAccounted)
<1>1. ASSUME PacedInv PROVE PowerAccounted
  <2> SUFFICES ASSUME Settled, NEW e \in Equipment,
                      \A c \in Controls : Uses[c] = e => ~Holds(c),
                      power[e] = Written(cached[e])
               PROVE  power[e] \in Commanded(e)
    BY DEF PowerAccounted
  <2>1. ~\E c \in Controls : Uses[c] = e /\ pc[c] = "loop"
    BY DEF Holds
  <2>2. ~\E s \in Switches : Uses[s] = e /\ (command = s \/ pc[s] \in Asking)
    BY NamesDiffer DEF Settled, Asking, Procs
  <2>3. cached[e] \in Given(e)
    BY <1>1, <2>1, <2>2 DEF PacedInv, PowerOK
  <2>4. Written(Off) = Off /\ Written(MAX_POWER) = MAX_POWER
    BY DEF Written, FourDigits, Off, MAX_POWER
  <2> QED
    BY <2>3, <2>4 DEF Given, Commanded
<1>2. PacedInv => PowerAccounted
  BY <1>1
<1> QED
  BY <1>2, PacedInvariant, PTL

\* A process that has exclusive use of a piece of equipment is the only one to
\* have it, for any processes and equipment (BrewModule.hpp:185-187).
THEOREM ExclusiveIsAlone == Paced => (Spec => []ExclusiveAlone)
<1>1. PacedInv => ExclusiveAlone
  BY DEF PacedInv
<1> QED
  BY <1>1, PacedInvariant, PTL

-----------------------------------------------------------------------------
(***************************************************************************)
(* The arbitration implements the lock.                                    *)
(***************************************************************************)
\* The holders that the refinement mapping gives the lock
Holders(e) == {p \in Procs : Uses[p] = e /\ Holds(p)}

\* The level changes in the hands of a process that has the equipment.
LEMMA WriterHolds ==
    ASSUME GeneralInv, [Next]_vars, power' # power
    PROVE  \E p \in Procs : /\ Holds(p)
                            /\ \E l \in Levels : power' = [power EXCEPT ![Uses[p]] = l]
                            /\ SwitchPower(p) \/ Turn(p) \/ SwitchOff(p)
<1> USE DEF GeneralInv, ModuleTypeOK
<1>1. PICK p \in Procs : SwitchPower(p) \/ Turn(p) \/ SwitchOff(p)
  BY DEF Next, Commanding, Acquiring, Using, CommandStart, StartStops, StartLaunches,
     CommandStop, GetArg, GetUsage, GetUsageOutOfRange, Relinguish, Relinguished, AddUsage,
     LoopStep, SpuriousWake, ReleaseUsage, SharerReturns, StopStep, Race, Gone, vars, nodes,
     locals
<1>2. \E l \in Levels : power' = [power EXCEPT ![Uses[p]] = l]
  <2>1. PICK l \in CachedLevels : SetPower(p, l)
    BY <1>1 DEF SwitchPower, Turn, SwitchOff, nodes, CachedLevels
  <2>2. Clamp(cached[Uses[p]], l) \in CachedLevels
    BY UsesType, ClampGives
  <2> QED
    BY <2>1, <2>2 DEF SetPower, Levels
<1>3. Holds(p)
  <2>1. CASE Turn(p)
    <3>1. phase[p] = "work"
      BY <2>1, SameRuns DEF Turn, PP!Sleep, PP!Moves
    <3> QED
      BY <3>1 DEF PlaceOK, Asking, Pcs, Holds
  <2> QED
    BY <1>1, <2>1 DEF SwitchPower, SwitchOff, Runs, Holds
<1> QED
  BY <1>1, <1>2, <1>3

\* Every step acquires, releases or writes as the lock allows, or is a stutter.
LEMMA LockStep == ASSUME PacedInv, [Next]_vars PROVE [Lock!Next]_Lock!lvars
<1> USE UsesType
<1> DEFINE h == [e \in Equipment |-> Holders(e)]
<1>0. GeneralInv /\ StartOK /\ RelinguishOK /\ ListOK /\ ScanOK
  BY DEF PacedInv, OrderOK
<1>1. CASE power' # power
  <2>1. PICK p \in Procs : /\ Holds(p)
                           /\ \E l \in Levels : power' = [power EXCEPT ![Uses[p]] = l]
                           /\ SwitchPower(p) \/ Turn(p) \/ SwitchOff(p)
    BY <1>0, <1>1, WriterHolds
  <2>2. \A q \in Procs : Holds(q)' <=> Holds(q)
    BY <1>0, <2>1 DEF SwitchPower, Turn, SwitchOff, Runs, Becomes, Holds, locals,
       GeneralInv, ModuleTypeOK
  <2>3. h' = h
    BY <2>2 DEF Holders
  <2>4. p \in h[Uses[p]]
    BY <2>1 DEF Holders
  <2>5. \E l \in Levels : Lock!Write(p, l)
    BY <2>1, <2>3, <2>4 DEF Lock!Write, Holders
  <2> QED
    BY <2>5 DEF Lock!Next
<1>2. CASE power' = power /\ \A p \in Procs : Holds(p)' <=> Holds(p)
  <2>1. h' = h
    BY <1>2 DEF Holders
  <2> QED
    BY <1>2, <2>1 DEF Lock!lvars, Holders
<1>3. ASSUME power' = power, NEW p \in Procs,
             AddUsage(p) \/ ReleaseUsage(p) \/ SharerReturns(p),
             \A q \in Procs : q # p => (Holds(q)' <=> Holds(q))
      PROVE  Lock!Next
  <2>1. CASE AddUsage(p)
    <3>1. pc[p] = "add" /\ Holds(p)'
      BY <1>0, <2>1 DEF AddUsage, Runs, Becomes, Holds, GeneralInv, ModuleTypeOK
    <3>2. h' = [h EXCEPT ![Uses[p]] = @ \cup {p}]
      BY <1>3, <3>1 DEF Holders
    <3>3. \A q \in h[Uses[p]] : p \notin Exclusive /\ q \notin Exclusive
      BY <1>0, <3>1, NobodyInTheWay DEF Holders, Holds
    <3>4. Lock!Acquire(p)
      BY <1>3, <3>2, <3>3 DEF Lock!Acquire, Holders
    <3> QED
      BY <3>4 DEF Lock!Next
  <2>2. CASE ReleaseUsage(p) \/ SharerReturns(p)
    <3>1. Holds(p) /\ ~Holds(p)'
      BY <1>0, <2>2 DEF ReleaseUsage, SharerReturns, Runs, Becomes, Holds, GeneralInv,
         ModuleTypeOK
    <3>2. h' = [h EXCEPT ![Uses[p]] = @ \ {p}] /\ p \in h[Uses[p]]
      BY <1>3, <3>1 DEF Holders
    <3>3. Lock!Release(p)
      BY <1>3, <3>2 DEF Lock!Release, Holders
    <3> QED
      BY <3>3 DEF Lock!Next
  <2> QED
    BY <1>3, <2>1, <2>2
<1> QED
  BY <1>0, <1>1, <1>2, <1>3, HoldersChange

\* The arbitration is a lock: nobody acquires the equipment before the processes
\* in its way have written their last level and gone (BrewModule.hpp:184-204).
THEOREM ArbitrationIsALock == Paced => (Spec => ImplementsLock)
<1> SUFFICES ASSUME Paced PROVE Spec => ImplementsLock
  OBVIOUS
<1>1. Init => Lock!Init
  BY DEF Init, Lock!Init, Holds
<1>2. PacedInv /\ [Next]_vars => [Lock!Next]_Lock!lvars
  BY LockStep
<1>3. Spec => []PacedInv
  BY PacedInvariant
<1> QED
  BY <1>1, <1>2, <1>3, PTL DEF Spec, ImplementsLock, Lock!Spec
=============================================================================
