------------------------ MODULE AgentProcess_proofs ------------------------
(***************************************************************************)
(* Theorems about AgentProcess, for any sets of goroutines and any number  *)
(* of restarts.                                                            *)
(***************************************************************************)
EXTENDS AgentProcess, TLAPS

Holding(a) == pc[a] \in {"stopWait", "killWait", "writing"}

\* Whoever blocks inside a method holds p.mu.
Mutex == \A a \in Actors : Holding(a) => mu = a

\* p.cmd and p.done always designate the last child and its channel.
Newest == cmd = spawned /\ done = spawned

\* As long as no child was orphaned, only the last child can be running, have a
\* monitor, or have its channel closed, and these happen one after the other.
InOrder ==
    orphans = {} =>
        /\ alive \subseteq {spawned}
        /\ waiting \subseteq {spawned}
        /\ closing \subseteq {<<spawned, spawned>>}
        /\ closing # {} => alive = {} /\ waiting = {} /\ done \notin closed
        /\ done \in closed => alive = {} /\ waiting = {}
        /\ ~panicked

IInv == TypeOK /\ Newest /\ InOrder

\* A step of the process and its callers, without the bound on restarts: also
\* the modules that compose AgentProcess with its callers take such steps only.
AnyCall(a) ==
    \/ a \in Restarters /\ Restart(a)
    \/ a \in Stoppers /\ Stop(a)
    \/ a \in Writers /\ WriteStdin(a)
    \/ a \in Probers /\ Probe(a)

Moves == (\E a \in Actors : AnyCall(a) \/ Step(a)) \/ Children \/ UNCHANGED vars

USE DEF goto, lock, unlock, locked, call, handleVars, monitorVars

LEMMA NextMoves == [Next]_vars => Moves
BY DEF Next, Call, AnyCall, Moves

-----------------------------------------------------------------------------
(* Type correctness. *)

LEMMA InitType == Init => TypeOK
<1> SUFFICES ASSUME Init PROVE TypeOK
  OBVIOUS
<1>1. pc \in [Actors -> {"idle", "stopLock", "stopWait", "killWait", "stopped",
                        "startLock", "writeLock", "writing",
                        "isRunningLock", "signalLock"}]
  BY DEF Init
<1>2. ready \in BOOLEAN /\ panicked \in BOOLEAN
  BY DEF Init
<1> QED
  BY <1>1, <1>2 DEF Init, TypeOK

LEMMA StepType == TypeOK /\ Moves => TypeOK'
<1> SUFFICES ASSUME TypeOK, Moves PROVE TypeOK'
  OBVIOUS
<1> USE DEF TypeOK
<1>1. ASSUME NEW a \in Actors, AnyCall(a) PROVE TypeOK'
  BY <1>1 DEF AnyCall, Restart, Stop, WriteStdin, Probe
<1>2. ASSUME NEW a \in Actors, Stopping(a) PROVE TypeOK'
  <2>1. CASE StopSignal(a) BY <2>1 DEF StopSignal
  <2>2. CASE StopKill(a) BY <2>2 DEF StopKill
  <2>3. CASE StopReturn(a) BY <2>3 DEF StopReturn
  <2> QED BY <1>2, <2>1, <2>2, <2>3 DEF Stopping
<1>3. ASSUME NEW a \in Actors, Restarting(a) PROVE TypeOK'
  <2>1. CASE CountRestart(a) BY <2>1 DEF CountRestart
  <2>2. CASE StartOk(a) BY <2>2 DEF StartOk
  <2>3. CASE StartFails(a) BY <2>3 DEF StartFails
  <2> QED BY <1>3, <2>1, <2>2, <2>3 DEF Restarting
<1>4. ASSUME NEW a \in Actors, Writing(a) PROVE TypeOK'
  BY <1>4 DEF Writing, WriteBegin, WriteAccepted, WriteFails
<1>5. ASSUME NEW a \in Actors, Probing(a) PROVE TypeOK'
  BY <1>5 DEF Probing, IsRunning, Signal
<1>6. ASSUME NEW c \in alive, ChildExit(c) PROVE TypeOK'
  BY <1>6 DEF ChildExit
<1>7. ASSUME NEW c \in waiting, MonitorRead(c) PROVE TypeOK'
  BY <1>7 DEF MonitorRead
<1>8. ASSUME NEW m \in closing, MonitorClose(m) PROVE TypeOK'
  BY <1>8 DEF MonitorClose
<1>9. CASE UNCHANGED vars
  BY <1>9 DEF vars
<1> QED
  BY <1>1, <1>2, <1>3, <1>4, <1>5, <1>6, <1>7, <1>8, <1>9
     DEF Moves, Step, Children

\* Every reachable state of the wrapper's process manager is well typed.
THEOREM TypeCorrect == Spec => []TypeOK
BY InitType, StepType, NextMoves, PTL DEF Spec

-----------------------------------------------------------------------------
(* The order of spawn, exit and announcement.                              *)

ordVars == <<cmd, done, spawned, closed, alive, waiting, closing, orphans,
             panicked>>

\* Only start, an exit and the monitors touch the variables of InOrder.
LEMMA OrderedActions ==
  ASSUME Moves
  PROVE  \/ UNCHANGED ordVars
         \/ \E r \in Restarters : StartOk(r)
         \/ \E c \in alive : ChildExit(c)
         \/ \E c \in waiting : MonitorRead(c)
         \/ \E m \in closing : MonitorClose(m)
<1> USE DEF ordVars
<1>1. ASSUME NEW a \in Actors, Step(a)
      PROVE  UNCHANGED ordVars \/ \E r \in Restarters : StartOk(r)
  <2>1. ASSUME Stopping(a) PROVE UNCHANGED ordVars
    BY <2>1 DEF Stopping, StopSignal, StopKill, StopReturn
  <2>2. ASSUME a \in Restarters, Restarting(a)
        PROVE  UNCHANGED ordVars \/ \E r \in Restarters : StartOk(r)
    BY <2>2 DEF Restarting, CountRestart, StartFails
  <2>3. ASSUME Writing(a) PROVE UNCHANGED ordVars
    BY <2>3 DEF Writing, WriteBegin, WriteAccepted, WriteFails
  <2>4. ASSUME Probing(a) PROVE UNCHANGED ordVars
    BY <2>4 DEF Probing, IsRunning, Signal
  <2> QED
    BY <1>1, <2>1, <2>2, <2>3, <2>4 DEF Step
<1>2. ASSUME NEW a \in Actors, AnyCall(a) PROVE UNCHANGED ordVars
  BY <1>2 DEF AnyCall, Restart, Stop, WriteStdin, Probe
<1>3. CASE UNCHANGED vars
  BY <1>3 DEF vars
<1> QED
  BY <1>1, <1>2, <1>3 DEF Moves, Children

LEMMA InitIInv == Init => IInv
BY InitType DEF Init, IInv, Newest, InOrder

LEMMA StepIInv == IInv /\ Moves => IInv'
<1> SUFFICES ASSUME IInv, Moves PROVE Newest' /\ InOrder'
  BY StepType DEF IInv
<1> USE DEF IInv, Newest, InOrder
<1>1. CASE UNCHANGED ordVars
  BY <1>1 DEF ordVars
<1>2. ASSUME NEW r \in Restarters, StartOk(r) PROVE Newest' /\ InOrder'
  <2>1. Newest'
    BY <1>2 DEF StartOk
  <2>2. CASE done \notin closed
    BY <1>2, <2>2 DEF StartOk
  <2>3. CASE done \in closed /\ orphans = {}
    <3>1. alive = {} /\ waiting = {} /\ closing = {}
      BY <2>3
    <3>2. spawned' \notin closed
      BY <1>2 DEF StartOk, TypeOK
    <3> QED
      BY <1>2, <2>1, <2>3, <3>1, <3>2 DEF StartOk
  <2> QED
    BY <1>2, <2>1, <2>2, <2>3 DEF StartOk
<1>3. ASSUME NEW c \in alive, ChildExit(c) PROVE Newest' /\ InOrder'
  BY <1>3 DEF ChildExit
<1>4. ASSUME NEW c \in waiting, MonitorRead(c) PROVE Newest' /\ InOrder'
  BY <1>4 DEF MonitorRead
<1>5. ASSUME NEW m \in closing, MonitorClose(m) PROVE Newest' /\ InOrder'
  BY <1>5 DEF MonitorClose
<1> QED
  BY <1>1, <1>2, <1>3, <1>4, <1>5, OrderedActions

LEMMA Inductive == Spec => []IInv
BY InitIInv, StepIInv, NextMoves, PTL DEF Spec

\* However many goroutines restart at once, nothing goes wrong with the child
\* before a start() has replaced one whose exit had not been signalled.
THEOREM HarmNeedsOrphanHolds == Spec => []HarmNeedsOrphan
<1>1. IInv => HarmNeedsOrphan
  BY DEF IInv, InOrder, Newest, HarmNeedsOrphan, OneClaude, DoneMeansExited,
         NoPanic
<1> QED
  BY <1>1, Inductive, PTL

-----------------------------------------------------------------------------
(* Mutual exclusion. *)

LEMMA StepMutex == TypeOK /\ Mutex /\ Moves => Mutex'
<1> SUFFICES ASSUME TypeOK, Mutex, Moves PROVE Mutex'
  OBVIOUS
<1> USE DEF Mutex, Holding
<1>1. ASSUME NEW a \in Actors, AnyCall(a) PROVE Mutex'
  BY <1>1 DEF AnyCall, Restart, Stop, WriteStdin, Probe, TypeOK, Actors
<1>2. ASSUME NEW a \in Actors, Step(a) PROVE Mutex'
  <2> USE FreeAssumption DEF TypeOK
  <2>1. CASE Stopping(a)
    BY <2>1 DEF Stopping, StopSignal, StopKill, StopReturn
  <2>2. CASE Restarting(a)
    BY <2>2 DEF Restarting, CountRestart, StartOk, StartFails
  <2>3. CASE Writing(a)
    BY <2>3 DEF Writing, WriteBegin, WriteAccepted, WriteFails
  <2>4. CASE Probing(a)
    BY <2>4 DEF Probing, IsRunning, Signal
  <2> QED
    BY <1>2, <2>1, <2>2, <2>3, <2>4 DEF Step
<1>3. ASSUME Children PROVE Mutex'
  BY <1>3 DEF Children, ChildExit, MonitorRead, MonitorClose
<1>4. CASE UNCHANGED vars
  BY <1>4 DEF vars
<1> QED
  BY <1>1, <1>2, <1>3, <1>4 DEF Moves

LEMMA InitMutex == Init => Mutex
BY DEF Init, Mutex, Holding

LEMMA MutexHolds == Spec => []Mutex
BY InitMutex, StepMutex, NextMoves, TypeCorrect, PTL DEF Spec

\* Whoever is in Stop holds p.mu, and start needs it.
LEMMA StopKeepsTarget ==
  ASSUME Mutex, Moves, NEW a \in Actors, InStop(a)
  PROVE  <<cmd, done>>' = <<cmd, done>>
<1>1. mu = a /\ mu # Free
  BY FreeAssumption DEF Mutex, Holding, InStop
<1>2. ASSUME NEW r \in Restarters PROVE ~StartOk(r)
  BY <1>1 DEF StartOk
<1> QED
  BY <1>2, OrderedActions DEF ordVars, ChildExit, MonitorRead, MonitorClose

\* A Stop kills the child it sent SIGTERM to: p.mu, held for the whole Stop,
\* keeps every start() out.
THEOREM StopTargetsOneChildHolds == Spec => StopTargetsOneChild
<1>1. Mutex /\ [Next]_vars =>
        [\A a \in Actors : InStop(a) /\ InStop(a)' => <<cmd, done>>' = <<cmd, done>>]_vars
  BY StopKeepsTarget, NextMoves
<1> QED
  BY <1>1, MutexHolds, PTL DEF Spec, StopTargetsOneChild

-----------------------------------------------------------------------------
(* Restarts that are never concurrent. *)

SerialRestarts == \A r, s \in Restarters : r = s

\* Between the Stop and the start of the only goroutine that restarts, the child
\* that Stop ended stays ended and announced.
StoppedBeforeStart ==
    /\ orphans = {}
    /\ \A r \in Restarters : pc[r] \in {"stopped", "startLock"} => done \in closed

LEMMA StepSerial ==
  ASSUME SerialRestarts
  PROVE  TypeOK /\ StoppedBeforeStart /\ [Next]_vars => StoppedBeforeStart'
<1> SUFFICES ASSUME TypeOK, StoppedBeforeStart, [Next]_vars
             PROVE  StoppedBeforeStart'
  OBVIOUS
<1> USE DEF StoppedBeforeStart, TypeOK, Actors
<1>1. ASSUME NEW a \in Actors, Call(a) PROVE StoppedBeforeStart'
  BY <1>1 DEF Call, Restart, Stop, WriteStdin, Probe
<1>2. ASSUME NEW a \in Actors, Step(a) PROVE StoppedBeforeStart'
  <2>1. CASE Stopping(a)
    BY <2>1 DEF Stopping, StopSignal, StopKill, StopReturn
  <2>2. ASSUME a \in Restarters, Restarting(a) PROVE StoppedBeforeStart'
    <3>1. CASE StartOk(a)
      <4>1. orphans' = {}
        BY <2>2, <3>1 DEF StartOk
      <4>2. ASSUME NEW r \in Restarters PROVE pc'[r] = "idle"
        BY <2>2, <3>1 DEF StartOk, SerialRestarts
      <4> QED
        BY <4>1, <4>2
    <3>2. CASE CountRestart(a) BY <2>2, <3>2 DEF CountRestart
    <3>3. CASE StartFails(a) BY <3>3 DEF StartFails
    <3> QED
      BY <2>2, <3>1, <3>2, <3>3 DEF Restarting
  <2>3. CASE Writing(a)
    BY <2>3 DEF Writing, WriteBegin, WriteAccepted, WriteFails
  <2>4. CASE Probing(a)
    BY <2>4 DEF Probing, IsRunning, Signal
  <2> QED
    BY <1>2, <2>1, <2>2, <2>3, <2>4 DEF Step
<1>3. ASSUME Children PROVE StoppedBeforeStart'
  BY <1>3 DEF Children, ChildExit, MonitorRead, MonitorClose
<1>4. CASE UNCHANGED vars
  BY <1>4 DEF vars
<1> QED
  BY <1>1, <1>2, <1>3, <1>4 DEF Next

LEMMA SerialInvariant ==
  ASSUME SerialRestarts
  PROVE  Spec => [](IInv /\ StoppedBeforeStart)
<1>1. Init => StoppedBeforeStart
  BY DEF Init, StoppedBeforeStart, Actors
<1>2. TypeOK /\ StoppedBeforeStart /\ [Next]_vars => StoppedBeforeStart'
  BY StepSerial
<1> QED
  BY <1>1, <1>2, Inductive, TypeCorrect, PTL DEF Spec

\* With restarts one at a time a pod runs at most one Claude CLI.
THEOREM OneClaudeWhenSerial ==
  ASSUME SerialRestarts PROVE Spec => []OneClaude
<1>1. IInv /\ StoppedBeforeStart => OneClaude
  BY DEF IInv, InOrder, StoppedBeforeStart, OneClaude
<1> QED
  BY <1>1, SerialInvariant, PTL

\* With restarts one at a time a closed p.done means that the child exited.
THEOREM DoneMeansExitedWhenSerial ==
  ASSUME SerialRestarts PROVE Spec => []DoneMeansExited
<1>1. IInv /\ StoppedBeforeStart => DoneMeansExited
  BY DEF IInv, InOrder, StoppedBeforeStart, DoneMeansExited
<1> QED
  BY <1>1, SerialInvariant, PTL

\* With restarts one at a time no done channel is closed twice.
THEOREM NoPanicWhenSerial ==
  ASSUME SerialRestarts PROVE Spec => []NoPanic
<1>1. IInv /\ StoppedBeforeStart => NoPanic
  BY DEF IInv, InOrder, StoppedBeforeStart, NoPanic
<1> QED
  BY <1>1, SerialInvariant, PTL

\* With restarts one at a time a Stop returns only after the child exited.
THEOREM StopReturnsStoppedWhenSerial ==
  ASSUME SerialRestarts PROVE Spec => StopReturnsStopped
<1> DEFINE Empty == \A a \in Actors : InStop(a) /\ ~InStop(a)' => alive = {}
<1>1. IInv /\ StoppedBeforeStart /\ [Next]_vars => [Empty]_vars
  <2> SUFFICES ASSUME IInv, StoppedBeforeStart, [Next]_vars,
                      NEW a \in Actors, InStop(a), ~InStop(a)'
               PROVE  alive = {}
    OBVIOUS
  <2> USE DEF InStop, IInv, TypeOK
  <2>1. ASSUME NEW b \in Actors, Call(b) PROVE FALSE
    BY <2>1 DEF Call, Restart, Stop, WriteStdin, Probe, Actors
  <2>2. ASSUME NEW b \in Actors, Step(b) PROVE done \in closed
    <3>1. CASE Stopping(b)
      BY <3>1 DEF Stopping, StopSignal, StopKill, StopReturn
    <3>2. CASE Restarting(b)
      BY <3>2 DEF Restarting, CountRestart, StartOk, StartFails
    <3>3. CASE Writing(b)
      BY <3>3 DEF Writing, WriteBegin, WriteAccepted, WriteFails
    <3>4. CASE Probing(b)
      BY <3>4 DEF Probing, IsRunning, Signal
    <3> QED
      BY <2>2, <3>1, <3>2, <3>3, <3>4 DEF Step
  <2>3. ASSUME Children \/ UNCHANGED vars PROVE FALSE
    BY <2>3 DEF Children, ChildExit, MonitorRead, MonitorClose, vars
  <2>4. done \in closed => alive = {}
    BY DEF InOrder, StoppedBeforeStart
  <2> QED
    BY <2>1, <2>2, <2>3, <2>4 DEF Next
<1> QED
  BY <1>1, SerialInvariant, PTL DEF Spec, StopReturnsStopped

\* With restarts one at a time the process manager implements its abstract
\* specification: run, exit, announce, and only then the next generation.
THEOREM ImplementsSupervisionWhenSerial ==
  ASSUME SerialRestarts PROVE Spec => ImplementsSupervision
<1> DEFINE state == IF alive # {} THEN "running"
                    ELSE IF done \in closed THEN "announced" ELSE "exited"
<1>1. Init => Supervision!Init
  BY DEF Init, Supervision!Init
<1>2. IInv /\ IInv' /\ StoppedBeforeStart /\ StoppedBeforeStart' /\ [Next]_vars
        => [Supervision!Next]_<<spawned, state>>
  <2> SUFFICES ASSUME IInv, IInv', StoppedBeforeStart, StoppedBeforeStart',
                      [Next]_vars
               PROVE  Supervision!Next \/ UNCHANGED <<spawned, state>>
    OBVIOUS
  <2> USE DEF IInv, Newest, InOrder, StoppedBeforeStart
  <2>1. CASE UNCHANGED ordVars
    BY <2>1 DEF ordVars
  <2>2. ASSUME NEW r \in Restarters, StartOk(r) PROVE Supervision!Respawn
    BY <2>2 DEF StartOk, Supervision!Respawn
  <2>3. ASSUME NEW c \in alive, ChildExit(c) PROVE Supervision!Exit
    BY <2>3 DEF ChildExit, Supervision!Exit
  <2>4. ASSUME NEW c \in waiting, MonitorRead(c)
        PROVE  UNCHANGED <<spawned, state>>
    BY <2>4 DEF MonitorRead
  <2>5. ASSUME NEW m \in closing, MonitorClose(m) PROVE Supervision!Announce
    BY <2>5 DEF MonitorClose, Supervision!Announce
  <2> QED
    BY <2>1, <2>2, <2>3, <2>4, <2>5, OrderedActions, NextMoves DEF Supervision!Next
<1> QED
  BY <1>1, <1>2, SerialInvariant, PTL
     DEF Spec, ImplementsSupervision, Supervision!Spec, Supervision!vars

=============================================================================
