------------------------- MODULE AgentWrapper_proofs -------------------------
(***************************************************************************)
(* Theorems about AgentWrapper, for any sets of handlers, callbacks and    *)
(* changes.  Those about the process are carried over from                 *)
(* AgentProcess_proofs: each step of the wrapper is one of the process and *)
(* its callers, or leaves the process alone.                               *)
(***************************************************************************)
EXTENDS AgentWrapper, AgentProcess_proofs

USE DEF goto, lock, unlock, locked, call, handleVars, monitorVars

LEMMA WrapperMoves == [WNext]_allVars => Moves
<1> SUFFICES ASSUME [WNext]_allVars PROVE Moves
  OBVIOUS
<1>1. ASSUME NEW kind \in Changes, FileChange(kind) PROVE Moves
  BY <1>1 DEF FileChange, Moves
<1>2. CASE WatcherStart
  BY <1>2 DEF WatcherStart, Moves
<1>3. ASSUME NEW name \in pending, WatcherEvent(name) PROVE Moves
  BY <1>3 DEF WatcherEvent, Moves
<1>4. CASE TimerFires
  BY <1>4, CallbacksAssumption DEF TimerFires, Moves, AnyCall, Actors
<1>5. CASE WatcherStops
  BY <1>5 DEF WatcherStops, Moves
<1>6. CASE Request
  BY <1>6 DEF Request, Handlers, Call, Moves, AnyCall
<1>7. CASE ProcessStep
  BY <1>7 DEF ProcessStep, ProcessDoes, Moves
<1>8. CASE SigTerm
  BY <1>8, MainAssumption DEF SigTerm, Moves, AnyCall, Actors
<1>9. CASE Drain \/ Exit
  BY <1>9 DEF Drain, Exit, Moves
<1>10. CASE UNCHANGED allVars
  BY <1>10 DEF allVars, Moves
<1> QED
  BY <1>1, <1>2, <1>3, <1>4, <1>5, <1>6, <1>7, <1>8, <1>9, <1>10 DEF WNext, Watching

-----------------------------------------------------------------------------
(* The process inside the wrapper.                                         *)

LEMMA WrapperInvariant == WSpec => [](IInv /\ Mutex)
<1>1. WInit => IInv /\ Mutex
  BY InitIInv, InitMutex DEF WInit
<1>2. IInv /\ Mutex /\ [WNext]_allVars => IInv' /\ Mutex'
  BY WrapperMoves, StepIInv, StepMutex DEF IInv
<1> QED
  BY <1>1, <1>2, PTL DEF WSpec

\* process.go and watcher.go: also with a debounce timer that restarts the child
\* beside the HTTP handlers, and with a shutdown at any time, all harm to the
\* child begins with a start() that replaced one whose exit was not signalled.
THEOREM WrapperHarmNeedsOrphan == WSpec => []HarmNeedsOrphan
<1>1. IInv => HarmNeedsOrphan
  BY DEF IInv, InOrder, Newest, HarmNeedsOrphan, OneClaude, DoneMeansExited, NoPanic
<1> QED
  BY <1>1, WrapperInvariant, PTL

\* process.go:189-212: neither a callback nor a handler replaces the child in the
\* middle of a Stop, the one of the shutdown included.
THEOREM WrapperStopTargetsOneChild == WSpec => StopTargetsOneChild
<1>1. Mutex /\ [WNext]_allVars =>
        [\A a \in Actors : InStop(a) /\ InStop(a)' => <<cmd, done>>' = <<cmd, done>>]_vars
  BY StopKeepsTarget, WrapperMoves
<1> QED
  BY <1>1, WrapperInvariant, PTL DEF WSpec, StopTargetsOneChild

-----------------------------------------------------------------------------
(* The watcher and its timer.                                              *)

\* The timer is armed only while the watcher goroutine runs.
TimerWatched == timer => watcher = "watching"

LEMMA WrapperTypes == WSpec => [](WTypeOK /\ TimerWatched)
<1> USE DEF WTypeOK, TimerWatched
<1>1. WInit => WTypeOK /\ TimerWatched
  <2>1. WInit => timer \in BOOLEAN /\ stale \in BOOLEAN /\ ~timer
    BY DEF WInit
  <2>2. WInit => changes \in 0 .. MaxChanges
    BY ChangesAssumption DEF WInit
  <2>3. WInit => /\ TypeOK
                 /\ phase \in {"serving", "stopping", "draining", "exited"}
                 /\ watcher \in {"starting", "watching", "stopped"}
                 /\ pending \subseteq {"CLAUDE.md", "..data"}
    BY InitType DEF WInit
  <2> QED
    BY <2>1, <2>2, <2>3
<1>2. WTypeOK /\ TimerWatched /\ [WNext]_allVars => WTypeOK' /\ TimerWatched'
  <2> SUFFICES ASSUME WTypeOK, TimerWatched, [WNext]_allVars
               PROVE  WTypeOK' /\ TimerWatched'
    OBVIOUS
  <2>0. TypeOK'
    BY WrapperMoves, StepType
  <2>1. ASSUME NEW kind \in Changes, FileChange(kind) PROVE WTypeOK' /\ TimerWatched'
    BY <2>0, <2>1, ChangesAssumption DEF FileChange, eventName
  <2>2. CASE WatcherStart
    BY <2>0, <2>2 DEF WatcherStart
  <2>3. ASSUME NEW name \in pending, WatcherEvent(name) PROVE WTypeOK' /\ TimerWatched'
    BY <2>0, <2>3 DEF WatcherEvent
  <2>4. CASE TimerFires
    BY <2>0, <2>4 DEF TimerFires
  <2>5. CASE WatcherStops
    BY <2>0, <2>5 DEF WatcherStops
  <2>6. CASE Request
    BY <2>0, <2>6 DEF Request, wrapperVars
  <2>7. CASE ProcessStep
    BY <2>0, <2>7 DEF ProcessStep, ProcessDoes
  <2>8. CASE SigTerm \/ Drain \/ Exit
    <3>1. /\ phase' \in {"serving", "stopping", "draining", "exited"}
          /\ UNCHANGED <<watcher, pending, timer, changes, stale>>
      BY <2>8 DEF SigTerm, Drain, Exit
    <3> QED
      BY <2>0, <3>1
  <2>9. CASE UNCHANGED allVars
    BY <2>0, <2>9 DEF allVars, wrapperVars
  <2> QED
    BY <2>1, <2>2, <2>3, <2>4, <2>5, <2>6, <2>7, <2>8, <2>9 DEF WNext, Watching
<1> QED
  BY <1>1, <1>2, PTL DEF WSpec

\* main.go, watcher.go and server.go: every variable of the wrapper keeps its type.
THEOREM WrapperTypeCorrect == WSpec => []WTypeOK
BY WrapperTypes, PTL

\* watcher.go:63-94: a timer armed before the watcher received the stop is
\* disarmed; nothing else begins a callback.
THEOREM NoCallbackAfterStopHolds == WSpec => NoCallbackAfterStop
<1> DEFINE Quiet == watcher = "stopped" =>
                        \A c \in Callbacks : pc[c] = "idle" => pc'[c] = "idle"
<1>1. WTypeOK /\ TimerWatched /\ [WNext]_allVars => [Quiet]_allVars
  <2> SUFFICES ASSUME WTypeOK, TimerWatched, [WNext]_allVars, watcher = "stopped",
                      NEW c \in Callbacks, pc[c] = "idle"
               PROVE  pc'[c] = "idle"
    OBVIOUS
  <2>0. pc \in [Actors -> {"idle", "stopLock", "stopWait", "killWait", "stopped",
                           "startLock", "writeLock", "writing",
                           "isRunningLock", "signalLock"}]
        /\ c \in Actors /\ c \notin Stoppers
    BY CallbacksAssumption, MainAssumption DEF WTypeOK, TypeOK, Actors
  <2>1. ~timer
    BY DEF TimerWatched
  <2>2. ASSUME NEW kind \in Changes, FileChange(kind) PROVE pc'[c] = "idle"
    BY <2>2 DEF FileChange, vars
  <2>3. CASE Watching
    BY <2>1, <2>3 DEF Watching, WatcherStart, WatcherEvent, TimerFires, WatcherStops, vars
  <2>4. CASE Request
    <3>1. PICK a \in Handlers : Call(a)
      BY <2>4 DEF Request
    <3> QED
      BY <2>0, <3>1 DEF Handlers, Call, Restart, Stop, WriteStdin, Probe
  <2>5. CASE ProcessStep
    <3>1. ASSUME NEW a \in Actors, Step(a) PROVE pc'[c] = "idle"
      <4>1. CASE Stopping(a)
        BY <2>0, <4>1 DEF Stopping, StopSignal, StopKill, StopReturn
      <4>2. CASE Restarting(a)
        BY <2>0, <4>2 DEF Restarting, CountRestart, StartOk, StartFails
      <4>3. CASE Writing(a)
        BY <2>0, <4>3 DEF Writing, WriteBegin, WriteAccepted, WriteFails
      <4>4. CASE Probing(a)
        BY <2>0, <4>4 DEF Probing, IsRunning, Signal
      <4> QED
        BY <3>1, <4>1, <4>2, <4>3, <4>4 DEF Step
    <3>2. CASE Children
      BY <3>2 DEF Children, ChildExit, MonitorRead, MonitorClose
    <3> QED
      BY <2>5, <3>1, <3>2 DEF ProcessStep, ProcessDoes
  <2>6. CASE SigTerm
    BY <2>0, <2>6, MainAssumption DEF SigTerm, Stop
  <2>7. CASE Drain \/ Exit \/ UNCHANGED allVars
    BY <2>7 DEF Drain, Exit, allVars, vars
  <2> QED
    BY <2>2, <2>3, <2>4, <2>5, <2>6, <2>7 DEF WNext
<1> QED
  BY <1>1, WrapperTypes, PTL DEF WSpec, NoCallbackAfterStop
==============================================================================
