---------------------------- MODULE AgentProcess ----------------------------
(***************************************************************************)
(* The Claude CLI child managed by the agent wrapper: type Process of      *)
(* src/agent/process.go, with the goroutines that call it.                 *)
(*                                                                         *)
(* A child is numbered by the start() that spawned it, and so is the done  *)
(* channel that start() made: channel c is the one meant for child c.  The *)
(* module starts where NewProcess returned without error (main exits       *)
(* otherwise), so p.cmd and p.stdin are never nil.  p.flags is left out:   *)
(* every caller passes the flags the process already has.                  *)
(***************************************************************************)
EXTENDS Naturals, FiniteSets

CONSTANTS
    Restarters,     \* goroutines that call Restart
    Stoppers,       \* goroutines that call Stop
    Writers,        \* goroutines that call WriteStdin
    Probers,        \* goroutines that call IsRunning or Signal
    Free,           \* the value of mu when nobody holds it
    MaxRestarts     \* bound: how many times Restart is called

Actors == Restarters \cup Stoppers \cup Writers \cup Probers

ASSUME FreeAssumption == Free \notin Actors
ASSUME MaxRestartsAssumption == MaxRestarts \in Nat

VARIABLES
    pc,         \* where each goroutine is in the method it called
    mu,         \* p.mu: the goroutine that holds it, or Free
    cmd,        \* p.cmd: the child it designates
    stdin,      \* p.stdin: the child at the other end of the pipe, 0 if none
    done,       \* p.done: the channel it designates
    closed,     \* the done channels that have been closed
    spawned,    \* how many children were spawned; also the last one's number
    alive,      \* the children that are running (the operating system's view)
    termed,     \* the children that were sent SIGTERM
    killed,     \* the children that were sent SIGKILL
    waiting,    \* the children whose monitor goroutine is in cmd.Wait
    closing,    \* <<c, d>>: child c's monitor read p.done = d, will close it
    restarts,   \* metrics.ClaudeRestarts
    ready,      \* the last answer of IsRunning (GET /readyz)
    panicked,   \* a goroutine closed a closed channel: the wrapper crashed
    orphans     \* ghost: children that start() replaced before their channel
                \* was closed

vars == <<pc, mu, cmd, stdin, done, closed, spawned, alive, termed, killed,
          waiting, closing, restarts, ready, panicked, orphans>>

handleVars  == <<cmd, stdin, done, spawned, orphans>>
monitorVars == <<closed, waiting, closing, panicked>>

Init ==
    /\ pc = [a \in Actors |-> "idle"]
    /\ mu = Free
    /\ cmd = 1 /\ stdin = 1 /\ done = 1 /\ spawned = 1
    /\ closed = {} /\ alive = {1} /\ termed = {} /\ killed = {}
    /\ waiting = {1} /\ closing = {}
    /\ restarts = 0 /\ ready = TRUE /\ panicked = FALSE /\ orphans = {}

-----------------------------------------------------------------------------
(* Helpers: a method starts at its Lock, and returns with its Unlock.      *)

goto(a, label) == pc' = [pc EXCEPT ![a] = label]

lock(a, label) ==
    /\ mu = Free
    /\ mu' = a
    /\ goto(a, label)

unlock(a, label) ==
    /\ mu' = Free
    /\ goto(a, label)

\* A method that locks, cannot block, and unlocks: one step.
locked(a, label) ==
    /\ mu = Free
    /\ mu' = mu
    /\ goto(a, label)

\* A call leaves "idle" for the label at which it waits for p.mu.
call(a, label) ==
    /\ pc[a] = "idle"
    /\ goto(a, label)
    /\ UNCHANGED <<mu, handleVars, alive, termed, killed, monitorVars,
                   restarts, ready>>

-----------------------------------------------------------------------------
(* Stop, and Restart up to its call of start.                              *)

Restart(r) == call(r, "stopLock")

Stop(s) == call(s, "stopLock")

\* Mutant: Stop releases the lock after the signal.
StopSignal_Unlocks(a) ==
    /\ pc[a] = "stopLock"
    /\ locked(a, "stopWait")
    /\ termed' = termed \cup {cmd}
    /\ UNCHANGED <<handleVars, alive, killed, monitorVars, restarts, ready>>

\* The lock is taken and SIGTERM sent; mu stays held until Stop returns.
StopSignal(a) ==
    /\ pc[a] = "stopLock"
    /\ lock(a, "stopWait")
    /\ termed' = termed \cup {cmd}
    /\ UNCHANGED <<handleVars, alive, killed, monitorVars, restarts, ready>>

\* Mutant: on timeout SIGTERM is sent again instead of SIGKILL.
StopKill_TermAgain(a) ==
    /\ pc[a] = "stopWait"
    /\ goto(a, "killWait")
    /\ UNCHANGED <<mu, handleVars, alive, termed, killed, monitorVars, restarts,
                   ready>>

\* Mutant: Stop returns right after the kill.
StopKill_Returns(a) ==
    /\ pc[a] = "stopWait"
    /\ unlock(a, IF a \in Restarters THEN "stopped" ELSE "idle")
    /\ killed' = killed \cup {cmd}
    /\ UNCHANGED <<handleVars, alive, termed, monitorVars, restarts, ready>>

\* time.After(timeout) won the select.
StopKill(a) ==
    /\ pc[a] = "stopWait"
    /\ goto(a, "killWait")
    /\ killed' = killed \cup {cmd}
    /\ UNCHANGED <<mu, handleVars, alive, termed, monitorVars, restarts, ready>>

\* Mutant: Stop only signals, it does not wait for p.done.
StopReturn_NoWait(a) ==
    /\ pc[a] \in {"stopWait", "killWait"}
    /\ unlock(a, IF a \in Restarters THEN "stopped" ELSE "idle")
    /\ UNCHANGED <<handleVars, alive, termed, killed, monitorVars, restarts,
                   ready>>

\* <-p.done, in the select or after the kill.
StopReturn(a) ==
    /\ pc[a] \in {"stopWait", "killWait"}
    /\ done \in closed
    /\ unlock(a, IF a \in Restarters THEN "stopped" ELSE "idle")
    /\ UNCHANGED <<handleVars, alive, termed, killed, monitorVars, restarts,
                   ready>>

CountRestart(r) ==
    /\ pc[r] = "stopped"
    /\ goto(r, "startLock")
    /\ restarts' = restarts + 1
    /\ UNCHANGED <<mu, handleVars, alive, termed, killed, monitorVars, ready>>

-----------------------------------------------------------------------------
(* start: p.stdin is replaced before cmd.Start is tried, the rest after.   *)

\* Mutant: start does not make a new done channel.
StartOk_SameDone(r) ==
    /\ pc[r] = "startLock"
    /\ locked(r, "idle")
    /\ spawned' = spawned + 1
    /\ cmd' = spawned'
    /\ stdin' = spawned'
    /\ alive' = alive \cup {spawned'}
    /\ waiting' = waiting \cup {spawned'}
    /\ orphans' = IF done \in closed THEN orphans ELSE orphans \cup {cmd}
    /\ UNCHANGED <<done, termed, killed, closed, closing, panicked, restarts,
                   ready>>

StartOk(r) ==
    /\ pc[r] = "startLock"
    /\ locked(r, "idle")
    /\ spawned' = spawned + 1
    /\ cmd' = spawned'
    /\ stdin' = spawned'
    /\ done' = spawned'
    /\ alive' = alive \cup {spawned'}
    /\ waiting' = waiting \cup {spawned'}
    /\ orphans' = IF done \in closed THEN orphans ELSE orphans \cup {cmd}
    /\ UNCHANGED <<termed, killed, closed, closing, panicked, restarts, ready>>

\* Mutant: p.cmd is assigned before cmd.Start is tried.
StartFails_SetsCmd(r) ==
    /\ pc[r] = "startLock"
    /\ locked(r, "idle")
    /\ stdin' = 0
    /\ cmd' = spawned + 1
    /\ UNCHANGED <<done, spawned, orphans, alive, termed, killed, monitorVars,
                   restarts, ready>>

StartFails(r) ==
    /\ pc[r] = "startLock"
    /\ locked(r, "idle")
    /\ stdin' = 0
    /\ UNCHANGED <<cmd, done, spawned, orphans, alive, termed, killed,
                   monitorVars, restarts, ready>>

-----------------------------------------------------------------------------
(* The child, and the monitor goroutine that start() spawned for it.       *)

\* A child may exit whenever it likes, signalled or not.
ChildExit(c) ==
    /\ alive' = alive \ {c}
    /\ UNCHANGED <<pc, mu, handleVars, termed, killed, monitorVars, restarts,
                   ready>>

\* Mutant: the monitor reaps the child and closes nothing.
MonitorRead_NoClose(c) ==
    /\ c \notin alive
    /\ waiting' = waiting \ {c}
    /\ UNCHANGED <<pc, mu, handleVars, alive, termed, killed, closed, closing,
                   panicked, restarts, ready>>

\* cmd.Wait returned; the operand of close(p.done) is read without p.mu.
MonitorRead(c) ==
    /\ c \notin alive
    /\ waiting' = waiting \ {c}
    /\ closing' = closing \cup {<<c, done>>}
    /\ UNCHANGED <<pc, mu, handleVars, alive, termed, killed, closed, panicked,
                   restarts, ready>>

\* Closing a closed channel panics, and a panic in a goroutine ends the wrapper.
MonitorClose(m) ==
    /\ closing' = closing \ {m}
    /\ IF m[2] \in closed
         THEN panicked' = TRUE /\ closed' = closed
         ELSE closed' = closed \cup {m[2]} /\ panicked' = panicked
    /\ UNCHANGED <<pc, mu, handleVars, alive, termed, killed, waiting, restarts,
                   ready>>

-----------------------------------------------------------------------------
(* WriteStdin holds mu while it writes to the pipe.                        *)

WriteStdin(w) == call(w, "writeLock")

WriteBegin(w) ==
    /\ pc[w] = "writeLock"
    /\ lock(w, "writing")
    /\ UNCHANGED <<handleVars, alive, termed, killed, monitorVars, restarts,
                   ready>>

\* The pipe takes the data, at once or when the child reads: never, maybe.
WriteAccepted(w) ==
    /\ pc[w] = "writing"
    /\ stdin \in alive
    /\ unlock(w, "idle")
    /\ UNCHANGED <<handleVars, alive, termed, killed, monitorVars, restarts,
                   ready>>

\* Nobody holds the read end: EPIPE, or the pipe of a command not started.
WriteFails(w) ==
    /\ pc[w] = "writing"
    /\ stdin \notin alive
    /\ unlock(w, "idle")
    /\ UNCHANGED <<handleVars, alive, termed, killed, monitorVars, restarts,
                   ready>>

-----------------------------------------------------------------------------
(* IsRunning (readyz) and Signal (control/signal) lock, act and unlock.    *)

Probe(p) == \E label \in {"isRunningLock", "signalLock"} : call(p, label)

IsRunning(p) ==
    /\ pc[p] = "isRunningLock"
    /\ locked(p, "idle")
    /\ ready' = (done \notin closed)
    /\ UNCHANGED <<handleVars, alive, termed, killed, monitorVars, restarts>>

Signal(p) ==
    /\ pc[p] = "signalLock"
    /\ locked(p, "idle")
    /\ \/ termed' = termed \cup {cmd} /\ killed' = killed
       \/ killed' = killed \cup {cmd} /\ termed' = termed
       \/ UNCHANGED <<termed, killed>>                  \* HUP, INT, USR1, USR2
    /\ UNCHANGED <<handleVars, alive, monitorVars, restarts, ready>>

-----------------------------------------------------------------------------

Stopping(a)   == StopSignal(a) \/ StopKill(a) \/ StopReturn(a)
Restarting(r) == CountRestart(r) \/ StartOk(r) \/ StartFails(r)
Writing(w)    == WriteBegin(w) \/ WriteAccepted(w) \/ WriteFails(w)
Probing(p)    == IsRunning(p) \/ Signal(p)

\* What a goroutine does once it has called a method.
Step(a) ==
    \/ a \in Restarters \cup Stoppers /\ Stopping(a)
    \/ a \in Restarters /\ Restarting(a)
    \/ a \in Writers /\ Writing(a)
    \/ a \in Probers /\ Probing(a)

InRestart == {r \in Restarters : pc[r] # "idle"}

\* The bound on restarts is one of the callers, not of the method.
Call(a) ==
    \/ /\ a \in Restarters
       /\ restarts + Cardinality(InRestart) < MaxRestarts
       /\ Restart(a)
    \/ a \in Stoppers /\ Stop(a)
    \/ a \in Writers /\ WriteStdin(a)
    \/ a \in Probers /\ Probe(a)

Children ==
    \/ \E c \in alive : ChildExit(c)
    \/ \E c \in waiting : MonitorRead(c)
    \/ \E m \in closing : MonitorClose(m)

Next == ~panicked /\ ((\E a \in Actors : Call(a) \/ Step(a)) \/ Children)

Spec == Init /\ [][Next]_vars

(* Fairness: timers fire, runnable goroutines run, SIGKILL ends a child, a *)
(* sync.Mutex is handed to every waiter in the end.  Nothing obliges a     *)
(* child to read its stdin or to obey SIGTERM.                             *)
GoroutineFairness ==
    /\ \A a \in Restarters \cup Stoppers :
          /\ SF_vars(~panicked /\ StopSignal(a))
          /\ WF_vars(~panicked /\ (StopKill(a) \/ StopReturn(a)))
    /\ \A r \in Restarters :
          /\ WF_vars(~panicked /\ CountRestart(r))
          /\ SF_vars(~panicked /\ (StartOk(r) \/ StartFails(r)))
    /\ \A w \in Writers :
          /\ SF_vars(~panicked /\ WriteBegin(w))
          /\ WF_vars(~panicked /\ WriteFails(w))
    /\ \A p \in Probers : SF_vars(~panicked /\ Probing(p))

ChildFairness ==
    /\ WF_vars(~panicked /\ \E c \in alive \cap killed : ChildExit(c))
    /\ WF_vars(~panicked /\ \E c \in waiting : MonitorRead(c))
    /\ WF_vars(~panicked /\ \E m \in closing : MonitorClose(m))

FairSpec == Spec /\ GoroutineFairness /\ ChildFairness
-----------------------------------------------------------------------------
(* Properties *)

InStop(a) == pc[a] \in {"stopWait", "killWait"}

\* Every variable has its type; processes and channels are numbered by start().
TypeOK ==
    /\ pc \in [Actors -> {"idle", "stopLock", "stopWait", "killWait", "stopped",
                          "startLock", "writeLock", "writing",
                          "isRunningLock", "signalLock"}]
    /\ mu \in Actors \cup {Free}
    /\ spawned \in Nat \ {0}
    /\ cmd \in 1 .. spawned
    /\ done \in 1 .. spawned
    /\ stdin \in 0 .. spawned
    /\ closed \subseteq 1 .. spawned
    /\ alive \subseteq 1 .. spawned
    /\ termed \subseteq 1 .. spawned
    /\ killed \subseteq 1 .. spawned
    /\ waiting \subseteq 1 .. spawned
    /\ closing \subseteq (1 .. spawned) \X (1 .. spawned)
    /\ orphans \subseteq 1 .. spawned
    /\ restarts \in Nat
    /\ ready \in BOOLEAN
    /\ panicked \in BOOLEAN

\* "Each pod runs exactly one Claude CLI instance": never two at a time,
\* whatever order the Stop and start halves of Restart are run in.
OneClaude == \A c, d \in alive : c = d

\* "done signals when the process has exited": IsRunning and readyz, which
\* look only at p.done, never deny a child that is running.
DoneMeansExited == done \in closed => cmd \notin alive

\* No monitor closes a channel that another one has closed: the wrapper, which
\* is the pod's main process, does not crash.
NoPanic == ~panicked

\* Stop "waits for the process to exit": when it returns no child is left.
StopReturnsStopped ==
    [][\A a \in Actors : InStop(a) /\ ~InStop(a)' => alive = {}]_vars

\* The child that Stop waits for and kills is the one it sent SIGTERM to: no
\* restart replaces p.cmd and p.done in the middle of a Stop.
StopTargetsOneChild ==
    [][\A a \in Actors : InStop(a) /\ InStop(a)' => <<cmd, done>>' = <<cmd, done>>]_vars

\* Whatever the number of goroutines that restart at the same time, the only
\* root of a second child, of a false exit report and of a crash is a start()
\* that replaced a child whose exit had not been signalled.
HarmNeedsOrphan == orphans = {} => OneClaude /\ DoneMeansExited /\ NoPanic

\* A Stop that was called returns: "If it doesn't exit within timeout, sends
\* SIGKILL".
StopTerminates ==
    \A s \in Stoppers : pc[s] = "stopLock" ~> (pc[s] = "idle" \/ panicked)

\* When the child exits by itself p.done is closed in the end, so that readyz
\* says so, unless a restart has replaced the child by then.
ExitIsSignalled ==
    cmd \notin alive ~> (done \in closed \/ cmd \in alive \/ panicked)

(* What the wrapper promises of its child: module ClaudeSupervision.  *)
Supervision == INSTANCE ClaudeSupervision WITH
    generation <- spawned,
    state <- IF alive # {} THEN "running"
             ELSE IF done \in closed THEN "announced" ELSE "exited"

\* Restart serves its callers one child at a time: a generation ends, its end
\* is announced, and only then does the next one begin.
ImplementsSupervision == Supervision!Spec
=============================================================================
