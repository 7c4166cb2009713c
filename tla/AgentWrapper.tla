---------------------------- MODULE AgentWrapper ----------------------------
(***************************************************************************)
(* The agent wrapper around its process manager: the CLAUDE.md watcher of  *)
(* src/agent/watcher.go with its debounce timer, the HTTP handlers that    *)
(* call Process (server.go), and run and shutdown of main.go.              *)
(*                                                                         *)
(* The goroutines of AgentProcess are: the HTTP handlers, the timer        *)
(* callbacks (both restart the child), and main, which stops it.           *)
(***************************************************************************)
EXTENDS AgentProcess

CONSTANTS
    Callbacks,      \* the restarters that are debounce timer callbacks
    main,           \* the goroutine of main(), the only stopper
    Changes,        \* how CLAUDE.md gets changed: see FileChange
    MaxChanges      \* bound: how many times it is changed

ASSUME CallbacksAssumption == Callbacks \subseteq Restarters
ASSUME MainAssumption == Stoppers = {main} /\ main \notin Restarters
ASSUME ChangesAssumption ==
    Changes \subseteq {"write", "swap"} /\ MaxChanges \in Nat

Handlers == Actors \ (Callbacks \cup Stoppers)

VARIABLES
    phase,      \* where main is: "serving", "stopping", "draining", "exited"
    watcher,    \* the watcher goroutine: "starting", "watching", "stopped"
    pending,    \* base names of the fsnotify events not yet received
    timer,      \* the debounce timer is armed
    changes,    \* how many times the file was changed
    stale       \* the file changed since the last child was spawned

wrapperVars == <<phase, watcher, pending, timer, changes, stale>>
allVars == <<vars, wrapperVars>>

WInit ==
    /\ Init
    /\ phase = "serving" /\ watcher = "starting"
    /\ pending = {} /\ timer = FALSE
    /\ changes = 0 /\ stale = FALSE

-----------------------------------------------------------------------------
(* The watched directory and the watcher goroutine.                        *)

\* Writing the file raises an event that bears its name; the kubelet's update of
\* a ConfigMap volume swaps the symlink ..data and raises events for that name.
eventName(kind) == IF kind = "write" THEN "CLAUDE.md" ELSE "..data"

\* An inotify watch reports nothing of what happened before it was added.
FileChange(kind) ==
    /\ changes < MaxChanges
    /\ changes' = changes + 1
    /\ stale' = TRUE
    /\ pending' = IF watcher = "watching" THEN pending \cup {eventName(kind)}
                  ELSE pending
    /\ UNCHANGED <<vars, phase, watcher, timer>>

\* fsnotify.NewWatcher or watcher.Add, each of which may fail.
WatcherStart ==
    /\ watcher = "starting"
    /\ watcher' \in {"watching", "stopped"}
    /\ UNCHANGED <<vars, phase, pending, timer, changes, stale>>

\* Mutant: the name filter is inverted.
WatcherEvent_Inverted(name) ==
    /\ watcher = "watching"
    /\ pending' = pending \ {name}
    /\ timer' = (timer \/ name # "CLAUDE.md")
    /\ UNCHANGED <<vars, phase, watcher, changes, stale>>

\* An event for another name is dropped; one for the file restarts the timer.
WatcherEvent(name) ==
    /\ watcher = "watching"
    /\ pending' = pending \ {name}
    /\ timer' = (timer \/ name = "CLAUDE.md")
    /\ UNCHANGED <<vars, phase, watcher, changes, stale>>

\* The timer runs its callback, which restarts Claude CLI, in a new goroutine.
TimerFires ==
    /\ timer
    /\ timer' = FALSE
    /\ \E c \in Callbacks : Restart(c)
    /\ UNCHANGED <<phase, watcher, pending, changes, stale>>

\* Mutant: the timer is left armed when the watcher returns.
WatcherStops_LeavesTimer ==
    /\ watcher = "watching"
    /\ phase # "serving"
    /\ watcher' = "stopped"
    /\ UNCHANGED <<vars, phase, pending, timer, changes, stale>>

\* <-w.stop, closed by Watcher.Stop; a callback that runs is not waited for.
WatcherStops ==
    /\ watcher = "watching"
    /\ phase # "serving"
    /\ watcher' = "stopped"
    /\ timer' = FALSE
    /\ UNCHANGED <<vars, phase, pending, changes, stale>>

-----------------------------------------------------------------------------
(* HTTP requests, and the methods of Process that are under way.           *)

\* Requests are accepted until httpServer.Shutdown, thus also during the Stop.
Request ==
    /\ phase \in {"serving", "stopping"}
    /\ \E a \in Handlers : Call(a)
    /\ UNCHANGED wrapperVars

\* A child reads CLAUDE.md when it is spawned.
ProcessDoes(A) ==
    /\ A
    /\ stale' = (stale /\ spawned' = spawned)
    /\ UNCHANGED <<phase, watcher, pending, timer, changes>>

ProcessStep == ProcessDoes((\E a \in Actors : Step(a)) \/ Children)

-----------------------------------------------------------------------------
(* run after the signal, and shutdown.                                     *)

\* watcher.Stop() closes its channel and proc.Stop is called.
SigTerm ==
    /\ phase = "serving"
    /\ phase' = "stopping"
    /\ Stop(main)
    /\ UNCHANGED <<watcher, pending, timer, changes, stale>>

\* proc.Stop returned; httpServer.Shutdown closes the listeners.
Drain ==
    /\ phase = "stopping"
    /\ pc[main] = "idle"
    /\ phase' = "draining"
    /\ UNCHANGED <<vars, watcher, pending, timer, changes, stale>>

\* Shutdown waits for the handlers, but for five seconds only; main returns.
Exit ==
    /\ phase = "draining"
    /\ phase' = "exited"
    /\ UNCHANGED <<vars, watcher, pending, timer, changes, stale>>

-----------------------------------------------------------------------------

Watching ==
    \/ WatcherStart
    \/ \E name \in pending : WatcherEvent(name)
    \/ TimerFires
    \/ WatcherStops

WNext ==
    /\ phase # "exited" /\ ~panicked
    /\ \/ \E kind \in Changes : FileChange(kind)
       \/ Watching
       \/ Request
       \/ ProcessStep
       \/ SigTerm \/ Drain \/ Exit

WSpec == WInit /\ [][WNext]_allVars

(* The fairness of AgentProcess while the wrapper runs; besides, its       *)
(* watcher and main goroutines run and its timers fire.  Nothing obliges   *)
(* the file to change or SIGTERM to arrive.                                *)
Running(A) == phase # "exited" /\ ~panicked /\ A

Doing(A) == phase # "exited" /\ ~panicked /\ ProcessDoes(A)

WFairSpec ==
    /\ WSpec
    /\ \A a \in Restarters \cup Stoppers : SF_allVars(Doing(Step(a)))
    /\ \A w \in Writers : /\ SF_allVars(Doing(WriteBegin(w)))
                          /\ WF_allVars(Doing(WriteFails(w)))
    /\ \A p \in Probers : SF_allVars(Doing(Probing(p)))
    /\ WF_allVars(Doing(\E c \in alive \cap killed : ChildExit(c)))
    /\ WF_allVars(Doing(\E c \in waiting : MonitorRead(c)))
    /\ WF_allVars(Doing(\E m \in closing : MonitorClose(m)))
    /\ WF_allVars(Running(WatcherStart))
    /\ WF_allVars(Running(\E name \in pending : WatcherEvent(name)))
    /\ WF_allVars(Running(TimerFires))
    /\ WF_allVars(Running(WatcherStops))
    /\ WF_allVars(Running(Drain \/ Exit))

-----------------------------------------------------------------------------
(* Properties *)

\* The wrapper's own variables have their types, besides TypeOK.
WTypeOK ==
    /\ TypeOK
    /\ phase \in {"serving", "stopping", "draining", "exited"}
    /\ watcher \in {"starting", "watching", "stopped"}
    /\ pending \subseteq {"CLAUDE.md", "..data"}
    /\ timer \in BOOLEAN
    /\ changes \in 0 .. MaxChanges
    /\ stale \in BOOLEAN

\* Once its goroutine has received the stop, the watcher calls nothing back: a
\* timer armed before is disarmed, not left to fire during the shutdown.
NoCallbackAfterStop ==
    [][watcher = "stopped" =>
         \A c \in Callbacks : pc[c] = "idle" => pc'[c] = "idle"]_allVars

Loaded == ~stale \/ stdin = 0 \/ phase # "serving" \/ panicked

\* "wrapper detects the change and restarts Claude CLI": a change that raised an
\* event in the watched directory is loaded by a new child, however it falls
\* between the steps of a restart already under way, unless the new child cannot
\* be started, or the wrapper is told to stop or crashes first.
SeenChangeIsLoaded == (stale /\ pending # {}) ~> Loaded

\* The same of every change, seen or not, unless there is no watcher.
ChangeIsLoaded == stale ~> (Loaded \/ watcher = "stopped")

\* SIGTERM ends the wrapper, whatever restarts and probes are under way.
ShutdownCompletes == phase = "stopping" ~> (phase = "exited" \/ panicked)

\* "Forwards SIGTERM to the Claude CLI shell process.  Waits for Claude CLI to
\* exit": no child is left running when the wrapper exits.
NoClaudeAfterExit == phase = "exited" => alive = {}
=============================================================================
