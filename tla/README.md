# Convocate in TLA+

TLA+ specifications of Convocate, checked with TLC; the safety properties of
every part are also proved with TLAPS. Paths are relative to `src/` of the
repository unless they begin with `SPECIFICATION.md`; the file `PROJECT.json`
maps every definition that models code to its lines, and lists the runs, the
mutants that show each property can fail, the hazards and the theorems.

## 1. The system

Convocate is a control plane for AI agents: a Go API manages the nodes of a
Kubernetes cluster and the agent pods on them; each pod runs a Go wrapper around
one Claude CLI process; a SAML/SCIM service is the identity provider in front of
OpenBao; a TypeScript desktop is the client.

```
   UI  --HTTP, SSE-->  API (api/)  --Kubernetes API-->  nodes, agent pods
                        |  |  |                               |
                        |  |  +--HTTP, WebSocket--> agent wrapper (agent/) --pipes--> Claude CLI
                        |  +--SSH--> machines to provision
                        +--HTTP--> OpenBao  <--HTTP-- saml-scim-agent/
```

| Component | State it keeps | Operations | What is hard |
|---|---|---|---|
| Process manager (`agent/process.go`) | the child, its stdin pipe, its `done` channel, one mutex | `start`, `Stop`, `Restart`, `WriteStdin`, `Signal`, `IsRunning` | HTTP handlers, timer callbacks and `main` call it at once; a monitor goroutine per child reads shared state without the lock; a child may ignore SIGTERM or never read |
| Watcher, server, shutdown (`agent/watcher.go`, `server.go`, `main.go`) | debounce timer, fsnotify events, phase of `main` | file events, restart callback, SIGTERM, drain | a timer callback is not waited for; changes during a restart; ConfigMap updates |
| Output fan-out (`agent/process.go`, `server.go`) | subscriber channels per stream, connection count | `pumpOutput`, `subscribe`, unsubscribe, stream | slow and departed clients, two pumps after a restart, pipes closed by `cmd.Wait` |
| Event hub (`api/internal/events`) | subscribers per channel, a buffered channel each | `Publish`, `Subscribe`, unsubscribe, WebSocket and SSE loops | read lock held while sending; drops; clients that vanish |
| Node manager (`api/internal/nmgr`, `k8s/nodes.go`, `k8s/provision.go`) | slice of pending nodes; the cluster's node objects | create, provision, delete, start, stop | check-then-act over several API calls, read-modify-write of node objects, goroutines that outlive the entry they work on, API restarts |
| Agent manager (`amgr`, `k8s/agents.go`) | mock list; five Kubernetes objects per agent | create, update, start, stop, delete, proxy | partial failure and races between create, start and delete of one name |
| Project lifecycle (`projects`) | none of its own; IDE, board and agent records | create, delete by internal calls | partial failure; cascade that forgets records |
| IDE, repository, support, board stores (`ide`, `repo`, `sup`, `pb`) | slices under a mutex | CRUD | IDs taken from the slice's length; read-then-write; dangling edges |
| Access control (`ac`) | users as userpass login + entity + alias; groups, in OpenBao | CRUD of users and groups, MFA | several writes without undo; read-modify-write |
| Authentication, middleware (`auth`, `middleware`) | OpenBao tokens, JWTs | login, MFA, refresh, logout, token check | token life versus what the client is told |
| Database (`db`) | schema version table | migrations at start-up | replicas starting together; crash between a migration and its record |
| SAML/SCIM agent (`saml-scim-agent`) | signing keys, entities and groups in OpenBao | key set-up, assertions, SCIM CRUD | first start of two instances; two-object users |
| UI (`ui`) | view state, one EventSource per view | rendering, event subscription | reconnects |

What makes them correct:

* **Process manager** - one Claude CLI at a time; `done` closed exactly when the
  child has exited; a Stop signals, waits for and kills one and the same child,
  and returns; no channel is closed twice (a panic ends the pod).
* **Wrapper** - a change of CLAUDE.md that is seen is loaded by a new child,
  nothing is called back after the watcher's stop, SIGTERM ends the wrapper.
* **Fan-out and hub** - in-order delivery without repetition, no sender that
  waits for a client, no subscriber left behind and none written to after it
  was removed.
* **Node manager** - the cluster keeps its minimum of Ready nodes, concurrent
  writers of a node object lose nothing, and a pending node is always somebody's
  work.
* **Agent pods** - a pod finds all it mounts, a stopped agent finds the workspace
  it left, and a delete leaves nothing.
* **Projects, boards, IDE** - a project keeps its own agent, board and files, its
  deletion is the end of its agent, an edit is not undone, a reader gets what is
  on the board, what is deleted stays deleted.
* **Accounts, sessions, sign-on** - who can log in has an entity, an update
  changes what it was asked to and nothing else of what it knows, a session ends with its user or
  its logout, all instances of the SAML/SCIM agent sign with the stored key.
* **Start of the API** - the schema is complete and in order, whoever starts
  beside whom and dies where.

## 2. The modules

| Module | Models | Composes |
|---|---|---|
| `ClaudeSupervision` | the abstract promise: generations of one child, each exits and is announced before the next | |
| `AgentProcess` | `Process` and its callers | implements `ClaudeSupervision` |
| `AgentWrapper` | watcher, HTTP handlers, `run` and `shutdown` | extends `AgentProcess` |
| `OutputFanout` | `pumpOutput` to `streamOutput`, for one stream | |
| `EventHub` | `Hub` and the streaming handlers | |
| `NodeManager` | node handlers, pending store, cluster calls | |
| `ApiRequests` | concurrent HTTP requests, each a sequence of calls that may fail | |
| `AgentLifecycle` | the abstract promise: the workspace of an agent, from its making to its deletion | |
| `AgentPods` | the agent manager's handlers and an agent's objects in the cluster | extends `ApiRequests`, implements `AgentLifecycle` |
| `ProjectBoard` | the board store and its handlers | extends `ApiRequests` |
| `Projects` | project create and delete, the IDE's projects and files | extends `AgentPods`, `ProjectBoard` |
| `Accounts` | users and groups, through access control and through SCIM | extends `ApiRequests` |
| `Sessions` | login, logout, refresh and the `Auth` middleware | extends `Accounts` |
| `SignOn` | signing keys, SAML login | extends `Sessions` |
| `Startup` | the start of the API's replicas: connections and migrations | extends `ApiRequests` |
| `Identity` | requests of all four kinds together | extends `SignOn`, `Startup` |
| `AgentProcess_proofs`, `AgentWrapper_proofs`, `OutputFanout_proofs`, `EventHub_proofs`, `NodeManager_proofs`, `Projects_proofs`, `Identity_proofs` | theorems | extend their modules |
| `SequenceOrder` | lemmas: what appending, taking and joining leave of an order along a sequence | used by `OutputFanout_proofs` and `EventHub_proofs` |
| `MC*` | values for the constants | extend their modules |

### AgentProcess

A child is numbered by the `start()` that spawned it, and so is the `done`
channel that `start()` made, so that `done = 3` reads "p.done is the channel made
for the third child". `pc` says where each goroutine is in the method it called;
`mu` is `p.mu`. A method that locks, cannot block and unlocks is one step
(`locked`); one that blocks inside, `Stop` and `WriteStdin`, keeps `mu` over
several steps (`lock` ... `unlock`). `Restart` is a `Stop`, `CountRestart` and a
`start`, with the lock free in between, exactly as in the code. The monitor
goroutine is two steps: `MonitorRead` (`cmd.Wait` returned, the operand of
`close(p.done)` is read, without the lock) and `MonitorClose`. `orphans` is a
ghost: the children that a `start()` replaced before their exit was announced.

### AgentWrapper

Adds the watcher's goroutine, its events and its timer, and the phases of
`main`. A change of the file is a *write*, whose event bears the name CLAUDE.md,
or the *swap* of a ConfigMap volume, whose event bears the name `..data`. A timer
that fires starts a `Restart` in a callback goroutine; nobody waits for it.
`stale` says that the file changed since the last child was spawned.

### OutputFanout, EventHub

Both keep the lock discipline of the code: the sender holds a read lock while it
walks over the subscribers (`targets`), one step per subscriber, and subscribing
and unsubscribing need every reader out. A pump reads a chunk (`PumpReads`) before
it takes the lock (`PumpLocks`), so that clients come and go in between. A full channel is skipped. Chunks and
events are identified by origin and number, which is all that order and
repetition need. A client that leaves is noticed by a failed write or ping.

### NodeManager

The Kubernetes mode of the handlers. The `k`-th node ever created is entry `k`
of the store, so "the first entry with this ID" is the least one; `task[k]` is the
goroutine that `create` started for it and lives on when the entry is deleted. A
request (`req`) is a sequence of steps between which anything can happen, as each
of them is a separate call: the checks of `create`, the count of Ready nodes, the
read and the write of a node object, its deletion. `current[m]` holds the clients
whose copy has the node's present resourceVersion; an `Update` by another client
is refused, and a new kubelet status invalidates every copy. `Fails` is any of
the API's errors: not found, a conflict, the request's timeout, the client gone.
`Crash` restarts the API: store, requests and goroutines are lost, the cluster
stays. A remote `kubeadm join` that completes after the API has died is not
modelled; nothing below depends on who joins when.

### ApiRequests

What the rest of the API shares. Request `r` does `op[r]`, is about to make the
call `at[r]`, and keeps in `seen[r]` what its handler has in local variables. A
call is one step: it succeeds, or it fails with or without its effect (refused,
or its answer lost or late). A handler that calls another one through
`projects.internalCall` goes on with the other's steps, in the same request, and
`Reply` brings it back. Two ghosts say what a name went through: `overlapped` has
the names on which two requests worked at once, `failed` those for which a call
failed, and `trouble` is both. No handler undoes what it has done, and none locks
a name, so that some properties promise nothing of names in one or the other; each
property says which it needs, and the rest is promised of all names.

### AgentPods

The objects of an agent are a record of who wrote each; `pod` has what the pod
mounts. `createAgent`, and `startAgent` after its look-up, make the objects in
the code's order (`CreateObject`, `CreatePod`): "already exists" is taken as
success, except for the pod. `deleteAgent` removes the pod and then the rest
(`CleanUp`), with errors logged only. The kubelet starts a pod when all it mounts
is there; a deleted claim stays, Terminating, until no pod runs in it.
`configureAgent` is the read and the write of the ConfigMap and the read of the
pod. `createProject` and `deleteProject` make and delete agents by the same
actions.

Two more ghosts name what the code lets happen to one agent with one client at a
time. `early`: a create or a start right after a delete, while the claim is still
Terminating, takes it for usable; the claim then goes, and the pod waits for ever.
`spared`: a delete whose call for the pod failed goes on and takes the other
objects from the pod, which still runs. `AgentHasItsState` excepts the claim for
the first, until a create or start meets no such claim, and the agent for the
second, until its pod is taken down; failed calls it does not except. The runs also
show that the delete of a stopped agent answers 404 although it removed everything.

### ProjectBoard, Projects

Operations of a store are one step each, because they hold its mutex throughout.
`boardMissing` is the 404 of those that name a board that is not there.
`sendCard` is two of them: it takes a copy of the card and stores it later, so that
an update in between is lost. `stale` (a ghost) has the sends whose card was
updated since they copied it, or that copied a card which such a send had already
set back; `undone` has the cards of which the last send was a stale one.
A read takes the slices (`getBoard`) and encodes them element by element
(`encode`) after the unlock, from an array that a deletion may shift in the
meantime: `array` is what the slice headers point to, `count` the length the store
sees. `seen` keeps, as a ghost, the IDs that were listed when the slices were taken.

`createProject` is IDE project, board, agent, link; only the first may fail the
request. `deleteProject` looks the project up, deletes the agent it found, and
deletes by ID. `ideUpdate` is PATCH, on either path (projects/handler.go:184 hands
the body over): a client may set the name and link any board and any agent, or
none; the fields it leaves out are `Unset`. The link at the end of `createProject`
is the same operation. The repository's name, which is stored in the same record
and read by nothing modelled here, is left out. IDs are the length of the slice
plus one, so that one may be given twice: `collided` (a ghost) collects those.
`ProjectsKeepTheirOwn` says what a PATCH and a collision may change, and that
nothing else does. Board and repository are never deleted, though the comment at
projects/handler.go:197 says that the delete cascades to them.

### Accounts, Sessions, SignOn, Startup

`Accounts` has OpenBao's tables, entities and groups by number, and every call
that `ac/store.go` and `saml-scim-agent/scim` make on them. What an error means
differs from call to call (`next` and `otherwise` of `Call`) and is translated
one by one. The metadata of an entity is replaced as a whole by each program,
with the fields it knows: `AcFields` (e-mail address and name) and `ScimFields`
(e-mail address and, as one field, `display_name`, `given_name` and
`family_name`). A SCIM request writes those it bears (`gives`). Access control
lists the groups by name, reads each (`ListGroup`, which passes over one it
cannot read), then reads each again and writes it if the user's place in it
changes. A client addresses a user by a number it has from an answer that named
the user (`Addressed`), so that the name a request bears is that user's.
`Sessions` adds the token of each login; a request that bears one looks up the
token and then its entity. `after`, part of a request, is what was over when it
began, for `OverIsOver`. `SignOn` is the agent's `LoadOrGenerateKeys`, a read
and a write of the stored key, at every start of an instance, and `ServeLogin`;
`raced` is a ghost. `Startup` is `main` up to the point where it listens: each
replica checks, runs and records each migration.

Reading these sources, four things stood out that are not stated as properties.
An update of a user by access control, even one that changes nothing but the
status, erases the names that SCIM stored (ac/store.go:411-428), and a SCIM update
erases the name that access control stored.
A SCIM user gets no alias, so that its login belongs to another entity that
OpenBao makes (`Stranger`). A SCIM update racing a delete makes the entity anew,
and a SCIM rename of a group makes another group. `handleRefresh` tells the
client that the session lasts 24 more hours but renews no token
(auth/handler.go:188).

## 3. The runs

Passing runs:

| Run | What it shows |
|---|---|
| `serial_restart` | One goroutine that restarts, and one each that stops, writes and probes; three restarts. One Claude CLI at a time, `done` closed only when the child is gone, no double close, `Stop` returns with no child left, an exit is announced in the end, and the step-by-step refinement of `ClaudeSupervision`. |
| `wrapper` | A handler and a timer callback restart, at the same time if it so happens, while CLAUDE.md is written twice and SIGTERM arrives. All that remains in general: harm needs an orphan (`HarmNeedsOrphan`), and a `Stop` never changes its target. No callback starts after the watcher's stop, a change that was seen is loaded, SIGTERM ends the wrapper even if the child ignores it. Nobody writes to stdin here, because of `blocked_stop`. |
| `event_hub` | Two publishers, two sessions on one channel, one of them filtered, buffers of two events, three events in all, so that a buffer holds two events of one publisher, or one of each, and a third finds it full. `PublisherOrder`: none is repeated or overtaken. |
| `output_fanout` | Two children whose pumps may overlap, one client that comes and goes, a channel of two chunks. |
| `nodes` | Three members, one machine to provision, two concurrent requests out of three, one node failure, one restart of the API. |
| `workspace` | Three requests, two of them at a time, and one failed call, on: one agent; a board; two projects (no failure); a project and its agent; the files of a project. `ImplementsLifecycle`: the pods refine `AgentLifecycle`, whatever overlaps or fails. `AgentHasItsState`: a pod finds what it mounts, whatever failed before, unless requests overlapped on the agent. `DeleteLeavesNothing`: a delete without failure and rival leaves no object. `DeleteTakesTheAgent`: nor does a project's. `ProjectsKeepTheirOwn`: a project keeps its agent, board and files, but for a client's PATCH and an ID given twice. `DeletedStaysDeleted`; `EditsSurvive`, but for a stale send; `ReadsOnce`, but for deletions: what a board holds and a reader gets, whatever overlaps. |
| `identity` | Three requests at a time and one failed call, on: a new user; one record; the members of groups; groups of both programs; the sessions of a user; a new user's session; signing keys; starting replicas. `LoginMeansUser`: who can log in has an entity. `OnlyWhatWasAsked`: an update by access control changes no other user, no other field that access control knows and nobody else's place in a group, unless two requests about the user overlap. `OverIsOver`: no request is admitted after its user's deletion or its session's revocation. `KeysAgree`: the instances sign with the stored key. `SchemaInOrder`: schema and migration record differ by one step at most, and a replica serves a complete schema only. |

Runs that end in a violation, each of a sentence the repository says about itself:

| Run | The disagreement |
|---|---|
| `two_claudes` | "Each pod runs exactly one Claude CLI instance" (SPECIFICATION.md:713-715). Two overlapping `Restart`s both stop the old child and both start a new one; afterwards one child is never stopped and its exit closes the other's channel. |
| `blocked_stop` | `Stop` "sends SIGKILL" if the process does not exit within the timeout (process.go:194-195). A `WriteStdin` to a child that does not read holds `p.mu`, and `Stop` never gets it: the timeout starts after the lock. |
| `config_map_update` | The wrapper "detects the change" of claudeMd (SPECIFICATION.md:670-671). A ConfigMap update raises no event with the file's base name. (In the deployed pod CLAUDE.md is a subPath mount, k8s/agents.go:245, which Kubernetes does not update at all.) |
| `output_tail` | "streams raw bytes to subscribers" (SPECIFICATION.md:422-423). `cmd.Wait` closes the pipes before the pumps have read them to the end. |
| `nodes_minimum` | "cluster must maintain at least 3 Ready nodes" (nmgr/handler.go:430, :476). Two requests count the same four nodes and leave two. |

Two further properties of `AgentWrapper`, stated in the module and not run, fail
as well: `ChangeIsLoaded`, because a change before the watch is added (main.go
starts the watcher after the process) raises no event, and `NoClaudeAfterExit`,
because a restart in flight can spawn a child after `main`'s `Stop`.

### Bounds, and why they are enough

Every bound is a CONSTANT in a guard. The goroutines differ only in the method
they call, so that two of a kind show every pairwise race: two restarters are
what `two_claudes` needs, one callback and one handler what the watcher adds.
(Two callbacks at once, which a second change can start, are covered by
`WrapperHarmNeedsOrphan` for any number of them, and not by a run.) Two restarts
of each kind let a start fall into every gap of another restart; the third in
`serial_restart` shows that a generation leaves nothing behind for the one after
the next. Buffers of two are full, empty and in between within the events the
runs send; `Capacity` is 64 in the code and occurs only in comparisons with the
length. `nodes` has the minimum at three (four in the code): the cluster starts
exactly at it, so that a single stop or failure matters, and two requests at a
time with three in all let a third one start after either of the others. In
`workspace` and `identity` the clients of one behavior use the operations of one
*workload*, those that touch the same objects; `Workloads` lists them, and
between them they hold every operation of the modules. Operations on different
objects do not interact, but for the counters of IDs. Two requests race and a
third comes before, after or between them; one call fails (`MaxFailures`), in
every place and in both ways, but for the workloads in `Reliable`; the agents in
`Leftover` and the users in `Residents` may be there from before. Three
migrations stand for five: one before, one under way, one to come. One failure
and one crash suffice for the properties, in which they only add a term or empty
the store. `CHECK_DEADLOCK FALSE` is set where the system stops legitimately:
everybody may be idle when the bounds are used up, and a wrapper that has exited
does nothing more. `nodes` and `nodes_minimum` use symmetry of the members and
of the requests, `workspace` and `identity` of the requests; their properties
are invariants, action properties and a refinement of a specification without
fairness, which symmetry preserves.

### Fairness

Assumed: a goroutine that can go on does; a `sync.Mutex` reaches every waiter in
the end (strong fairness of lock steps; Go's mutex hands over after 1 ms of
starvation); a waiting writer of a `RWMutex` keeps new readers out (strong
fairness of unsubscribing); timers fire; a killed child exits; a keepalive write
to a client that is gone fails in the end. Not assumed: that the hub's handler
ever writes an event to its client, that a child reads its stdin, obeys SIGTERM
or exits by itself, that a file changes, that a client reads, sends or leaves,
that SIGTERM arrives. For the node manager there is no fairness at all, and no
liveness: a provisioning script runs over SSH without an overall timeout
(k8s/ssh.go:91), so that a pending node may legitimately stay pending for ever.
What is shown instead is the safety half, `PendingIsWorkedOn`. Nor is there any
for `workspace` and `identity`: every request is a bounded sequence of calls,
and what could wait for ever, an update with no answer, the properties do not
depend on.

## 4. What is proved

Every invariant, action property and refinement of the passing runs is a theorem,
for every value of the constants that satisfies the stated assumptions (five of
those of `serial_restart` under `SerialRestarts`, see below). The proofs follow
one pattern: an inductive invariant, a lemma for each handler or group of
handlers, and a last step that puts them together with PTL.

**AgentProcess** (`AgentProcess_proofs`), for any sets of goroutines and any
number of restarts.

* `TypeCorrect`, by cases on the actions.
* `HarmNeedsOrphanHolds`. The property says nothing about monitors that have read
  `p.done` and not yet closed it, so it is not inductive. The invariant is
  `IInv == TypeOK /\ Newest /\ InOrder`: the handles designate the last child,
  and, as long as there is no orphan, exit, reaping, reading and closing of the
  last child happen in that order. `OrderedActions` first reduces the step to the
  four actions that touch the variables of the invariant.
* `StopTargetsOneChildHolds`, from `Mutex`: whoever blocks inside a method holds
  `p.mu`, and `start` needs it.
* `OneClaudeWhenSerial`, `DoneMeansExitedWhenSerial`, `NoPanicWhenSerial`,
  `StopReturnsStoppedWhenSerial`, under the assumption `SerialRestarts` that one
  goroutine restarts: `StoppedBeforeStart` (between its `Stop` and its `start`
  the channel is closed) excludes orphans, and the rest is `HarmNeedsOrphan`.
* `ImplementsSupervisionWhenSerial`: under the same assumption each step is a
  step of `ClaudeSupervision` or a stutter.

The assumption is what `two_claudes` violates; the theorems say that serialising
`Restart` is a sufficient repair.

**NodeManager** (`NodeManager_proofs`), for any cluster, requests and bounds.

* `NodesTypeCorrect`, in four parts (store, requests, objects, bounds), so that an
  action is looked at only for the part it changes.
* `NoLostUpdateHolds`, from `Fresh`: a copy whose resourceVersion is current *is*
  the node. `Reading` (only clients between read and write have a current copy)
  makes it inductive.
* `ReadyFloorHolds`: K concurrent requests leave at least `minReadyNodes - K`
  Ready nodes, apart from nodes that failed. The number itself is not inductive:
  a request that has counted has not yet taken its node. `SafeFloor` counts the
  Ready nodes that no request past its check is about to take; a count
  establishes it afresh, since at most one node per request is being taken.
* `KeepsMinimumWhenSerial`: with one request at a time the rule the refusal
  message states does hold. `nodes_minimum` shows that two break it.
* `PendingIsWorkedOnHolds`, from `UniqueIds`: an ID that was not created while in
  use belongs to one entry, so that whoever settles or deletes by ID settles that
  one. The exception (`collided`) is what length-based IDs make necessary.

**AgentWrapper** (`AgentWrapper_proofs`), for any handlers, callbacks and changes.

* `WrapperMoves`: each step of the wrapper is one of `AgentProcess`'s, or the call
  of a method by one of its actors, or leaves the process alone. So
  `WrapperHarmNeedsOrphan` and `WrapperStopTargetsOneChild` need no new
  invariant: `IInv` and `Mutex` carry over.
* `NoCallbackAfterStopHolds` and `WrapperTypeCorrect`, from `TimerWatched`: the
  timer is armed only while the watcher's goroutine runs.

**EventHub** and **OutputFanout** (`EventHub_proofs`, `OutputFanout_proofs`), for any
publishers or children, sessions, filters and capacities. Both lean on
`SequenceOrder`, whose `Ordered(R, s)` says that any two places of `s` are related.

* `PublisherOrderHolds`, `ChunksInOrderHolds`: what a client received, followed by
  its buffer, is in order (`InOrder`). For a send to keep that, nothing there may
  be newer than the publisher's count, and what it is about to send must not be
  there yet: `Numbered`.
* `TargetsSubscribedHolds`: whoever has targets left is inside `Publish`
  (`Offering`), hence holds the read lock that keeps `Unsubscribe` out.
* `ConnectionsCountedHolds`, over `Subscribed` (a handler is subscribed from its
  `Subscribe` to its `Unsubscribe`); the number counted changes by one at a time.
* `HubTypeCorrect`, `FanoutTypeCorrect`: in particular no buffer exceeds its capacity.

**AgentPods, ProjectBoard, Projects** (`Projects_proofs`), for any names, paths,
operations, requests and failures. `RInv` says of each request at which calls its
operation can be and what it has in `seen` there, and `Alone` that two requests at
work on one name have it in `overlapped`: with them one can reason about one request.

* `AgentsImplementLifecycle`: each step on an agent's objects is a step of
  `AgentLifecycle` or none, from `Mounts` (a pod runs in the claim that is there).
* `PodsFindTheirState`, `DeleteIsComplete`: `Undisturbed` says, of each agent no two
  requests worked on at once, that its pod has its state, and for each call of a
  create, start or delete which objects are there already (`Counts`), that the pod
  is down or spared (`Felled`) and, if no call failed, what is gone already (`Took`).
  Failed calls are among the steps of the first, as a create that stopped
  half way leaves no pod.
* `DeletesTakeTheAgent`: `Took` again, for a `deleteProject` whose agent has answered.
* `ProjectsStayApart`: `Own` (an ID that was not given twice says whose the project
  is, also for the requests that have made a project and not yet linked it; any
  other agent is of a project with that ID, or was asked for) and `BoardsApart` (a board
  that no PATCH asked for is linked once).
* `DeletedIsGone`: `Ids`, an ID below the counter is on one board at one place, or
  deleted. The proof has to follow the slices, as a delete moves what is behind it.
* `UpdatesSurvive`: `Texted` (the text of a card is the last one written, or the card is
  undone) and `Sends` (the copy of a send is good unless the send is stale).
  `ReadsListOnce`: `Reads`, by which what a reader took and nobody deleted is still
  in front of the board, in its order, and what is encoded is the same so far.
* `ProjectsTypeCorrect`, whose counters need `Counting`: what the requests under
  way may still add is part of the bound.

**Accounts, Sessions, SignOn, Startup** (`Identity_proofs`), for any users, groups,
instances, replicas, migrations and operations. `RequestsInv` says at which calls
each operation can be; by it a step of one part leaves the others alone.

* `MigrationsInOrder`: `Behind(k)`, with k migrations recorded, also says what each
  replica between its calls counts on: the number it is at is k + 1 at most, and
  what it is about to record has been run.
* `InstancesAgree`: who is about to write a key has read none that decodes.
* `EndedSessions`: `Deleting` (the number a delete bears is of the entity it found, and
  when it has answered that entry is empty), `Revoked` (a token once revoked does
  not come back) and `Bearing` (what was over when a request began still is).
  Underneath, `Grows`: a number is never given again.
* `UpdatesStayApart`, by the two calls that write, from `ReadInv`: what an update read
  of the user's metadata is what there is, unless two requests worked on the user.
  It needs `LoginInv` below, as a request must be about the user whose entity it
  writes.
* `LoginsHaveUsers`: `LoginInv` says that of a name not in trouble one request at
  most is at work, that its login has an entity or is about to get it (access
  control makes the login first), and what the request relies on at its next call
  (`Holds`): SCIM makes the login after the entity, enabling a user needs one, and
  a delete has taken the login away. That numbers belong to names (`Course`) is
  what makes a delete by number and an update by name agree.

The assumptions are on the constants, stated in the modules and evaluated by TLC
in every run: sets of clients are finite where they are counted (`Sessions`, of the
streams), `main` is not a handler that restarts, `Nothing` differs from what it may
stand in for (`NothingAssumption`, `EntityAssumption`, `SessionAssumption`), the paths
of a project are more than the one it is created with, and the operations of the
workloads have the fields their handlers read (`OperationsAssumption`,
`OperationAssumption`). None restricts what clients do at once or what fails.

Only model-checked: liveness (`ExitIsSignalled`, `SeenChangeIsLoaded`,
`ShutdownCompletes`, `PublishReturns`, `GoneIsRemoved`, `PumpEnds`), because fairness
and ENABLED are beyond the prover.

## 5. Not modelled

* Mock mode of the node and agent managers, node metrics and notes, the location
  and tag update of a pending node, the pods of a drained node, and how join
  credentials are made.
* Flags (never changed by a caller), byte counters, log lines, WebSocket framing,
  JSON, and the wording of answers.
* Of agents: the mock store, the proxies to the wrapper, list and get, a pod that
  ended by itself (start answers 409 for it).
* Of projects: the name of the repository in the record (`repoId`).
* Of boards: what an edge connects, the layout of cards, and an append that moves
  the array (then a reader keeps the old one, which is harmless).
* Of accounts and sessions: the roles of groups, settings, the second factor
  (`MFA`, `TOTP`), the roles a principal gets, and lists: each is one call, or a
  conversion of one answer. That access control "disables" a user by deleting the
  login alone is modelled; that the user list then no longer shows the user is not.
* Of SAML: XML, signatures and metadata; who verifies an assertion is
  represented by the key it needs.
* Two replicas of the API have each their own boards, projects and pending nodes,
  as these are in memory; the models are of one process. Only `Startup` has
  several, since PostgreSQL is what they share.
* Repositories, tickets, status and LLM decomposition keep lists under a lock, or
  nothing; the user interface renders; the rest is encoding, provisioning and text.
  `PROJECT.json` gives the reason for each component.

## 6. Plan

Every safety property that a run checks has its theorem. What is left:

1. Sufficient repairs, as `SerialRestarts` is one for the process manager: that
   with serial requests no ID is given twice (`collided` stays empty), and that one
   first start at a time keeps `raced` FALSE.
2. What `overlapped` excuses, overlap by overlap: which of the states that two
   requests leave (a workspace without agent, a pod without ConfigMap) can follow which
   pair of operations.
3. The safety halves of the liveness properties: who waits for `p.mu` waits for an
   actor that can move, unless a `WriteStdin` is blocked.
