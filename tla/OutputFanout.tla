---------------------------- MODULE OutputFanout ----------------------------
(***************************************************************************)
(* The output of Claude CLI on its way to WebSocket clients: pumpOutput    *)
(* and subscribe of src/agent/process.go, streamOutput of server.go.       *)
(*                                                                         *)
(* One of the two streams, stdout or stderr: they share subMu and nothing  *)
(* else.  A chunk is what one Read returns, known by its child and its     *)
(* number.  Children follow one another as the restarts of AgentProcess do *)
(* when they are not concurrent; the pump of an old child is not awaited.  *)
(***************************************************************************)
EXTENDS Naturals, Sequences, FiniteSets, SequencesExt

CONSTANTS
    Sessions,       \* GET /stdout requests
    Capacity,       \* of a subscriber's channel (64 in the code)
    MaxChildren,    \* bound: how many children are spawned
    MaxChunks       \* bound: how many chunks each of them writes

ASSUME FanoutAssumption ==
    /\ IsFiniteSet(Sessions)
    /\ Capacity \in Nat \ {0} /\ MaxChildren \in Nat \ {0} /\ MaxChunks \in Nat

Child == 1 .. MaxChildren
Chunk == [child : Child, n : 1 .. MaxChunks]

VARIABLES
    spawned,        \* how many children were spawned
    alive,          \* the last child is running
    wrote,          \* how many chunks each child wrote to its pipe
    read,           \* how many of them its pump read
    pipeOpen,       \* the children whose pipe can still be read
    pump,           \* "none", "reading", "holding" (a chunk), "fanning" (with
                    \* subMu read-locked), "returned"
    targets,        \* the subscribers a pump has not come to yet
    subs,           \* p.stdoutSubs
    active,         \* metrics.ActiveConnections
    handler,        \* "none", "counting", "streaming", "leaving", "returned"
    client,         \* "connected" or "gone"
    buffer,         \* each subscriber's channel
    received        \* what was written to each client

childVars   == <<spawned, alive, wrote, pipeOpen>>
sessionVars == <<subs, active, handler, client>>
vars == <<childVars, read, pump, targets, sessionVars, buffer, received>>

Init ==
    /\ spawned = 1 /\ alive = TRUE
    /\ wrote = [c \in Child |-> 0]
    /\ read = [c \in Child |-> 0]
    /\ pipeOpen = {1}
    /\ pump = [c \in Child |-> IF c = 1 THEN "reading" ELSE "none"]
    /\ targets = [c \in Child |-> {}]
    /\ subs = {} /\ active = 0
    /\ handler = [s \in Sessions |-> "none"]
    /\ client = [s \in Sessions |-> "connected"]
    /\ buffer = [s \in Sessions |-> <<>>]
    /\ received = [s \in Sessions |-> <<>>]

-----------------------------------------------------------------------------
(* The children. *)

ChildWrites ==
    /\ alive
    /\ wrote[spawned] < MaxChunks
    /\ wrote' = [wrote EXCEPT ![spawned] = @ + 1]
    /\ UNCHANGED <<spawned, alive, pipeOpen, read, pump, targets, sessionVars,
                   buffer, received>>

ChildExits ==
    /\ alive
    /\ alive' = FALSE
    /\ UNCHANGED <<spawned, wrote, pipeOpen, read, pump, targets, sessionVars,
                   buffer, received>>

\* cmd.Wait, in the monitor goroutine: as soon as the child has exited it closes
\* the wrapper's end of the pipes, read to the end or not.
Reap ==
    /\ ~alive
    /\ spawned \in pipeOpen
    /\ pipeOpen' = pipeOpen \ {spawned}
    /\ UNCHANGED <<spawned, alive, wrote, read, pump, targets, sessionVars,
                   buffer, received>>

\* A restart, after Stop has seen the exit of the previous child.
Respawn ==
    /\ ~alive
    /\ spawned \notin pipeOpen
    /\ spawned < MaxChildren
    /\ spawned' = spawned + 1
    /\ alive' = TRUE
    /\ pipeOpen' = pipeOpen \cup {spawned'}
    /\ pump' = [pump EXCEPT ![spawned'] = "reading"]
    /\ UNCHANGED <<wrote, read, targets, sessionVars, buffer, received>>

-----------------------------------------------------------------------------
(* pumpOutput: one goroutine for each child.                               *)

fanning == {c \in Child : pump[c] = "fanning"}

\* Read returns a chunk.
PumpReads(c) ==
    /\ pump[c] = "reading"
    /\ c \in pipeOpen
    /\ read[c] < wrote[c]
    /\ read' = [read EXCEPT ![c] = @ + 1]
    /\ pump' = [pump EXCEPT ![c] = "holding"]
    /\ UNCHANGED <<childVars, targets, sessionVars, buffer, received>>

\* subMu is read-locked, and the subscribers there are now are gone through.
PumpLocks(c) ==
    /\ pump[c] = "holding"
    /\ pump' = [pump EXCEPT ![c] = "fanning"]
    /\ targets' = [targets EXCEPT ![c] = subs]
    /\ UNCHANGED <<childVars, read, sessionVars, buffer, received>>

\* Mutant: a full channel takes one more chunk.
PumpSends_OffByOne(c, s) ==
    /\ targets' = [targets EXCEPT ![c] = @ \ {s}]
    /\ buffer' = IF Len(buffer[s]) <= Capacity
                 THEN [buffer EXCEPT ![s] =
                          Append(@, [child |-> c, n |-> read[c]])]
                 ELSE buffer
    /\ UNCHANGED <<childVars, read, pump, sessionVars, received>>

\* Mutant: the send waits for room.
PumpSends_Blocks(c, s) ==
    /\ Len(buffer[s]) < Capacity
    /\ PumpSends_OffByOne(c, s)

\* A full channel is skipped.
PumpSends(c, s) ==
    /\ targets' = [targets EXCEPT ![c] = @ \ {s}]
    /\ buffer' = IF Len(buffer[s]) < Capacity
                 THEN [buffer EXCEPT ![s] =
                          Append(@, [child |-> c, n |-> read[c]])]
                 ELSE buffer
    /\ UNCHANGED <<childVars, read, pump, sessionVars, received>>

PumpLoops(c) ==
    /\ pump[c] = "fanning"
    /\ targets[c] = {}
    /\ pump' = [pump EXCEPT ![c] = "reading"]
    /\ UNCHANGED <<childVars, read, targets, sessionVars, buffer, received>>

\* End of file once the child has exited and all was read; an error once the
\* pipe is closed.
PumpReturns(c) ==
    /\ pump[c] = "reading"
    /\ \/ c \notin pipeOpen
       \/ c = spawned /\ ~alive /\ read[c] = wrote[c]
    /\ pump' = [pump EXCEPT ![c] = "returned"]
    /\ UNCHANGED <<childVars, read, targets, sessionVars, buffer, received>>

-----------------------------------------------------------------------------
(* subscribe, unsubscribe and streamOutput.                                *)

Subscribe(s) ==
    /\ handler[s] = "none"
    /\ fanning = {}
    /\ subs' = subs \cup {s}
    /\ handler' = [handler EXCEPT ![s] = "counting"]
    /\ UNCHANGED <<childVars, read, pump, targets, active, client, buffer,
                   received>>

\* The connection is counted after subMu is released.
CountConnection(s) ==
    /\ handler[s] = "counting"
    /\ active' = active + 1
    /\ handler' = [handler EXCEPT ![s] = "streaming"]
    /\ UNCHANGED <<childVars, read, pump, targets, subs, client, buffer,
                   received>>

\* Mutant: the connection is not discounted.
Unsubscribe_NoCount(s) ==
    /\ handler[s] = "leaving"
    /\ fanning = {}
    /\ subs' = subs \ {s}
    /\ handler' = [handler EXCEPT ![s] = "returned"]
    /\ UNCHANGED <<childVars, read, pump, targets, active, client, buffer,
                   received>>

Unsubscribe(s) ==
    /\ handler[s] = "leaving"
    /\ fanning = {}
    /\ subs' = subs \ {s}
    /\ active' = active - 1
    /\ handler' = [handler EXCEPT ![s] = "returned"]
    /\ UNCHANGED <<childVars, read, pump, targets, client, buffer, received>>

\* Mutant: the last chunk of the channel is written first.
Write_Last(s) ==
    /\ handler[s] = "streaming"
    /\ buffer[s] # <<>>
    /\ buffer' = [buffer EXCEPT ![s] = Front(@)]
    /\ received' = [received EXCEPT ![s] = Append(@, Last(buffer[s]))]
    /\ UNCHANGED <<childVars, read, pump, targets, sessionVars>>

Write(s) ==
    /\ handler[s] = "streaming"
    /\ buffer[s] # <<>>
    /\ buffer' = [buffer EXCEPT ![s] = Tail(@)]
    /\ received' = IF client[s] = "connected"
                   THEN [received EXCEPT ![s] = Append(@, Head(buffer[s]))]
                   ELSE received
    /\ UNCHANGED <<childVars, read, pump, targets, sessionVars>>

\* Mutant: there is no ping, only a failed frame ends the handler.
Leave_NoPing(s) ==
    /\ handler[s] = "streaming"
    /\ client[s] = "gone"
    /\ buffer[s] # <<>>
    /\ handler' = [handler EXCEPT ![s] = "leaving"]
    /\ UNCHANGED <<childVars, read, pump, targets, subs, active, client, buffer,
                   received>>

\* wsWriteFrame or wsWritePing fails.
Leave(s) ==
    /\ handler[s] = "streaming"
    /\ client[s] = "gone"
    /\ handler' = [handler EXCEPT ![s] = "leaving"]
    /\ UNCHANGED <<childVars, read, pump, targets, subs, active, client, buffer,
                   received>>

Disconnect(s) ==
    /\ client[s] = "connected"
    /\ client' = [client EXCEPT ![s] = "gone"]
    /\ UNCHANGED <<childVars, read, pump, targets, subs, active, handler, buffer,
                   received>>

-----------------------------------------------------------------------------

Pumping(c) ==
    \/ PumpReads(c) \/ PumpLocks(c) \/ PumpLoops(c) \/ PumpReturns(c)
    \/ \E s \in targets[c] : PumpSends(c, s)

Streaming(s) ==
    \/ Subscribe(s) \/ CountConnection(s) \/ Unsubscribe(s)
    \/ Write(s) \/ Leave(s) \/ Disconnect(s)

Next ==
    \/ ChildWrites \/ ChildExits \/ Reap \/ Respawn
    \/ \E c \in Child : Pumping(c)
    \/ \E s \in Sessions : Streaming(s)

Spec == Init /\ [][Next]_vars

(* Goroutines that can go on do, the RWMutex lets its writers in, and a    *)
(* ping to a client that is gone fails in the end.                         *)
FairSpec ==
    /\ Spec
    /\ WF_vars(Reap)
    /\ \A c \in Child : WF_vars(Pumping(c))
    /\ \A s \in Sessions :
          /\ SF_vars(Unsubscribe(s))
          /\ WF_vars(CountConnection(s))
          /\ WF_vars(Write(s))
          /\ WF_vars(Leave(s))

-----------------------------------------------------------------------------
(* Properties *)

TypeOK ==
    /\ spawned \in Child /\ alive \in BOOLEAN /\ pipeOpen \subseteq Child
    /\ wrote \in [Child -> 0 .. MaxChunks] /\ read \in [Child -> 0 .. MaxChunks]
    /\ pump \in [Child -> {"none", "reading", "holding", "fanning", "returned"}]
    /\ targets \in [Child -> SUBSET Sessions]
    /\ subs \subseteq Sessions /\ active \in 0 .. Cardinality(Sessions)
    /\ handler \in [Sessions -> {"none", "counting", "streaming", "leaving",
                                 "returned"}]
    /\ client \in [Sessions -> {"connected", "gone"}]
    /\ \A s \in Sessions :
          /\ Len(buffer[s]) <= Capacity
          /\ ToSet(buffer[s]) \cup ToSet(received[s]) \subseteq Chunk

\* A client sees a subsequence of what each child wrote: in order, nothing twice,
\* across restarts and although the pumps of two children may run at once.
ChunksInOrder ==
    \A s \in Sessions :
        LET seen == received[s] \o buffer[s] IN
        \A i, j \in 1 .. Len(seen) :
            i < j /\ seen[i].child = seen[j].child => seen[i].n < seen[j].n

\* activeConnections never counts more subscribers than there are, and differs
\* from their number only while one of them is between Subscribe and its count.
ConnectionsCounted ==
    active = Cardinality({s \in subs : handler[s] # "counting"})

\* A child that has exited keeps no goroutine: its pump returns, although clients
\* may read nothing.
PumpEnds ==
    \A c \in Child :
        (c \notin pipeOpen /\ pump[c] # "none") ~> pump[c] = "returned"

\* A client that left is removed from the fan-out.
GoneIsRemoved ==
    \A s \in Sessions :
        (client[s] = "gone" /\ handler[s] = "streaming") ~> s \notin subs

\* "Wrapper reads the shell's stdout and streams raw bytes to subscribers": a
\* pump returns only when it has read all that its child wrote.
AllOutputRead == \A c \in Child : pump[c] = "returned" => read[c] = wrote[c]
=============================================================================
