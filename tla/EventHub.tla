------------------------------ MODULE EventHub ------------------------------
(***************************************************************************)
(* The API's publish/subscribe hub (src/api/internal/events/hub.go) and    *)
(* the WebSocket and SSE handlers that stream its channels to clients      *)
(* (handler.go of the same package).                                       *)
(*                                                                         *)
(* A session is one GET /events request; its channel and its type filter   *)
(* are fixed by the request.  An event is known by its publisher and its   *)
(* number among that publisher's events.                                   *)
(***************************************************************************)
EXTENDS Naturals, Sequences, SequencesExt

CONSTANTS
    Publishers,     \* goroutines that call Publish
    Sessions,       \* streaming requests
    Channels,       \* "<applet>/<channel>" names
    Types,          \* event types
    Topic,          \* the channel of each session
    Filter,         \* its type filter; the empty set lets every type pass
    Capacity,       \* of a subscriber's channel (64 in the code)
    MaxEvents       \* bound: how many events each publisher publishes

ASSUME HubAssumption ==
    /\ Topic \in [Sessions -> Channels]
    /\ Filter \in [Sessions -> SUBSET Types]
    /\ Capacity \in Nat \ {0}
    /\ MaxEvents \in [Publishers -> Nat]

Events == [by : Publishers, n : Nat \ {0}]

VARIABLES
    subscribers,    \* h.subscribers; a channel without any has no entry
    published,      \* how many events each publisher has begun to publish
    targets,        \* the subscribers that Publish has not come to yet
    publishing,     \* the publishers inside Publish: they hold the read lock
    buffer,         \* sub.ch of each session
    received,       \* what was written to each client
    handler,        \* "none", "streaming", "leaving", "returned"
    client          \* "connected", or "gone"

vars == <<subscribers, published, targets, publishing, buffer, received,
          handler, client>>

Init ==
    /\ subscribers = [c \in Channels |-> {}]
    /\ published = [p \in Publishers |-> 0]
    /\ targets = [p \in Publishers |-> {}]
    /\ publishing = {}
    /\ buffer = [s \in Sessions |-> <<>>]
    /\ received = [s \in Sessions |-> <<>>]
    /\ handler = [s \in Sessions |-> "none"]
    /\ client = [s \in Sessions |-> "connected"]

-----------------------------------------------------------------------------
(* Publish: the read lock is held while the subscribers are offered the    *)
(* event one by one, in whatever order the map yields them.                *)

wants(s, type) == Filter[s] = {} \/ type \in Filter[s]

Publish(p, channel, type) ==
    /\ p \notin publishing
    /\ published[p] < MaxEvents[p]
    /\ published' = [published EXCEPT ![p] = @ + 1]
    /\ publishing' = publishing \cup {p}
    /\ targets' = [targets EXCEPT ![p] =
                      {s \in subscribers[channel] : wants(s, type)}]
    /\ UNCHANGED <<subscribers, buffer, received, handler, client>>

\* Mutant: a full buffer takes one more event.
Offer_OffByOne(p, s) ==
    /\ targets' = [targets EXCEPT ![p] = @ \ {s}]
    /\ buffer' = IF Len(buffer[s]) <= Capacity
                 THEN [buffer EXCEPT ![s] =
                          Append(@, [by |-> p, n |-> published[p]])]
                 ELSE buffer
    /\ UNCHANGED <<subscribers, published, publishing, received, handler,
                   client>>

\* Mutant: the send has no default case and waits for room.
Offer_Blocks(p, s) ==
    /\ Len(buffer[s]) < Capacity
    /\ Offer_OffByOne(p, s)

\* A send that would block is given up: the event is dropped for that session.
Offer(p, s) ==
    /\ targets' = [targets EXCEPT ![p] = @ \ {s}]
    /\ buffer' = IF Len(buffer[s]) < Capacity
                 THEN [buffer EXCEPT ![s] =
                          Append(@, [by |-> p, n |-> published[p]])]
                 ELSE buffer
    /\ UNCHANGED <<subscribers, published, publishing, received, handler,
                   client>>

Published(p) ==
    /\ p \in publishing
    /\ targets[p] = {}
    /\ publishing' = publishing \ {p}
    /\ UNCHANGED <<subscribers, published, targets, buffer, received, handler,
                   client>>

-----------------------------------------------------------------------------
(* The write lock needs every reader out.                                  *)

Subscribe(s) ==
    /\ handler[s] = "none"
    /\ publishing = {}
    /\ handler' = [handler EXCEPT ![s] = "streaming"]
    /\ subscribers' = [subscribers EXCEPT ![Topic[s]] = @ \cup {s}]
    /\ UNCHANGED <<published, targets, publishing, buffer, received, client>>

\* Mutant: Unsubscribe does not take the hub's lock.
Unsubscribe_NoLock(s) ==
    /\ handler[s] = "leaving"
    /\ handler' = [handler EXCEPT ![s] = "returned"]
    /\ subscribers' = [subscribers EXCEPT ![Topic[s]] = @ \ {s}]
    /\ UNCHANGED <<published, targets, publishing, buffer, received, client>>

\* The deferred call; it also closes sub.done, which nobody is left to read.
Unsubscribe(s) ==
    /\ handler[s] = "leaving"
    /\ publishing = {}
    /\ handler' = [handler EXCEPT ![s] = "returned"]
    /\ subscribers' = [subscribers EXCEPT ![Topic[s]] = @ \ {s}]
    /\ UNCHANGED <<published, targets, publishing, buffer, received, client>>

-----------------------------------------------------------------------------
(* The handler's loop.                                                     *)

\* Mutant: the newest event is written first, as from a stack.
Write_Newest(s) ==
    /\ handler[s] = "streaming"
    /\ buffer[s] # <<>>
    /\ buffer' = [buffer EXCEPT ![s] = Front(@)]
    /\ received' = IF client[s] = "connected"
                   THEN [received EXCEPT ![s] = Append(@, Last(buffer[s]))]
                   ELSE received
    /\ UNCHANGED <<subscribers, published, targets, publishing, handler, client>>

\* One event is written; to a client that is gone it may be written in vain.
Write(s) ==
    /\ handler[s] = "streaming"
    /\ buffer[s] # <<>>
    /\ buffer' = [buffer EXCEPT ![s] = Tail(@)]
    /\ received' = IF client[s] = "connected"
                   THEN [received EXCEPT ![s] = Append(@, Head(buffer[s]))]
                   ELSE received
    /\ UNCHANGED <<subscribers, published, targets, publishing, handler, client>>

\* Mutant: there is no keepalive, only a failed event write ends the handler.
Leave_NoPing(s) ==
    /\ handler[s] = "streaming"
    /\ client[s] = "gone"
    /\ buffer[s] # <<>>
    /\ handler' = [handler EXCEPT ![s] = "leaving"]
    /\ UNCHANGED <<subscribers, published, targets, publishing, buffer,
                   received, client>>

\* A write or a keepalive ping fails, or (SSE) the request context is done.
Leave(s) ==
    /\ handler[s] = "streaming"
    /\ client[s] = "gone"
    /\ handler' = [handler EXCEPT ![s] = "leaving"]
    /\ UNCHANGED <<subscribers, published, targets, publishing, buffer,
                   received, client>>

Disconnect(s) ==
    /\ client[s] = "connected"
    /\ client' = [client EXCEPT ![s] = "gone"]
    /\ UNCHANGED <<subscribers, published, targets, publishing, buffer,
                   received, handler>>

-----------------------------------------------------------------------------

Session(s) ==
    Subscribe(s) \/ Unsubscribe(s) \/ Write(s) \/ Leave(s) \/ Disconnect(s)

Next ==
    \/ \E p \in Publishers, c \in Channels, t \in Types : Publish(p, c, t)
    \/ \E p \in Publishers : \E s \in targets[p] : Offer(p, s)
    \/ \E p \in Publishers : Published(p)
    \/ \E s \in Sessions : Session(s)

Spec == Init /\ [][Next]_vars

(* A publisher and a handler that can go on do; a writer waiting for the   *)
(* RWMutex keeps new readers out, so that it gets it; a keepalive write to *)
(* a client that is gone fails in the end.                                 *)
FairSpec ==
    /\ Spec
    /\ \A p \in Publishers :
          WF_vars((\E s \in targets[p] : Offer(p, s)) \/ Published(p))
    /\ \A s \in Sessions :
          /\ SF_vars(Unsubscribe(s))
          /\ WF_vars(Leave(s))

-----------------------------------------------------------------------------
(* Properties *)

TypeOK ==
    /\ subscribers \in [Channels -> SUBSET Sessions]
    /\ published \in [Publishers -> Nat]
    /\ targets \in [Publishers -> SUBSET Sessions]
    /\ publishing \subseteq Publishers
    /\ \A s \in Sessions :
          /\ Len(buffer[s]) <= Capacity
          /\ ToSet(buffer[s]) \cup ToSet(received[s]) \subseteq Events
    /\ handler \in [Sessions -> {"none", "streaming", "leaving", "returned"}]
    /\ client \in [Sessions -> {"connected", "gone"}]

\* Of the events of one publisher a client sees a subsequence: in order, none
\* twice, even when several publishers interleave and some events are dropped.
PublisherOrder ==
    \A s \in Sessions :
        LET seen == received[s] \o buffer[s] IN
        \A i, j \in 1 .. Len(seen) :
            i < j /\ seen[i].by = seen[j].by => seen[i].n < seen[j].n

\* While a publisher walks over a channel's subscribers none of them is removed,
\* so that no event is offered to a session that has unsubscribed.
TargetsSubscribed ==
    \A p \in Publishers : \A s \in targets[p] : s \in subscribers[Topic[s]]

\* Publish returns although clients may read nothing.
PublishReturns == \A p \in Publishers : p \in publishing ~> p \notin publishing

\* A client that left is removed from the hub, however busy the publishers are.
GoneIsRemoved ==
    \A s \in Sessions :
        (client[s] = "gone" /\ handler[s] = "streaming") ~> handler[s] = "returned"
=============================================================================
