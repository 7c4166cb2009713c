------------------------- MODULE OutputFanout_proofs -------------------------
(***************************************************************************)
(* Theorems about OutputFanout, for any sessions and any number of         *)
(* children and chunks.                                                    *)
(***************************************************************************)
EXTENDS OutputFanout, SequenceOrder, FiniteSetTheorems

ChildType ==
    /\ spawned \in Child /\ alive \in BOOLEAN /\ pipeOpen \subseteq Child
    /\ wrote \in [Child -> 0 .. MaxChunks] /\ read \in [Child -> 0 .. MaxChunks]
    /\ pump \in [Child -> {"none", "reading", "holding", "fanning", "returned"}]

SessionType ==
    /\ targets \in [Child -> SUBSET Sessions]
    /\ subs \subseteq Sessions
    /\ handler \in [Sessions -> {"none", "counting", "streaming", "leaving", "returned"}]
    /\ client \in [Sessions -> {"connected", "gone"}]

BufferType ==
    /\ buffer \in [Sessions -> Seq(Chunk)] /\ received \in [Sessions -> Seq(Chunk)]
    /\ \A s \in Sessions : Len(buffer[s]) <= Capacity

\* A pump goes through subscribers with a chunk that it has read; there is none
\* before its child is spawned.
Fanning ==
    \A c \in Child :
        /\ read[c] <= wrote[c]
        /\ targets[c] # {} => pump[c] = "fanning"
        /\ pump[c] \in {"holding", "fanning"} => read[c] > 0
        /\ c > spawned => pump[c] = "none"

\* Who is counted: subscribers, from CountConnection to Unsubscribe.
Counted == {s \in subs : handler[s] # "counting"}

\* A handler is subscribed from Subscribe to Unsubscribe.
Subscribed ==
    \A s \in Sessions : s \in subs <=> handler[s] \in {"counting", "streaming", "leaving"}

\* What a client got or will get.
Seen(s) == received[s] \o buffer[s]

\* Pairs of chunks that may follow one another.
After == {e \in Chunk \X Chunk : e[1].child = e[2].child => e[1].n < e[2].n}

InOrder == \A s \in Sessions : Ordered(After, Seen(s))

\* No chunk comes before it is read; the one that a pump holds, and has not yet
\* sent to a subscriber, is not there yet.
Numbered ==
    \A s \in Sessions : \A i \in 1 .. Len(Seen(s)) :
        LET e == Seen(s)[i]
        IN  /\ e.n <= read[e.child]
            /\ s \in targets[e.child] \/ pump[e.child] = "holding" => e.n < read[e.child]

FanoutInv ==
    /\ ChildType /\ SessionType /\ BufferType
    /\ Fanning /\ Subscribed /\ ConnectionsCounted /\ InOrder /\ Numbered

-----------------------------------------------------------------------------
(* Children, pumps and their types.                                        *)

LEMMA InitTypes == Init => ChildType /\ SessionType /\ Fanning
<1> SUFFICES ASSUME Init PROVE ChildType /\ SessionType /\ Fanning
  OBVIOUS
<1>1. 1 \in Child /\ 0 \in 0 .. MaxChunks
  BY FanoutAssumption DEF Child
<1> QED
  BY <1>1 DEF Init, ChildType, SessionType, Fanning, Child

LEMMA StepTypes ==
  ChildType /\ SessionType /\ Fanning /\ [Next]_vars
      => ChildType' /\ SessionType' /\ Fanning'
<1> SUFFICES ASSUME ChildType, SessionType, Fanning, [Next]_vars
             PROVE  ChildType' /\ SessionType' /\ Fanning'
  OBVIOUS
<1> USE DEF ChildType, SessionType, Fanning
<1>0. Child \subseteq Nat /\ MaxChunks \in Nat /\ MaxChildren \in Nat
  BY FanoutAssumption DEF Child
<1>1. CASE ChildWrites
  BY <1>0, <1>1 DEF ChildWrites, sessionVars
<1>2. CASE ChildExits
  BY <1>2 DEF ChildExits, sessionVars
<1>3. CASE Reap
  BY <1>3 DEF Reap, sessionVars
<1>4. CASE Respawn
  <2>1. spawned + 1 \in Child
    BY <1>0, <1>4 DEF Respawn, Child
  <2> QED
    BY <1>0, <1>4, <2>1 DEF Respawn, sessionVars
<1>5. ASSUME NEW c \in Child, Pumping(c)
      PROVE  ChildType' /\ SessionType' /\ Fanning'
  <2>1. CASE PumpReads(c)
    BY <1>0, <2>1 DEF PumpReads, sessionVars, childVars
  <2>5. CASE PumpLocks(c)
    <3>1. subs \subseteq Sessions /\ c <= spawned
      BY <1>0, <2>5 DEF PumpLocks
    <3> QED  BY <1>0, <2>5, <3>1 DEF PumpLocks, sessionVars, childVars
  <2>2. CASE PumpLoops(c)
    BY <1>0, <2>2 DEF PumpLoops, sessionVars, childVars
  <2>3. CASE PumpReturns(c)
    BY <1>0, <2>3 DEF PumpReturns, sessionVars, childVars
  <2>4. ASSUME NEW s \in targets[c], PumpSends(c, s)
        PROVE  ChildType' /\ SessionType' /\ Fanning'
    BY <1>0, <2>4 DEF PumpSends, sessionVars, childVars
  <2> QED
    BY <1>5, <2>1, <2>2, <2>3, <2>4, <2>5 DEF Pumping
<1>6. ASSUME NEW s \in Sessions, Streaming(s)
      PROVE  ChildType' /\ SessionType' /\ Fanning'
  <2>1. CASE Subscribe(s) \/ CountConnection(s) \/ Unsubscribe(s)
    BY <2>1 DEF Subscribe, CountConnection, Unsubscribe, childVars
  <2>2. CASE Write(s)
    BY <2>2 DEF Write, childVars, sessionVars
  <2>3. CASE Leave(s) \/ Disconnect(s)
    BY <2>3 DEF Leave, Disconnect, childVars
  <2> QED
    BY <1>6, <2>1, <2>2, <2>3 DEF Streaming
<1>7. CASE UNCHANGED vars
  BY <1>7 DEF vars, childVars, sessionVars
<1> QED
  BY <1>1, <1>2, <1>3, <1>4, <1>5, <1>6, <1>7 DEF Next

-----------------------------------------------------------------------------
(* Connections.                                                            *)

LEMMA InitCounted == Init => Subscribed /\ ConnectionsCounted
BY FS_EmptySet DEF Init, Subscribed, ConnectionsCounted

\* Only Subscribe, CountConnection and Unsubscribe change who is counted.
LEMMA StepCounted ==
  SessionType /\ Subscribed /\ ConnectionsCounted /\ [Next]_vars
      => Subscribed' /\ ConnectionsCounted'
<1> SUFFICES ASSUME SessionType, Subscribed, ConnectionsCounted, [Next]_vars
             PROVE  Subscribed' /\ ConnectionsCounted'
  OBVIOUS
<1>0. /\ subs \subseteq Sessions
      /\ handler \in [Sessions -> {"none", "counting", "streaming", "leaving", "returned"}]
      /\ IsFiniteSet(Counted) /\ Cardinality(Counted) \in Nat
      /\ active = Cardinality(Counted)
  BY FanoutAssumption, FS_Subset, FS_CardinalityType
     DEF SessionType, Counted, ConnectionsCounted
<1>1. ASSUME UNCHANGED <<subs, active, handler>> PROVE Subscribed' /\ ConnectionsCounted'
  BY <1>1 DEF Subscribed, ConnectionsCounted
<1>2. ASSUME NEW c \in Child, Pumping(c) PROVE UNCHANGED <<subs, active, handler>>
  BY <1>2 DEF Pumping, PumpReads, PumpLocks, PumpLoops, PumpReturns, PumpSends, sessionVars
<1>3. CASE ChildWrites \/ ChildExits \/ Reap \/ Respawn
  BY <1>1, <1>3 DEF ChildWrites, ChildExits, Reap, Respawn, sessionVars
<1>4. ASSUME NEW s \in Sessions, Streaming(s)
      PROVE  Subscribed' /\ ConnectionsCounted'
  <2>1. CASE Subscribe(s)
    <3>1. Subscribed'
      BY <1>0, <2>1 DEF Subscribe, Subscribed
    <3>2. Counted' = Counted
      BY <1>0, <2>1 DEF Subscribe, Subscribed, Counted
    <3> QED
      BY <1>0, <2>1, <3>1, <3>2 DEF Subscribe, ConnectionsCounted, Counted
  <2>2. CASE CountConnection(s)
    <3>1. Subscribed'
      BY <1>0, <2>2 DEF CountConnection, Subscribed
    <3>2. Counted' = Counted \cup {s} /\ s \notin Counted
      BY <1>0, <2>2 DEF CountConnection, Subscribed, Counted
    <3>3. Cardinality(Counted') = Cardinality(Counted) + 1
      BY <1>0, <3>2, FS_AddElement
    <3> QED
      BY <1>0, <2>2, <3>1, <3>3 DEF CountConnection, ConnectionsCounted, Counted
  <2>3. CASE Unsubscribe(s)
    <3>1. Subscribed'
      BY <1>0, <2>3 DEF Unsubscribe, Subscribed
    <3>2. Counted' = Counted \ {s} /\ s \in Counted
      BY <1>0, <2>3 DEF Unsubscribe, Subscribed, Counted
    <3>3. Cardinality(Counted') = Cardinality(Counted) - 1
      BY <1>0, <3>2, FS_RemoveElement
    <3> QED
      BY <1>0, <2>3, <3>1, <3>3 DEF Unsubscribe, ConnectionsCounted, Counted
  <2>4. CASE Leave(s)
    <3>1. Subscribed'
      BY <1>0, <2>4 DEF Leave, Subscribed
    <3>2. Counted' = Counted
      BY <1>0, <2>4 DEF Leave, Counted
    <3> QED
      BY <1>0, <2>4, <3>1, <3>2 DEF Leave, ConnectionsCounted, Counted
  <2>5. CASE Write(s) \/ Disconnect(s)
    BY <1>1, <2>5 DEF Write, Disconnect, sessionVars
  <2> QED
    BY <1>4, <2>1, <2>2, <2>3, <2>4, <2>5 DEF Streaming
<1>5. CASE UNCHANGED vars
  BY <1>1, <1>5 DEF vars, sessionVars
<1> QED
  BY <1>1, <1>2, <1>3, <1>4, <1>5 DEF Next

-----------------------------------------------------------------------------
(* What the clients are sent.                                              *)

LEMMA InitSent == Init => BufferType /\ InOrder /\ Numbered
<1> SUFFICES ASSUME Init PROVE BufferType /\ InOrder /\ Numbered
  OBVIOUS
<1>1. <<>> \in Seq(Chunk) /\ Len(<<>>) = 0
  BY EmptySeq
<1>2. BufferType
  BY <1>1, FanoutAssumption DEF Init, BufferType
<1>3. ASSUME NEW s \in Sessions PROVE Seen(s) = <<>> /\ Len(Seen(s)) = 0
  BY <1>1, ConcatEmptySeq DEF Init, Seen
<1> QED
  BY <1>2, <1>3 DEF InOrder, Numbered, Ordered

\* Whoever touches neither the sequences nor the targets, and does not read
\* backwards, keeps the order.
LEMMA SameSeen ==
  ASSUME ChildType, BufferType, InOrder, Numbered, UNCHANGED <<buffer, received>>,
         \A c \in Child : /\ read'[c] \in Nat
                          /\ read[c] <= read'[c]
                          /\ \A s \in targets'[c] : \/ s \in targets[c] \/ pump[c] = "holding"
                                                    \/ read[c] < read'[c]
                          /\ pump'[c] = "holding" => pump[c] = "holding" \/ read[c] < read'[c]
  PROVE  BufferType' /\ InOrder' /\ Numbered'
<1>1. \A s : Seen(s)' = Seen(s)
  BY DEF Seen
<1>2. BufferType' /\ InOrder'
  BY <1>1 DEF BufferType, InOrder, Ordered
<1>3. ASSUME NEW s \in Sessions, NEW i \in 1 .. Len(Seen(s))
      PROVE  LET e == Seen(s)[i]
             IN  /\ e.n <= read'[e.child]
                 /\ s \in targets'[e.child] \/ pump'[e.child] = "holding"
                        => e.n < read'[e.child]
  <2> DEFINE e == Seen(s)[i]
  <2>1. Seen(s) \in Seq(Chunk)
    BY ConcatProperties DEF BufferType, Seen
  <2>2. e \in Chunk
    BY <2>1, ElementOfSeq
  <2>3. /\ e.child \in Child /\ e.n \in Nat
        /\ read[e.child] \in Nat
    BY <2>2, FanoutAssumption DEF Chunk, ChildType
  <2>4. /\ e.n <= read[e.child]
        /\ s \in targets[e.child] \/ pump[e.child] = "holding" => e.n < read[e.child]
    BY DEF Numbered
  <2> HIDE DEF e
  <2>5. /\ e.n <= read'[e.child]
        /\ s \in targets'[e.child] \/ pump'[e.child] = "holding" => e.n < read'[e.child]
    BY <2>3, <2>4
  <2> QED
    BY <2>5 DEF e
<1>4. Numbered'
  BY <1>1, <1>3 DEF Numbered
<1> QED
  BY <1>2, <1>4

\* What a pump sends comes after all that its clients have of the same child.
LEMMA SendOrdered ==
  ASSUME ChildType, SessionType, BufferType, Fanning, InOrder, Numbered,
         NEW c \in Child, NEW t \in targets[c], PumpSends(c, t)
  PROVE  BufferType' /\ InOrder' /\ Numbered'
<1> DEFINE e == [child |-> c, n |-> read[c]]
<1>0. read[c] \in 1 .. MaxChunks /\ t \in Sessions /\ pump[c] # "holding" /\ pump' = pump
  <2>1. pump[c] = "fanning" /\ read[c] > 0
    BY DEF Fanning
  <2>2. read[c] \in 0 .. MaxChunks /\ t \in Sessions
    BY DEF ChildType, SessionType
  <2> QED  BY <2>1, <2>2, FanoutAssumption DEF PumpSends
<1>1. /\ e \in Chunk /\ e.child = c /\ e.n = read[c]
      /\ t \in Sessions
      /\ buffer \in [Sessions -> Seq(Chunk)] /\ received \in [Sessions -> Seq(Chunk)]
      /\ targets \in [Child -> SUBSET Sessions]
      /\ read \in [Child -> Nat] /\ read' = read
      /\ targets' = [targets EXCEPT ![c] = @ \ {t}]
  <2>1. e \in Chunk /\ e.child = c /\ e.n = read[c]
    BY <1>0 DEF Chunk
  <2>2. read \in [Child -> Nat]
    BY FanoutAssumption DEF ChildType
  <2> QED
    BY <1>0, <2>1, <2>2 DEF PumpSends, SessionType, BufferType
<1>2. \A s \in Sessions : Seen(s) \in Seq(Chunk)
  BY <1>1, ConcatProperties DEF Seen
<1> HIDE DEF e
<1>3. BufferType'
  <2>1. /\ Len(buffer[t]) \in Nat
        /\ Append(buffer[t], e) \in Seq(Chunk)
        /\ Len(Append(buffer[t], e)) = Len(buffer[t]) + 1
    BY <1>1, AppendProperties, LenProperties
  <2>2. CASE Len(buffer[t]) < Capacity
    BY <1>1, <2>1, <2>2, FanoutAssumption DEF BufferType, PumpSends, e
  <2>3. CASE ~(Len(buffer[t]) < Capacity)
    BY <2>3 DEF BufferType, PumpSends
  <2> QED
    BY <2>2, <2>3
<1>4. ASSUME NEW s \in Sessions
      PROVE  \/ Seen(s)' = Seen(s)
             \/ s = t /\ Seen(s)' = Append(Seen(s), e)
  <2>1. CASE buffer'[s] = buffer[s]
    BY <2>1 DEF PumpSends, Seen
  <2>2. CASE s = t /\ buffer'[s] = Append(buffer[s], e)
    BY <1>1, <2>2, AppendToConcat DEF PumpSends, Seen
  <2> QED
    BY <1>1, <2>1, <2>2 DEF PumpSends, e
<1>5. ASSUME NEW s \in Sessions, NEW i \in 1 .. Len(Seen(s))
      PROVE  /\ Seen(s)[i] \in Chunk
             /\ Seen(s)[i].n <= read[Seen(s)[i].child]
             /\ s \in targets[Seen(s)[i].child] \/ pump[Seen(s)[i].child] = "holding"
                    => Seen(s)[i].n < read[Seen(s)[i].child]
  BY <1>2, ElementOfSeq DEF Numbered
<1>6. ASSUME NEW i \in 1 .. Len(Seen(t)) PROVE <<Seen(t)[i], e>> \in After
  BY <1>1, <1>5 DEF After
<1>7. ASSUME NEW s \in Sessions PROVE Ordered(After, Seen(s))'
  <2>1. Ordered(After, Seen(s))
    BY DEF InOrder
  <2>2. CASE Seen(s)' = Seen(s)
    BY <2>1, <2>2 DEF Ordered
  <2>3. CASE s = t /\ Seen(s)' = Append(Seen(s), e)
    <3>1. Ordered(After, Append(Seen(s), e))
      BY <1>1, <1>2, <1>6, <2>1, <2>3, AppendOrdered
    <3> QED
      BY <2>3, <3>1 DEF Ordered
  <2> QED
    BY <1>4, <2>2, <2>3
<1>8. ASSUME NEW s \in Sessions, NEW i \in 1 .. Len(Seen(s)')
      PROVE  /\ Seen(s)'[i].n <= read[Seen(s)'[i].child]
             /\ s \in targets'[Seen(s)'[i].child] \/ pump[Seen(s)'[i].child] = "holding"
                    => Seen(s)'[i].n < read[Seen(s)'[i].child]
  <2>1. ASSUME i \in 1 .. Len(Seen(s)), Seen(s)'[i] = Seen(s)[i]
        PROVE  /\ Seen(s)'[i].n <= read[Seen(s)'[i].child]
               /\ s \in targets'[Seen(s)'[i].child] \/ pump[Seen(s)'[i].child] = "holding"
                      => Seen(s)'[i].n < read[Seen(s)'[i].child]
    <3>1. Seen(s)[i].child \in Child
      BY <1>5, <2>1 DEF Chunk
    <3> QED
      BY <1>1, <1>5, <2>1, <3>1
  <2>2. CASE Seen(s)' = Seen(s)
    BY <1>8, <2>1, <2>2
  <2>3. CASE s = t /\ Seen(s)' = Append(Seen(s), e)
    <3>1. /\ Len(Seen(s)) \in Nat /\ Len(Seen(s)') = Len(Seen(s)) + 1
          /\ \A j \in 1 .. Len(Seen(s)) : Seen(s)'[j] = Seen(s)[j]
          /\ Seen(s)'[Len(Seen(s)) + 1] = e
      BY <1>1, <1>2, <2>3, AppendProperties, LenProperties
    <3>2. CASE i \in 1 .. Len(Seen(s))
      BY <2>1, <3>1, <3>2
    <3>3. CASE i = Len(Seen(s)) + 1
      BY <1>0, <1>1, <2>3, <3>1, <3>3
    <3> QED
      BY <1>8, <3>1, <3>2, <3>3
  <2> QED
    BY <1>4, <2>2, <2>3
<1> QED
  BY <1>0, <1>1, <1>3, <1>7, <1>8 DEF InOrder, Numbered

\* A write moves the oldest chunk from the buffer to the client, or loses it.
LEMMA WriteOrdered ==
  ASSUME BufferType, InOrder, Numbered, NEW t \in Sessions, Write(t)
  PROVE  BufferType' /\ InOrder' /\ Numbered'
<1>1. /\ buffer \in [Sessions -> Seq(Chunk)] /\ received \in [Sessions -> Seq(Chunk)]
      /\ buffer[t] # <<>> /\ UNCHANGED <<read, targets, pump>>
  BY DEF BufferType, Write
<1>2. BufferType'
  <2>1. /\ Tail(buffer[t]) \in Seq(Chunk)
        /\ Len(Tail(buffer[t])) <= Capacity
        /\ Append(received[t], Head(buffer[t])) \in Seq(Chunk)
    BY <1>1, HeadTailProperties, LenProperties, EmptySeq, AppendProperties, FanoutAssumption
       DEF BufferType
  <2> QED
    BY <2>1 DEF BufferType, Write
<1>3. ASSUME NEW s \in Sessions
      PROVE  \/ Seen(s)' = Seen(s)
             \/ s = t /\ Seen(s)' = received[s] \o Tail(buffer[s])
  <2>1. CASE s # t
    BY <1>1, <2>1 DEF Write, Seen
  <2>2. CASE s = t /\ client[t] = "connected"
    BY <1>1, <2>2, MoveHead DEF Write, Seen
  <2>3. CASE s = t /\ client[t] # "connected"
    BY <1>1, <2>3 DEF Write, Seen
  <2> QED
    BY <2>1, <2>2, <2>3
<1>4. ASSUME NEW s \in Sessions PROVE Ordered(After, Seen(s))'
  <2>1. Ordered(After, Seen(s))
    BY DEF InOrder
  <2>2. CASE Seen(s)' = Seen(s)
    BY <2>1, <2>2 DEF Ordered
  <2>3. CASE s = t /\ Seen(s)' = received[s] \o Tail(buffer[s])
    <3>1. Ordered(After, received[s] \o Tail(buffer[s]))
      BY <1>1, <2>1, <2>3, SkipHeadOrdered DEF Seen
    <3> QED
      BY <2>3, <3>1 DEF Ordered
  <2> QED
    BY <1>3, <2>2, <2>3
<1>5. ASSUME NEW s \in Sessions, NEW i \in 1 .. Len(Seen(s)')
      PROVE  \E j \in 1 .. Len(Seen(s)) : Seen(s)'[i] = Seen(s)[j]
  <2>1. CASE Seen(s)' = Seen(s)
    BY <1>5, <2>1
  <2>2. CASE s = t /\ Seen(s)' = received[s] \o Tail(buffer[s])
    <3> DEFINE j == IF i <= Len(received[s]) THEN i ELSE i + 1
    <3>1. /\ Len(Seen(s)') = Len(Seen(s)) - 1
          /\ Seen(s)'[i] = Seen(s)[j]
      BY <1>1, <1>5, <2>2, SkipHead DEF Seen
    <3>2. /\ Seen(s) \in Seq(Chunk) /\ Len(Seen(s)) \in Nat
      BY <1>1, ConcatProperties, LenProperties DEF Seen
    <3>3. j \in 1 .. Len(Seen(s))
      BY <1>5, <3>1, <3>2
    <3> QED
      BY <3>1, <3>3
  <2> QED
    BY <1>3, <2>1, <2>2
<1> QED
  BY <1>1, <1>2, <1>4, <1>5 DEF InOrder, Numbered

LEMMA StepSent ==
  ChildType /\ SessionType /\ BufferType /\ Fanning /\ InOrder /\ Numbered /\ [Next]_vars
      => BufferType' /\ InOrder' /\ Numbered'
<1> SUFFICES ASSUME ChildType, SessionType, BufferType, Fanning, InOrder, Numbered,
                    [Next]_vars
             PROVE  BufferType' /\ InOrder' /\ Numbered'
  OBVIOUS
<1>0. /\ read \in [Child -> Nat] /\ targets \in [Child -> SUBSET Sessions]
      /\ pump \in [Child -> {"none", "reading", "holding", "fanning", "returned"}]
  BY FanoutAssumption DEF ChildType, SessionType
<1>1. CASE ChildWrites \/ ChildExits \/ Reap \/ Respawn
  BY <1>0, <1>1, SameSeen DEF ChildWrites, ChildExits, Reap, Respawn
<1>2. ASSUME NEW c \in Child, Pumping(c) PROVE BufferType' /\ InOrder' /\ Numbered'
  <2>1. CASE PumpReads(c) \/ PumpLocks(c)
    BY <1>0, <2>1, SameSeen DEF PumpReads, PumpLocks
  <2>2. CASE PumpLoops(c) \/ PumpReturns(c)
    BY <1>0, <2>2, SameSeen DEF PumpLoops, PumpReturns
  <2>3. ASSUME NEW s \in targets[c], PumpSends(c, s)
        PROVE  BufferType' /\ InOrder' /\ Numbered'
    BY <2>3, SendOrdered
  <2> QED
    BY <1>2, <2>1, <2>2, <2>3 DEF Pumping
<1>3. ASSUME NEW s \in Sessions, Streaming(s) PROVE BufferType' /\ InOrder' /\ Numbered'
  <2>1. CASE Write(s)
    BY <2>1, WriteOrdered
  <2>2. CASE \/ Subscribe(s) \/ CountConnection(s) \/ Unsubscribe(s)
             \/ Leave(s) \/ Disconnect(s)
    BY <1>0, <2>2, SameSeen
       DEF Subscribe, CountConnection, Unsubscribe, Leave, Disconnect
  <2> QED
    BY <1>3, <2>1, <2>2 DEF Streaming
<1>4. CASE UNCHANGED vars
  BY <1>0, <1>4, SameSeen DEF vars
<1> QED
  BY <1>1, <1>2, <1>3, <1>4 DEF Next

-----------------------------------------------------------------------------
(* The theorems. *)

LEMMA FanoutInvariant == Spec => []FanoutInv
<1>1. Init => FanoutInv
  BY InitTypes, InitCounted, InitSent DEF FanoutInv
<1>2. FanoutInv /\ [Next]_vars => FanoutInv'
  BY StepTypes, StepCounted, StepSent DEF FanoutInv
<1> QED
  BY <1>1, <1>2, PTL DEF Spec

\* process.go: every variable keeps its type; no subscriber's channel holds more
\* than its capacity, and the gauge never leaves the range of the sessions.
THEOREM FanoutTypeCorrect == Spec => []TypeOK
<1>1. FanoutInv => TypeOK
  <2> SUFFICES ASSUME FanoutInv PROVE TypeOK
    OBVIOUS
  <2>1. Counted \in SUBSET Sessions /\ active = Cardinality(Counted)
    BY DEF FanoutInv, SessionType, ConnectionsCounted, Counted
  <2>2. active \in 0 .. Cardinality(Sessions)
    BY <2>1, FanoutAssumption, FS_Subset, FS_CardinalityType
  <2>3. ASSUME NEW s \in Sessions
        PROVE  ToSet(buffer[s]) \cup ToSet(received[s]) \subseteq Chunk
    BY LenProperties, ElementOfSeq DEF FanoutInv, BufferType, ToSet
  <2> QED
    BY <2>2, <2>3 DEF FanoutInv, ChildType, SessionType, BufferType, TypeOK
<1> QED
  BY FanoutInvariant, <1>1, PTL

\* server.go, streamOutput: the gauge of connections is the number of subscribers
\* that were counted, whenever sessions come and go.
THEOREM ConnectionsCountedHolds == Spec => []ConnectionsCounted
<1>1. FanoutInv => ConnectionsCounted
  BY DEF FanoutInv
<1> QED
  BY FanoutInvariant, <1>1, PTL

\* process.go, pumpOutput: a client gets each child's chunks in order and none
\* twice, although pumps of several children may run at once.
THEOREM ChunksInOrderHolds == Spec => []ChunksInOrder
<1>1. FanoutInv => ChunksInOrder
  <2> SUFFICES ASSUME FanoutInv, NEW s \in Sessions,
                      NEW i \in 1 .. Len(Seen(s)), NEW j \in 1 .. Len(Seen(s)),
                      i < j, Seen(s)[i].child = Seen(s)[j].child
               PROVE  Seen(s)[i].n < Seen(s)[j].n
    BY DEF ChunksInOrder, Seen
  <2>1. <<Seen(s)[i], Seen(s)[j]>> \in After
    BY DEF FanoutInv, InOrder, Ordered
  <2> QED
    BY <2>1 DEF After
<1> QED
  BY FanoutInvariant, <1>1, PTL
==============================================================================
