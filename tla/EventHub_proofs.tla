--------------------------- MODULE EventHub_proofs ---------------------------
(***************************************************************************)
(* Theorems about EventHub, for any publishers, sessions, channels, types, *)
(* filters and capacities.                                                 *)
(***************************************************************************)
EXTENDS EventHub, SequenceOrder

\* TypeOK, and that buffer and received are sequences of events.
HubType ==
    /\ TypeOK
    /\ buffer \in [Sessions -> Seq(Events)]
    /\ received \in [Sessions -> Seq(Events)]

\* The hub keeps a session under the channel it asked for.
OnTopic == \A c \in Channels : \A s \in subscribers[c] : Topic[s] = c

\* Whoever has subscribers left to go through is inside Publish.
Offering ==
    \A p \in Publishers : targets[p] # {} => p \in publishing /\ published[p] > 0

\* What a client got or will get.
Seen(s) == received[s] \o buffer[s]

\* Pairs of events that may follow one another.
After == {e \in Events \X Events : e[1].by = e[2].by => e[1].n < e[2].n}

InOrder == \A s \in Sessions : Ordered(After, Seen(s))

\* No event comes before its publication; the one that a publisher is about to
\* offer to a session is not there yet.
Numbered ==
    \A s \in Sessions : \A i \in 1 .. Len(Seen(s)) :
        LET e == Seen(s)[i]
        IN  /\ e.n <= published[e.by]
            /\ s \in targets[e.by] => e.n < published[e.by]

HubInv ==
    HubType /\ OnTopic /\ Offering /\ TargetsSubscribed /\ InOrder /\ Numbered

-----------------------------------------------------------------------------
(* Type correctness. *)

\* The part of TypeOK that says what the sequences hold follows from HubType.
LEMMA HoldsEvents ==
  ASSUME NEW s \in Seq(Events)
  PROVE  ToSet(s) \subseteq Events
BY LenProperties, ElementOfSeq DEF ToSet

LEMMA InitHubType == Init => HubType
<1> SUFFICES ASSUME Init PROVE HubType
  OBVIOUS
<1>1. <<>> \in Seq(Events) /\ Len(<<>>) = 0
  BY EmptySeq
<1>2. \A s \in Sessions : /\ buffer[s] = <<>> /\ received[s] = <<>>
                          /\ Len(buffer[s]) <= Capacity
                          /\ ToSet(buffer[s]) \cup ToSet(received[s]) \subseteq Events
  <2>1. ToSet(<<>>) \subseteq Events
    BY <1>1, HoldsEvents
  <2> QED
    BY <1>1, <2>1, HubAssumption DEF Init
<1> QED
  BY <1>1, <1>2, HubAssumption DEF Init, HubType, TypeOK

\* Only Offer and Write touch what the sessions are sent.
LEMMA StepHubType == HubType /\ Offering /\ [Next]_vars => HubType'
<1> SUFFICES ASSUME HubType, Offering, [Next]_vars PROVE HubType'
  OBVIOUS
<1> DEFINE Rest == /\ subscribers \in [Channels -> SUBSET Sessions]
                   /\ published \in [Publishers -> Nat]
                   /\ targets \in [Publishers -> SUBSET Sessions]
                   /\ publishing \subseteq Publishers
                   /\ handler \in [Sessions -> {"none", "streaming", "leaving", "returned"}]
                   /\ client \in [Sessions -> {"connected", "gone"}]
           Sent == /\ buffer \in [Sessions -> Seq(Events)]
                   /\ received \in [Sessions -> Seq(Events)]
                   /\ \A s \in Sessions : Len(buffer[s]) <= Capacity
<1>1. Rest /\ Sent
  BY DEF HubType, TypeOK
<1>2. Rest' /\ Sent' => HubType'
  BY HoldsEvents DEF HubType, TypeOK
<1> HIDE DEF Sent
<1>3. ASSUME UNCHANGED <<buffer, received>> PROVE Sent'
  BY <1>1, <1>3 DEF Sent
<1>4. ASSUME NEW p \in Publishers, NEW c \in Channels, NEW t \in Types, Publish(p, c, t)
      PROVE  Rest' /\ Sent'
  BY <1>1, <1>3, <1>4 DEF Publish
<1>5. ASSUME NEW p \in Publishers, NEW s \in targets[p], Offer(p, s)
      PROVE  Rest' /\ Sent'
  <2>1. Rest'
    BY <1>1, <1>5 DEF Offer
  <2>2. [by |-> p, n |-> published[p]] \in Events
    BY <1>1, <1>5 DEF Events, Offering
  <2>3. /\ s \in Sessions /\ Len(buffer[s]) \in Nat
        /\ Append(buffer[s], [by |-> p, n |-> published[p]]) \in Seq(Events)
        /\ Len(Append(buffer[s], [by |-> p, n |-> published[p]])) = Len(buffer[s]) + 1
    BY <1>1, <1>5, <2>2, AppendProperties, LenProperties DEF Sent
  <2>4. Sent'
    <3>1. CASE Len(buffer[s]) < Capacity
      BY <1>1, <1>5, <2>3, <3>1, HubAssumption DEF Sent, Offer
    <3>2. CASE ~(Len(buffer[s]) < Capacity)
      BY <1>3, <1>5, <3>2 DEF Offer
    <3> QED
      BY <3>1, <3>2
  <2> QED
    BY <2>1, <2>4
<1>6. ASSUME NEW p \in Publishers, Published(p) PROVE Rest' /\ Sent'
  BY <1>1, <1>3, <1>6 DEF Published
<1>7. ASSUME NEW s \in Sessions, Session(s) PROVE Rest' /\ Sent'
  <2>1. CASE Subscribe(s)
    BY <1>1, <1>3, <2>1, HubAssumption DEF Subscribe
  <2>2. CASE Unsubscribe(s)
    BY <1>1, <1>3, <2>2, HubAssumption DEF Unsubscribe
  <2>3. CASE Write(s)
    <3>1. Rest'
      BY <1>1, <2>3 DEF Write
    <3>2. /\ buffer[s] \in Seq(Events) /\ received[s] \in Seq(Events)
          /\ buffer[s] # <<>> /\ Len(buffer[s]) <= Capacity
      BY <1>1, <2>3 DEF Sent, Write
    <3>3. /\ Tail(buffer[s]) \in Seq(Events)
          /\ Len(Tail(buffer[s])) <= Capacity
          /\ Append(received[s], Head(buffer[s])) \in Seq(Events)
      BY <3>2, HeadTailProperties, LenProperties, EmptySeq, AppendProperties, HubAssumption
    <3>4. Sent'
      BY <1>1, <2>3, <3>3 DEF Sent, Write
    <3> QED
      BY <3>1, <3>4
  <2>4. CASE Leave(s)
    BY <1>1, <1>3, <2>4 DEF Leave
  <2>5. CASE Disconnect(s)
    BY <1>1, <1>3, <2>5 DEF Disconnect
  <2> QED
    BY <1>7, <2>1, <2>2, <2>3, <2>4, <2>5 DEF Session
<1>8. CASE UNCHANGED vars
  BY <1>1, <1>2, <1>3, <1>8 DEF vars
<1> QED
  BY <1>2, <1>4, <1>5, <1>6, <1>7, <1>8 DEF Next
-----------------------------------------------------------------------------
(* Who is offered an event.                                                *)

LEMMA InitHubInv == Init => HubInv
<1> SUFFICES ASSUME Init PROVE HubInv
  OBVIOUS
<1>1. HubType
  BY InitHubType
<1>2. OnTopic /\ Offering /\ TargetsSubscribed
  BY DEF Init, OnTopic, Offering, TargetsSubscribed
<1>3. ASSUME NEW s \in Sessions PROVE Seen(s) = <<>> /\ Len(Seen(s)) = 0
  <2>1. <<>> \in Seq(Events) /\ Len(<<>>) = 0
    BY EmptySeq
  <2> QED
    BY <2>1, ConcatEmptySeq DEF Init, Seen
<1>4. InOrder /\ Numbered
  BY <1>3 DEF InOrder, Numbered, Ordered
<1> QED
  BY <1>1, <1>2, <1>4 DEF HubInv

LEMMA StepOffering ==
  HubType /\ OnTopic /\ Offering /\ TargetsSubscribed /\ [Next]_vars
      => OnTopic' /\ Offering' /\ TargetsSubscribed'
<1> SUFFICES ASSUME HubType, OnTopic, Offering, TargetsSubscribed, [Next]_vars
             PROVE  OnTopic' /\ Offering' /\ TargetsSubscribed'
  OBVIOUS
<1> USE DEF OnTopic, Offering, TargetsSubscribed
<1>0. /\ subscribers \in [Channels -> SUBSET Sessions]
      /\ published \in [Publishers -> Nat]
      /\ targets \in [Publishers -> SUBSET Sessions]
  BY DEF HubType, TypeOK
<1>1. ASSUME NEW p \in Publishers, NEW c \in Channels, NEW t \in Types, Publish(p, c, t)
      PROVE  OnTopic' /\ Offering' /\ TargetsSubscribed'
  BY <1>0, <1>1 DEF Publish
<1>2. ASSUME NEW p \in Publishers, NEW s \in targets[p], Offer(p, s)
      PROVE  OnTopic' /\ Offering' /\ TargetsSubscribed'
  BY <1>0, <1>2 DEF Offer
<1>3. ASSUME NEW p \in Publishers, Published(p)
      PROVE  OnTopic' /\ Offering' /\ TargetsSubscribed'
  BY <1>0, <1>3 DEF Published
<1>4. ASSUME NEW s \in Sessions, Session(s)
      PROVE  OnTopic' /\ Offering' /\ TargetsSubscribed'
  <2>1. CASE Subscribe(s)
    BY <1>0, <2>1, HubAssumption DEF Subscribe
  \* Nobody is inside Publish, so that no target is left.
  <2>2. CASE Unsubscribe(s)
    BY <1>0, <2>2, HubAssumption DEF Unsubscribe
  <2>3. CASE Write(s) \/ Leave(s) \/ Disconnect(s)
    BY <2>3 DEF Write, Leave, Disconnect
  <2> QED
    BY <1>4, <2>1, <2>2, <2>3 DEF Session
<1>5. CASE UNCHANGED vars
  BY <1>5 DEF vars
<1> QED
  BY <1>1, <1>2, <1>3, <1>4, <1>5 DEF Next

-----------------------------------------------------------------------------
(* The order of a publisher's events.                                      *)

\* Whoever touches neither the sequences nor the targets, and takes no number
\* back, keeps the order.
LEMMA SameSeen ==
  ASSUME HubType, InOrder, Numbered, UNCHANGED <<buffer, received>>,
         \A p \in Publishers : /\ published'[p] \in Nat
                               /\ published[p] <= published'[p]
                               /\ \A s \in targets'[p] :
                                     s \in targets[p] \/ published[p] < published'[p]
  PROVE  InOrder' /\ Numbered'
<1>1. \A s : Seen(s)' = Seen(s)
  BY DEF Seen
<1>2. InOrder'
  BY <1>1 DEF InOrder, Ordered
<1>3. ASSUME NEW s \in Sessions, NEW i \in 1 .. Len(Seen(s))
      PROVE  LET e == Seen(s)[i]
             IN  /\ e.n <= published'[e.by]
                 /\ s \in targets'[e.by] => e.n < published'[e.by]
  <2> DEFINE e == Seen(s)[i]
  <2>1. Seen(s) \in Seq(Events)
    BY ConcatProperties DEF HubType, Seen
  <2>2. e \in Events
    BY <2>1, ElementOfSeq
  <2>3. /\ e.by \in Publishers /\ e.n \in Nat
        /\ published[e.by] \in Nat
    BY <2>2 DEF Events, HubType, TypeOK
  <2>4. /\ e.n <= published[e.by]
        /\ s \in targets[e.by] => e.n < published[e.by]
    BY DEF Numbered
  <2> HIDE DEF e
  <2>5. /\ e.n <= published'[e.by]
        /\ s \in targets'[e.by] => e.n < published'[e.by]
    BY <2>3, <2>4
  <2> QED
    BY <2>5 DEF e
<1>4. Numbered'
  BY <1>1, <1>3 DEF Numbered
<1> QED
  BY <1>2, <1>4

\* What a publisher offers comes after all that its clients have of it.
LEMMA OfferOrdered ==
  ASSUME HubType, Offering, InOrder, Numbered,
         NEW p \in Publishers, NEW t \in targets[p], Offer(p, t)
  PROVE  InOrder' /\ Numbered'
<1> DEFINE e == [by |-> p, n |-> published[p]]
<1>0. published[p] \in Nat \ {0} /\ t \in Sessions
  BY DEF HubType, TypeOK, Offering
<1>1. /\ e \in Events /\ e.by = p /\ e.n = published[p]
      /\ t \in Sessions
      /\ buffer \in [Sessions -> Seq(Events)] /\ received \in [Sessions -> Seq(Events)]
      /\ targets \in [Publishers -> SUBSET Sessions]
      /\ published \in [Publishers -> Nat] /\ published' = published
      /\ targets' = [targets EXCEPT ![p] = @ \ {t}]
  BY <1>0 DEF Offer, HubType, TypeOK, Events
<1>2. \A s \in Sessions : Seen(s) \in Seq(Events)
  BY <1>1, ConcatProperties DEF Seen
<1>3. ASSUME NEW s \in Sessions
      PROVE  \/ Seen(s)' = Seen(s)
             \/ s = t /\ Seen(s)' = Append(Seen(s), e)
  <2>1. CASE buffer'[s] = buffer[s]
    BY <2>1 DEF Offer, Seen
  <2>2. CASE s = t /\ buffer'[s] = Append(buffer[s], e)
    BY <1>1, <2>2, AppendToConcat DEF Offer, Seen
  <2> QED
    BY <1>1, <2>1, <2>2 DEF Offer
<1> HIDE DEF e
<1>4. ASSUME NEW s \in Sessions, NEW i \in 1 .. Len(Seen(s))
      PROVE  /\ Seen(s)[i] \in Events
             /\ Seen(s)[i].n <= published[Seen(s)[i].by]
             /\ s \in targets[Seen(s)[i].by] => Seen(s)[i].n < published[Seen(s)[i].by]
  BY <1>2, ElementOfSeq DEF Numbered
<1>5. ASSUME NEW i \in 1 .. Len(Seen(t)) PROVE <<Seen(t)[i], e>> \in After
  BY <1>1, <1>4 DEF After
<1>6. ASSUME NEW s \in Sessions PROVE Ordered(After, Seen(s))'
  <2>1. Ordered(After, Seen(s))
    BY DEF InOrder
  <2>2. CASE Seen(s)' = Seen(s)
    BY <2>1, <2>2 DEF Ordered
  <2>3. CASE s = t /\ Seen(s)' = Append(Seen(s), e)
    <3>1. Ordered(After, Append(Seen(s), e))
      BY <1>1, <1>2, <1>5, <2>1, <2>3, AppendOrdered
    <3> QED
      BY <2>3, <3>1 DEF Ordered
  <2> QED
    BY <1>3, <2>2, <2>3
<1>7. ASSUME NEW s \in Sessions, NEW i \in 1 .. Len(Seen(s)')
      PROVE  /\ Seen(s)'[i].n <= published[Seen(s)'[i].by]
             /\ s \in targets'[Seen(s)'[i].by] => Seen(s)'[i].n < published[Seen(s)'[i].by]
  <2>1. ASSUME i \in 1 .. Len(Seen(s)), Seen(s)'[i] = Seen(s)[i]
        PROVE  /\ Seen(s)'[i].n <= published[Seen(s)'[i].by]
               /\ s \in targets'[Seen(s)'[i].by] => Seen(s)'[i].n < published[Seen(s)'[i].by]
    <3>1. Seen(s)[i].by \in Publishers
      BY <1>4, <2>1 DEF Events
    <3> QED
      BY <1>1, <1>4, <2>1, <3>1
  <2>2. CASE Seen(s)' = Seen(s)
    BY <1>7, <2>1, <2>2
  <2>3. CASE s = t /\ Seen(s)' = Append(Seen(s), e)
    <3>1. /\ Len(Seen(s)) \in Nat /\ Len(Seen(s)') = Len(Seen(s)) + 1
          /\ \A j \in 1 .. Len(Seen(s)) : Seen(s)'[j] = Seen(s)[j]
          /\ Seen(s)'[Len(Seen(s)) + 1] = e
      BY <1>1, <1>2, <2>3, AppendProperties, LenProperties
    <3>2. CASE i \in 1 .. Len(Seen(s))
      BY <2>1, <3>1, <3>2
    <3>3. CASE i = Len(Seen(s)) + 1
      BY <1>1, <2>3, <3>1, <3>3
    <3> QED
      BY <1>7, <3>1, <3>2, <3>3
  <2> QED
    BY <1>3, <2>2, <2>3
<1> QED
  BY <1>1, <1>6, <1>7 DEF InOrder, Numbered

\* A write moves the oldest event from the buffer to the client, or loses it.
LEMMA WriteOrdered ==
  ASSUME HubType, InOrder, Numbered, NEW t \in Sessions, Write(t)
  PROVE  InOrder' /\ Numbered'
<1>1. /\ buffer \in [Sessions -> Seq(Events)] /\ received \in [Sessions -> Seq(Events)]
      /\ buffer[t] # <<>> /\ UNCHANGED <<published, targets>>
  BY DEF HubType, Write
<1>2. ASSUME NEW s \in Sessions
      PROVE  \/ Seen(s)' = Seen(s)
             \/ s = t /\ Seen(s)' = received[s] \o Tail(buffer[s])
  <2>1. CASE s # t
    BY <1>1, <2>1 DEF Write, Seen
  <2>2. CASE s = t /\ client[t] = "connected"
    BY <1>1, <2>2, MoveHead DEF Write, Seen
  <2>3. CASE s = t /\ client[t] # "connected"
    BY <1>1, <2>3 DEF Write, Seen
  <2> QED
    BY <2>1, <2>2, <2>3
<1>3. ASSUME NEW s \in Sessions PROVE Ordered(After, Seen(s))'
  <2>1. Ordered(After, Seen(s))
    BY DEF InOrder
  <2>2. CASE Seen(s)' = Seen(s)
    BY <2>1, <2>2 DEF Ordered
  <2>3. CASE s = t /\ Seen(s)' = received[s] \o Tail(buffer[s])
    <3>1. Ordered(After, received[s] \o Tail(buffer[s]))
      BY <1>1, <2>1, <2>3, SkipHeadOrdered DEF Seen
    <3> QED
      BY <2>3, <3>1 DEF Ordered
  <2> QED
    BY <1>2, <2>2, <2>3
<1>4. ASSUME NEW s \in Sessions, NEW i \in 1 .. Len(Seen(s)')
      PROVE  \E j \in 1 .. Len(Seen(s)) : Seen(s)'[i] = Seen(s)[j]
  <2>1. CASE Seen(s)' = Seen(s)
    BY <1>4, <2>1
  <2>2. CASE s = t /\ Seen(s)' = received[s] \o Tail(buffer[s])
    <3> DEFINE j == IF i <= Len(received[s]) THEN i ELSE i + 1
    <3>1. /\ Len(Seen(s)') = Len(Seen(s)) - 1
          /\ Seen(s)'[i] = Seen(s)[j]
      BY <1>1, <1>4, <2>2, SkipHead DEF Seen
    <3>2. /\ Seen(s) \in Seq(Events) /\ Len(Seen(s)) \in Nat
      BY <1>1, ConcatProperties, LenProperties DEF Seen
    <3>3. j \in 1 .. Len(Seen(s))
      BY <1>4, <3>1, <3>2
    <3> QED
      BY <3>1, <3>3
  <2> QED
    BY <1>2, <2>1, <2>2
<1> QED
  BY <1>1, <1>3, <1>4 DEF InOrder, Numbered

LEMMA StepOrder == HubType /\ Offering /\ InOrder /\ Numbered /\ [Next]_vars
                       => InOrder' /\ Numbered'
<1> SUFFICES ASSUME HubType, Offering, InOrder, Numbered, [Next]_vars
             PROVE  InOrder' /\ Numbered'
  OBVIOUS
<1>0. /\ published \in [Publishers -> Nat]
      /\ targets \in [Publishers -> SUBSET Sessions]
  BY DEF HubType, TypeOK
<1>1. ASSUME NEW p \in Publishers, NEW c \in Channels, NEW t \in Types, Publish(p, c, t)
      PROVE  InOrder' /\ Numbered'
  BY <1>0, <1>1, SameSeen DEF Publish
<1>2. ASSUME NEW p \in Publishers, NEW s \in targets[p], Offer(p, s)
      PROVE  InOrder' /\ Numbered'
  BY <1>2, OfferOrdered
<1>3. ASSUME NEW p \in Publishers, Published(p) PROVE InOrder' /\ Numbered'
  BY <1>0, <1>3, SameSeen DEF Published
<1>4. ASSUME NEW s \in Sessions, Session(s) PROVE InOrder' /\ Numbered'
  <2>1. CASE Write(s)
    BY <2>1, WriteOrdered
  <2>2. CASE Subscribe(s) \/ Unsubscribe(s) \/ Leave(s) \/ Disconnect(s)
    BY <1>0, <2>2, SameSeen DEF Subscribe, Unsubscribe, Leave, Disconnect
  <2> QED
    BY <1>4, <2>1, <2>2 DEF Session
<1>5. CASE UNCHANGED vars
  BY <1>0, <1>5, SameSeen DEF vars
<1> QED
  BY <1>1, <1>2, <1>3, <1>4, <1>5 DEF Next

-----------------------------------------------------------------------------
(* The theorems. *)

LEMMA HubInvariant == Spec => []HubInv
<1>1. HubInv /\ [Next]_vars => HubInv'
  BY StepHubType, StepOffering, StepOrder DEF HubInv
<1> QED
  BY InitHubInv, <1>1, PTL DEF Spec

\* hub.go: every variable of the hub keeps its type; in particular no buffer
\* ever holds more than its channel's capacity.
THEOREM HubTypeCorrect == Spec => []TypeOK
<1>1. HubInv => TypeOK
  BY DEF HubInv, HubType
<1> QED
  BY HubInvariant, <1>1, PTL

\* hub.go:57 and :85: the lock that Publish holds for reading keeps Unsubscribe
\* out, so that no event is offered to a session that has unsubscribed.
THEOREM TargetsSubscribedHolds == Spec => []TargetsSubscribed
<1>1. HubInv => TargetsSubscribed
  BY DEF HubInv
<1> QED
  BY HubInvariant, <1>1, PTL

\* hub.go:85-102 and handler.go: however publishers interleave, and whatever is
\* dropped, a client sees each publisher's events in order and none twice.
THEOREM PublisherOrderHolds == Spec => []PublisherOrder
<1>1. HubInv => PublisherOrder
  <2> SUFFICES ASSUME HubInv, NEW s \in Sessions,
                      NEW i \in 1 .. Len(Seen(s)), NEW j \in 1 .. Len(Seen(s)),
                      i < j, Seen(s)[i].by = Seen(s)[j].by
               PROVE  Seen(s)[i].n < Seen(s)[j].n
    BY DEF PublisherOrder, Seen
  <2>1. <<Seen(s)[i], Seen(s)[j]>> \in After
    BY DEF HubInv, InOrder, Ordered
  <2> QED
    BY <2>1 DEF After
<1> QED
  BY HubInvariant, <1>1, PTL
==============================================================================
