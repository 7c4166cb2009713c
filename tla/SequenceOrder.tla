---------------------------- MODULE SequenceOrder ----------------------------
(***************************************************************************)
(* A sequence in some order, and what keeps it so: what the proofs about   *)
(* the buffers of EventHub and OutputFanout share.                         *)
(***************************************************************************)
EXTENDS SequenceTheorems, TLAPS

\* Each element and each later one are related by R.
Ordered(R, s) == \A i, j \in 1 .. Len(s) : i < j => <<s[i], s[j]>> \in R

\* A sequence stays in order when an element is appended that comes after all.
LEMMA AppendOrdered ==
  ASSUME NEW S, NEW R, NEW s \in Seq(S), NEW e \in S,
         Ordered(R, s),
         \A i \in 1 .. Len(s) : <<s[i], e>> \in R
  PROVE  Ordered(R, Append(s, e))
<1> SUFFICES ASSUME NEW i \in 1 .. Len(s) + 1, NEW j \in 1 .. Len(s) + 1, i < j
             PROVE  <<Append(s, e)[i], Append(s, e)[j]>> \in R
  BY AppendProperties DEF Ordered
<1>1. Len(s) \in Nat
  BY LenProperties
<1>2. i \in 1 .. Len(s) /\ Append(s, e)[i] = s[i]
  BY <1>1, AppendProperties
<1>3. CASE j = Len(s) + 1
  BY <1>2, <1>3, AppendProperties
<1>4. CASE j \in 1 .. Len(s)
  BY <1>2, <1>4, AppendProperties DEF Ordered
<1> QED
  BY <1>1, <1>3, <1>4

\* What is sent on from a buffer stays in its place.
LEMMA MoveHead ==
  ASSUME NEW S, NEW s \in Seq(S), NEW t \in Seq(S), t # <<>>
  PROVE  /\ Append(s, Head(t)) \in Seq(S)
         /\ Append(s, Head(t)) \o Tail(t) = s \o t
<1> DEFINE u == Append(s, Head(t))
<1>1. /\ Head(t) \in S /\ Tail(t) \in Seq(S) /\ Len(Tail(t)) = Len(t) - 1
      /\ \A i \in 1 .. Len(Tail(t)) : Tail(t)[i] = t[i + 1]
      /\ Head(t) = t[1]
  BY HeadTailProperties
<1>2. /\ u \in Seq(S) /\ Len(u) = Len(s) + 1
      /\ \A i \in 1 .. Len(s) : u[i] = s[i]
      /\ u[Len(s) + 1] = t[1]
  BY <1>1, AppendProperties
<1>3. Len(s) \in Nat /\ Len(t) \in Nat \ {0}
  BY LenProperties, EmptySeq
<1> HIDE DEF u
<1>4. /\ u \o Tail(t) \in Seq(S) /\ Len(u \o Tail(t)) = Len(s) + Len(t)
      /\ \A i \in 1 .. Len(s) + Len(t) :
            (u \o Tail(t))[i] = IF i <= Len(s) + 1 THEN u[i] ELSE Tail(t)[i - (Len(s) + 1)]
  <2>1. /\ u \o Tail(t) \in Seq(S) /\ Len(u \o Tail(t)) = Len(u) + Len(Tail(t))
        /\ \A i \in 1 .. Len(u) + Len(Tail(t)) :
              (u \o Tail(t))[i] = IF i <= Len(u) THEN u[i] ELSE Tail(t)[i - Len(u)]
    BY <1>1, <1>2, ConcatProperties
  <2>2. Len(u) + Len(Tail(t)) = Len(s) + Len(t)
    BY <1>1, <1>2, <1>3
  <2> QED
    BY <1>2, <2>1, <2>2
<1>5. /\ s \o t \in Seq(S) /\ Len(s \o t) = Len(s) + Len(t)
      /\ \A i \in 1 .. Len(s) + Len(t) :
            (s \o t)[i] = IF i <= Len(s) THEN s[i] ELSE t[i - Len(s)]
  BY ConcatProperties
<1>6. ASSUME NEW i \in 1 .. Len(s) + Len(t) PROVE (u \o Tail(t))[i] = (s \o t)[i]
  <2>1. CASE i <= Len(s)
    BY <1>2, <1>3, <1>4, <1>5, <2>1
  <2>2. CASE i = Len(s) + 1
    BY <1>2, <1>3, <1>4, <1>5, <2>2
  <2>3. CASE i > Len(s) + 1
    <3>1. i - (Len(s) + 1) \in 1 .. Len(Tail(t))
      BY <1>1, <1>3, <2>3
    <3>2. Tail(t)[i - (Len(s) + 1)] = t[(i - (Len(s) + 1)) + 1]
      BY <1>1, <3>1
    <3>3. (i - (Len(s) + 1)) + 1 = i - Len(s)
      BY <1>3
    <3> QED
      BY <1>3, <1>4, <1>5, <2>3, <3>2, <3>3
  <2>4. Len(s) \in Int /\ i \in Int
    BY <1>3
  <2>5. i <= Len(s) \/ i = Len(s) + 1 \/ i > Len(s) + 1
    BY <2>4
  <2> QED
    BY <2>1, <2>2, <2>3, <2>5
<1> QED
  BY <1>2, <1>4, <1>5, <1>6, SeqEqual DEF u

\* What is dropped from a buffer leaves the rest as it was.
LEMMA SkipHead ==
  ASSUME NEW S, NEW s \in Seq(S), NEW t \in Seq(S), t # <<>>
  PROVE  /\ s \o Tail(t) \in Seq(S)
         /\ Len(s \o Tail(t)) = Len(s \o t) - 1
         /\ \A i \in 1 .. Len(s \o Tail(t)) :
               (s \o Tail(t))[i] = (s \o t)[IF i <= Len(s) THEN i ELSE i + 1]
<1>1. /\ Tail(t) \in Seq(S) /\ Len(Tail(t)) = Len(t) - 1
      /\ \A i \in 1 .. Len(Tail(t)) : Tail(t)[i] = t[i + 1]
  BY HeadTailProperties
<1>2. Len(s) \in Nat /\ Len(t) \in Nat \ {0}
  BY LenProperties, EmptySeq
<1>3. /\ s \o t \in Seq(S) /\ Len(s \o t) = Len(s) + Len(t)
      /\ \A i \in 1 .. Len(s) + Len(t) :
            (s \o t)[i] = IF i <= Len(s) THEN s[i] ELSE t[i - Len(s)]
  BY ConcatProperties
<1>4. /\ s \o Tail(t) \in Seq(S) /\ Len(s \o Tail(t)) = Len(s) + (Len(t) - 1)
      /\ \A i \in 1 .. Len(s) + (Len(t) - 1) :
            (s \o Tail(t))[i] = IF i <= Len(s) THEN s[i] ELSE Tail(t)[i - Len(s)]
  BY <1>1, ConcatProperties
<1>5. ASSUME NEW i \in 1 .. Len(s) + (Len(t) - 1)
      PROVE  (s \o Tail(t))[i] = (s \o t)[IF i <= Len(s) THEN i ELSE i + 1]
  <2>1. CASE i <= Len(s)
    BY <1>2, <1>3, <1>4, <2>1
  <2>2. CASE i > Len(s)
    <3>1. i - Len(s) \in 1 .. Len(Tail(t)) /\ (i + 1) - Len(s) = (i - Len(s)) + 1
      BY <1>1, <1>2, <2>2
    <3>2. Tail(t)[i - Len(s)] = t[(i + 1) - Len(s)]
      BY <1>1, <3>1
    <3> QED
      BY <1>2, <1>3, <1>4, <2>2, <3>2
  <2> QED
    BY <1>2, <2>1, <2>2
<1> QED
  BY <1>2, <1>3, <1>4, <1>5

LEMMA SkipHeadOrdered ==
  ASSUME NEW S, NEW R, NEW s \in Seq(S), NEW t \in Seq(S), t # <<>>,
         Ordered(R, s \o t)
  PROVE  Ordered(R, s \o Tail(t))
<1> DEFINE all == s \o t
           rest == s \o Tail(t)
           place(i) == IF i <= Len(s) THEN i ELSE i + 1
<1>1. Len(all) = Len(rest) + 1 /\ \A i \in 1 .. Len(rest) : rest[i] = all[place(i)]
  BY SkipHead, ConcatProperties, LenProperties
<1>2. Len(s) \in Nat /\ Len(rest) \in Nat
  BY SkipHead, LenProperties
<1>3. \A i, j \in 1 .. Len(all) : i < j => <<all[i], all[j]>> \in R
  BY DEF Ordered
<1> SUFFICES \A i, j \in 1 .. Len(rest) : i < j => <<rest[i], rest[j]>> \in R
  BY DEF Ordered
<1> HIDE DEF all, rest
<1>4. ASSUME NEW i \in 1 .. Len(rest), NEW j \in 1 .. Len(rest), i < j
      PROVE  <<rest[i], rest[j]>> \in R
  <2>1. /\ place(i) \in 1 .. Len(all) /\ place(j) \in 1 .. Len(all)
        /\ place(i) < place(j)
    BY <1>1, <1>2, <1>4
  <2> HIDE DEF place
  <2> QED
    BY <1>1, <1>3, <2>1
<1> QED
  BY <1>4

\* Appending to a buffer appends to what was sent with what is buffered.
LEMMA AppendToConcat ==
  ASSUME NEW S, NEW s \in Seq(S), NEW t \in Seq(S), NEW e \in S
  PROVE  s \o Append(t, e) = Append(s \o t, e)
BY AppendIsConcat, ConcatAssociative, ConcatProperties, <<e>> \in Seq(S)
==============================================================================
