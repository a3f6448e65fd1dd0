--------------------------- MODULE EmitterProofs ---------------------------
(***************************************************************************)
(* The ring of the Emitter and its fan-out, for every capacity and any     *)
(* number of events, producers and sinks.                                  *)
(***************************************************************************)
EXTENDS Emitter, FiniteSetTheorems, TLAPS

(* The index arithmetic of the ring: one lap of % BufferSize. *)
LEMMA OneLap ==
  ASSUME NEW B \in Nat \ {0}, NEW x \in 0..(2 * B - 1)
  PROVE  x % B = IF x < B THEN x ELSE x - B
<1>1. CASE x < B
  BY <1>1
<1>2. CASE x >= B
  <2>1. x = B + (x - B) /\ x - B \in 0..(B - 1)
    BY <1>2
  <2>. QED BY <1>2, <2>1
<1>. QED BY <1>1, <1>2

-----------------------------------------------------------------------------
(* The part of the type invariant that concerns the ring. *)
RingType ==
  /\ buffer \in [Slots -> 0..MaxSeq]
  /\ bufferIdx \in Slots
  /\ bufferLen \in 0..BufferSize
  /\ nextSeq \in 1..(MaxSeq + 1)
  /\ closed \in BOOLEAN

(* Where each envelope sits.  While the ring fills, slot i holds i + 1; once
   full, the slots below bufferIdx hold the newest lap and the others the
   lap before. *)
RingShape ==
  /\ bufferLen < BufferSize =>
       /\ bufferIdx = bufferLen
       /\ nextSeq = bufferLen + 1
       /\ \A i \in Slots : i < bufferLen => buffer[i] = i + 1
  /\ bufferLen = BufferSize => nextSeq > BufferSize
  /\ bufferLen = BufferSize =>
       \A i \in Slots :
         buffer[i] = IF i < bufferIdx THEN nextSeq - bufferIdx + i
                                      ELSE nextSeq - bufferIdx - BufferSize + i

RingInv == RingType /\ RingShape

LEMMA RingInvInit == Init => RingInv
<1>. SUFFICES ASSUME Init PROVE RingInv
  OBVIOUS
<1>. USE EmitterAssumption DEF Slots
<1>1. /\ buffer = [i \in Slots |-> 0] /\ bufferIdx = 0 /\ bufferLen = 0
      /\ nextSeq = 1 /\ closed = FALSE
  BY DEF Init
<1>2. RingType
  <2>1. buffer \in [Slots -> 0..MaxSeq]
    BY <1>1
  <2>2. closed \in BOOLEAN
    BY <1>1
  <2>3. bufferIdx \in Slots /\ bufferLen \in 0..BufferSize /\ nextSeq \in 1..(MaxSeq + 1)
    BY <1>1
  <2>. QED BY <2>1, <2>2, <2>3 DEF RingType
<1>3. RingShape
  BY <1>1 DEF RingShape
<1>. QED BY <1>2, <1>3 DEF RingInv

LEMMA RingInvEmit ==
  ASSUME RingInv, NEW p \in Producers, Emit(p)
  PROVE  RingInv'
<1>. USE EmitterAssumption DEF Slots
<1>1. bufferIdx' = IF bufferIdx + 1 < BufferSize THEN bufferIdx + 1 ELSE 0
  <2>. DEFINE x == bufferIdx + 1
  <2>1. x \in 0..(2 * BufferSize - 1) /\ x <= BufferSize /\ x \in Nat
    BY DEF RingInv, RingType
  <2>2. bufferIdx' = x % BufferSize
    BY DEF Emit, addToBufferLocked
  <2>. HIDE DEF x
  <2>3. x % BufferSize = IF x < BufferSize THEN x ELSE x - BufferSize
    BY <2>1, OneLap
  <2>4. bufferIdx' = IF x < BufferSize THEN x ELSE 0
    BY <2>1, <2>2, <2>3
  <2>. QED BY <2>4 DEF x
<1>2. RingType'
  BY <1>1 DEF RingInv, RingType, Emit, addToBufferLocked
<1>3. RingShape'
  <2>1. CASE bufferLen + 1 < BufferSize
    BY <1>1, <2>1 DEF RingInv, RingType, RingShape, Emit, addToBufferLocked
  <2>2. CASE bufferLen + 1 = BufferSize
    BY <1>1, <2>2 DEF RingInv, RingType, RingShape, Emit, addToBufferLocked
  <2>3. CASE bufferLen = BufferSize
    <3>1. bufferLen' = BufferSize /\ nextSeq' = nextSeq + 1 /\ nextSeq > BufferSize
      BY <2>3 DEF RingInv, RingShape, Emit, addToBufferLocked
    <3>2. nextSeq \in Nat /\ bufferIdx \in Nat /\ bufferIdx < BufferSize
      BY DEF RingInv, RingType
    <3>3. ASSUME NEW i \in Slots
          PROVE  buffer'[i] = IF i < bufferIdx' THEN nextSeq' - bufferIdx' + i
                              ELSE nextSeq' - bufferIdx' - BufferSize + i
      <4>1. buffer'[i] = IF i = bufferIdx THEN nextSeq ELSE buffer[i]
        BY DEF RingInv, RingType, Emit, addToBufferLocked
      <4>2. buffer[i] = IF i < bufferIdx THEN nextSeq - bufferIdx + i
                                         ELSE nextSeq - bufferIdx - BufferSize + i
        BY <2>3 DEF RingInv, RingShape
      <4>. QED BY <1>1, <3>1, <3>2, <4>1, <4>2
    <3>. QED BY <3>1, <3>2, <3>3 DEF RingShape
  <2>. QED BY <2>1, <2>2, <2>3 DEF RingInv, RingType
<1>. QED BY <1>2, <1>3 DEF RingInv

LEMMA RingInvNext == RingInv /\ [Next]_vars => RingInv'
<1>. SUFFICES ASSUME RingInv, [Next]_vars PROVE RingInv'
  OBVIOUS
<1>1. ASSUME NEW p \in Producers, Emit(p) PROVE RingInv'
  BY <1>1, RingInvEmit
<1>2. ASSUME UNCHANGED <<ring, closed>> PROVE RingInv'
  BY <1>2 DEF RingInv, RingType, RingShape, ring
<1>3. ASSUME NEW b \in BOOLEAN, SetClosed(b) PROVE RingInv'
  BY <1>3 DEF RingInv, RingType, RingShape, ring, SetClosed
<1>. QED
  BY <1>1, <1>2, <1>3 DEF Next, vars, WriteSink, EventsFromSeq, AddSink, RemoveSink

LEMMA RingInvAlways == Spec => []RingInv
BY RingInvInit, RingInvNext, PTL DEF Spec

(* The shape of the ring gives its content read from the oldest slot on. *)
LEMMA ShapeGivesSuffix == RingInv => RingIsSuffix
<1>. SUFFICES ASSUME RingInv PROVE RingIsSuffix
  OBVIOUS
<1>. USE EmitterAssumption DEF RingInv, RingType, Slots
<1>1. bufferLen = IF nextSeq - 1 < BufferSize THEN nextSeq - 1 ELSE BufferSize
  BY DEF RingShape
<1>2. ASSUME NEW i \in 1..bufferLen
      PROVE  ringAt(i) = nextSeq - 1 - bufferLen + i
  <2>. DEFINE x == oldestIdx + i - 1
  <2>0. ringAt(i) = buffer[x % BufferSize]
    BY DEF ringAt
  <2>1. CASE bufferLen < BufferSize
    <3>1. x = i - 1 /\ x \in 0..(2 * BufferSize - 1) /\ x < BufferSize
      BY <2>1 DEF oldestIdx
    <3>. HIDE DEF x
    <3>2. x % BufferSize = x
      BY <3>1, OneLap
    <3>. QED BY <2>1, <2>0, <3>1, <3>2 DEF RingShape
  <2>2. CASE bufferLen = BufferSize
    <3>1. x = bufferIdx + i - 1 /\ x \in 0..(2 * BufferSize - 1)
      BY <2>2 DEF oldestIdx
    <3>. HIDE DEF x
    <3>2. x % BufferSize = IF x < BufferSize THEN x ELSE x - BufferSize
      BY <3>1, OneLap
    <3>3. CASE x < BufferSize
      <4>1. ringAt(i) = buffer[x] /\ x \in Slots /\ ~(x < bufferIdx)
        BY <2>2, <2>0, <3>1, <3>2, <3>3
      <4>. QED BY <2>2, <3>1, <4>1 DEF RingShape
    <3>4. CASE x >= BufferSize
      <4>1. ringAt(i) = buffer[x - BufferSize] /\ x - BufferSize \in Slots /\ x - BufferSize < bufferIdx
        BY <2>2, <2>0, <3>1, <3>2, <3>4
      <4>. QED BY <2>2, <3>1, <4>1 DEF RingShape
    <3>. QED BY <3>1, <3>3, <3>4
  <2>. QED BY <2>1, <2>2
<1>. QED BY <1>1, <1>2 DEF RingIsSuffix

(* For every capacity, the ring read from its oldest slot on is the run of
   the newest sequence numbers (addToBufferLocked, EventsFromSeq). *)
THEOREM RingIsSuffixAlways == Spec => []RingIsSuffix
BY RingInvAlways, ShapeGivesSuffix, PTL

-----------------------------------------------------------------------------
(* Reading the ring is reading the window: all the events from startSeq on,
   or the report of a gap (EventsFromSeq). *)
LEMMA RingReadsWindow ==
  ASSUME RingInv, NEW startSeq \in Nat \ {0}
  PROVE  fromSeq(startSeq) = Window!WindowRead(startSeq, nextSeq - 1)
<1>. USE EmitterAssumption
<1>1. RingIsSuffix
  BY ShapeGivesSuffix
<1>2. nextSeq \in Nat /\ nextSeq >= 1 /\ bufferLen \in 0..BufferSize
  BY DEF RingInv, RingType
<1>3. CASE bufferLen = 0
  <2>1. nextSeq - 1 = 0
    BY <1>1, <1>2, <1>3 DEF RingIsSuffix
  <2>2. Window!WindowCovers(startSeq, nextSeq - 1)
    BY <2>1 DEF Window!WindowCovers
  <2>. QED BY <1>3, <2>1, <2>2 DEF fromSeq, Window!WindowRead
<1>4. CASE bufferLen > 0
  <2>. DEFINE oldest == nextSeq - bufferLen
              content == {ringAt(i) : i \in 1..bufferLen}
  <2>1. /\ nextSeq - 1 > 0
        /\ startSeq < oldest => ~Window!WindowCovers(startSeq, nextSeq - 1)
        /\ startSeq >= oldest => Window!WindowCovers(startSeq, nextSeq - 1)
    <3>1. bufferLen = IF nextSeq - 1 < BufferSize THEN nextSeq - 1 ELSE BufferSize
      BY <1>1 DEF RingIsSuffix
    <3>2. CASE nextSeq - 1 < BufferSize
      BY <1>2, <1>4, <3>1, <3>2 DEF Window!WindowCovers
    <3>3. CASE nextSeq - 1 >= BufferSize
      BY <1>2, <1>4, <3>1, <3>3 DEF Window!WindowCovers
    <3>. QED BY <1>2, <3>2, <3>3
  <2>2. content = oldest..(nextSeq - 1)
    <3>1. ASSUME NEW e \in content PROVE e \in oldest..(nextSeq - 1)
      BY <1>1, <1>2, <1>4 DEF RingIsSuffix
    <3>2. ASSUME NEW e \in oldest..(nextSeq - 1) PROVE e \in content
      <4>1. e - oldest + 1 \in 1..bufferLen
        BY <1>2
      <4>2. ringAt(e - oldest + 1) = e
        BY <1>1, <1>2, <4>1 DEF RingIsSuffix
      <4>. QED BY <4>1, <4>2
    <3>. QED BY <3>1, <3>2
  <2>3. buffer[oldestIdx] = oldest
    <3>1. oldestIdx \in 0..(2 * BufferSize - 1) /\ oldestIdx < BufferSize
      BY DEF oldestIdx, RingInv, RingType, Slots
    <3>2. oldestIdx % BufferSize = oldestIdx
      BY <3>1, OneLap
    <3>3. ringAt(1) = buffer[oldestIdx]
      BY <3>1, <3>2 DEF ringAt
    <3>. QED BY <1>1, <1>2, <1>4, <3>3 DEF RingIsSuffix
  <2>4. fromSeq(startSeq) = IF startSeq < oldest
                            THEN [ok |-> FALSE, events |-> {}]
                            ELSE [ok |-> TRUE, events |-> {e \in content : e >= startSeq}]
    BY <1>4, <2>3 DEF fromSeq
  <2>5. CASE startSeq < oldest
    BY <2>1, <2>4, <2>5 DEF Window!WindowRead
  <2>6. CASE startSeq >= oldest
    <3>1. {e \in content : e >= startSeq} = startSeq..(nextSeq - 1)
      BY <1>2, <2>2, <2>6
    <3>2. fromSeq(startSeq) = [ok |-> TRUE, events |-> startSeq..(nextSeq - 1)]
      <4>. HIDE DEF content
      <4>1. ~(startSeq < oldest)
        BY <1>2, <2>6
      <4>. HIDE DEF oldest
      <4>. QED BY <2>4, <3>1, <4>1
    <3>3. Window!WindowRead(startSeq, nextSeq - 1) = [ok |-> TRUE, events |-> startSeq..(nextSeq - 1)]
      <4>1. ~(nextSeq - 1 = 0) /\ Window!WindowCovers(startSeq, nextSeq - 1)
        BY <1>2, <2>1, <2>6
      <4>. QED BY <4>1 DEF Window!WindowRead
    <3>. QED BY <3>2, <3>3
  <2>. QED BY <1>2, <2>5, <2>6
<1>. QED BY <1>2, <1>3, <1>4

LEMMA WindowStep ==
  ASSUME RingInv, [Next]_vars
  PROVE  [Window!WindowNext]_(Window!windowVars)
<1>. USE DEF Window!WindowNext, Window!windowVars, ring, fanout, reading
<1>1. ASSUME NEW p \in Producers, Emit(p) PROVE Window!Accept
  BY <1>1, EmitterAssumption DEF Emit, Window!Accept, RingInv, RingType
<1>2. ASSUME NEW b \in BOOLEAN, SetClosed(b) PROVE Window!Stop
  BY <1>2 DEF SetClosed, Window!Stop
<1>3. ASSUME NEW start \in 1..(MaxSeq + 2), EventsFromSeq(start) PROVE Window!ReadFrom(start)
  BY <1>3, RingReadsWindow, EmitterAssumption DEF EventsFromSeq, Window!ReadFrom
<1>4. ASSUME UNCHANGED <<nextSeq, closed, request, result>> PROVE UNCHANGED Window!windowVars
  BY <1>4
<1>. QED
  BY <1>1, <1>2, <1>3, <1>4 DEF Next, vars, WriteSink, AddSink, RemoveSink

(* The emitter implements the event window for every capacity: a sink that
   asks for the events after its cursor gets all of them or learns that the
   ring no longer has them (Emit, EventsFromSeq). *)
THEOREM EmitterImplementsWindow == Spec => ImplementsWindow
<1>1. Init => Window!WindowInit
  BY DEF Init, Window!WindowInit
<1>2. RingInv /\ [Next]_vars => [Window!WindowNext]_(Window!windowVars)
  BY WindowStep
<1>. QED BY <1>1, <1>2, RingInvAlways, PTL DEF Spec, ImplementsWindow, Window!WindowSpec

-----------------------------------------------------------------------------
(* The fan-out.  A sink is registered once, so a copy of the sinks names it
   once, and an envelope under way has a number that was given out. *)
Distinct(q) == \A i, j \in DOMAIN q : q[i] = q[j] => i = j

FanType ==
  /\ sinks \in Seq(Sinks)
  /\ pending \in [Producers -> Seq(Sinks)]
  /\ envelope \in [Producers -> 0..MaxSeq]
  /\ written \in [Sinks -> Seq(1..MaxSeq)]
  /\ owed \in [Sinks -> SUBSET (1..MaxSeq)]

FanShape ==
  /\ Distinct(sinks) /\ \A p \in Producers : Distinct(pending[p])
  /\ \A p \in Producers : pending[p] # <<>> => envelope[p] \in 1..(nextSeq - 1)
  /\ \A s \in Sinks : owed[s] \subseteq 1..(nextSeq - 1)

FanInv == RingInv /\ FanType /\ FanShape /\ FanoutExact

(* What is left of a sequence of distinct sinks without its head, *)
LEMMA TailFacts ==
  ASSUME NEW q \in Seq(Sinks), q # <<>>, Distinct(q)
  PROVE  /\ Head(q) \in Sinks /\ Tail(q) \in Seq(Sinks) /\ Distinct(Tail(q))
         /\ Head(q) \in Range(q) /\ Range(Tail(q)) = Range(q) \ {Head(q)}
<1>1. /\ Len(q) \in Nat \ {0} /\ DOMAIN q = 1..Len(q) /\ Head(q) = q[1]
      /\ Tail(q) \in Seq(Sinks) /\ DOMAIN Tail(q) = 1..(Len(q) - 1)
      /\ \A i \in 1..(Len(q) - 1) : Tail(q)[i] = q[i + 1]
  OBVIOUS
<1>2. Head(q) \in Sinks /\ Head(q) \in Range(q)
  BY <1>1 DEF Range
<1>3. Distinct(Tail(q))
  BY <1>1 DEF Distinct
<1>4. Range(Tail(q)) \subseteq Range(q) \ {Head(q)}
  BY <1>1 DEF Range, Distinct
<1>5. ASSUME NEW i \in 1..Len(q), i # 1 PROVE q[i] \in Range(Tail(q))
  <2>1. i - 1 \in 1..(Len(q) - 1) /\ Tail(q)[i - 1] = q[i]
    BY <1>1, <1>5
  <2>. QED BY <1>1, <2>1 DEF Range
<1>6. Range(q) \ {Head(q)} \subseteq Range(Tail(q))
  BY <1>1, <1>5 DEF Range
<1>. QED BY <1>1, <1>2, <1>3, <1>4, <1>6

(* with one more at its end, *)
LEMMA AppendFacts ==
  ASSUME NEW S, NEW q \in Seq(S), NEW x \in S
  PROVE  /\ Append(q, x) \in Seq(S) /\ Len(Append(q, x)) = Len(q) + 1
         /\ Range(Append(q, x)) = Range(q) \union {x}
         /\ Distinct(q) /\ x \notin Range(q) => Distinct(Append(q, x))
<1>1. /\ Append(q, x) \in Seq(S) /\ Len(Append(q, x)) = Len(q) + 1
      /\ Len(q) \in Nat /\ DOMAIN q = 1..Len(q)
      /\ DOMAIN Append(q, x) = 1..(Len(q) + 1) /\ Append(q, x)[Len(q) + 1] = x
      /\ \A i \in 1..Len(q) : Append(q, x)[i] = q[i]
  OBVIOUS
<1>2. \A i \in 1..(Len(q) + 1) : i \in 1..Len(q) \/ i = Len(q) + 1
  BY <1>1
<1>3. Range(Append(q, x)) = Range(q) \union {x}
  BY <1>1, <1>2 DEF Range
<1>4. ASSUME Distinct(q), x \notin Range(q) PROVE Distinct(Append(q, x))
  BY <1>1, <1>2, <1>4 DEF Distinct, Range
<1>. QED BY <1>1, <1>3, <1>4

(* and without one of its elements. *)
LEMMA RemoveFacts ==
  ASSUME NEW q \in Seq(Sinks), Distinct(q), NEW k \in 1..Len(q)
  PROVE  /\ SubSeq(q, 1, k - 1) \o SubSeq(q, k + 1, Len(q)) \in Seq(Sinks)
         /\ Distinct(SubSeq(q, 1, k - 1) \o SubSeq(q, k + 1, Len(q)))
<1> DEFINE a == SubSeq(q, 1, k - 1)
           b == SubSeq(q, k + 1, Len(q))
<1>1. /\ a \in Seq(Sinks) /\ Len(a) = k - 1 /\ \A i \in 1..(k - 1) : a[i] = q[i]
      /\ b \in Seq(Sinks) /\ Len(b) = Len(q) - k
      /\ \A i \in 1..(Len(q) - k) : b[i] = q[k + i]
  OBVIOUS
<1> HIDE DEF a, b
<1>2. /\ a \o b \in Seq(Sinks) /\ DOMAIN (a \o b) = 1..(Len(q) - 1)
      /\ \A i \in 1..(Len(q) - 1) : (a \o b)[i] = IF i < k THEN q[i] ELSE q[i + 1]
  BY <1>1
<1>3. ASSUME NEW i \in 1..(Len(q) - 1), NEW j \in 1..(Len(q) - 1), (a \o b)[i] = (a \o b)[j]
      PROVE  i = j
  <2> DEFINE at(n) == IF n < k THEN n ELSE n + 1
  <2>1. Len(q) \in Nat /\ DOMAIN q = 1..Len(q) /\ at(i) \in 1..Len(q) /\ at(j) \in 1..Len(q)
    OBVIOUS
  <2>2. q[at(i)] = q[at(j)]
    BY <1>2, <1>3
  <2>3. at(i) = at(j)
    BY <2>1, <2>2 DEF Distinct
  <2>. QED BY <2>3
<1>4. Distinct(a \o b)
  BY <1>2, <1>3 DEF Distinct
<1>. QED BY <1>2, <1>4 DEF a, b

(* The sets that FanoutExact counts are finite. *)
carried(s) == {p \in Producers : s \in Range(pending[p])}

LEMMA FiniteFacts ==
  ASSUME FanType, NEW s \in Sinks
  PROVE  /\ IsFiniteSet(carried(s)) /\ Cardinality(carried(s)) \in Nat
         /\ IsFiniteSet(owed[s]) /\ Cardinality(owed[s]) \in Nat
<1>1. carried(s) \in SUBSET Producers
  BY DEF carried
<1>2. IsFiniteSet(1..MaxSeq) /\ owed[s] \in SUBSET (1..MaxSeq)
  BY EmitterAssumption, FS_Interval DEF FanType
<1>3. IsFiniteSet(carried(s)) /\ IsFiniteSet(owed[s])
  BY <1>1, <1>2, ProducersAssumption, FS_Subset
<1>. QED BY <1>3, FS_CardinalityType

LEMMA FanInvInit == Init => FanInv
<1>. SUFFICES ASSUME Init PROVE FanInv
  OBVIOUS
<1>1. FanType
  BY EmitterAssumption DEF Init, FanType
<1>2. FanShape
  BY DEF Init, FanShape, Distinct
<1>3. ASSUME NEW s \in Sinks PROVE carried(s) = {} /\ owed[s] = {} /\ written[s] = <<>>
  BY DEF Init, carried, Range
<1>4. ASSUME NEW s \in Sinks
      PROVE  /\ owed[s] = Range(written[s]) \union {envelope[p] : p \in carried(s)}
             /\ Len(written[s]) + Cardinality(carried(s)) = Cardinality(owed[s])
  <2>1. Range(written[s]) = {} /\ Len(written[s]) = 0
    BY <1>3 DEF Range
  <2>2. Cardinality(carried(s)) = 0 /\ Cardinality(owed[s]) = 0
    BY <1>3, FS_EmptySet, ZenonT(30)
  <2>3. {envelope[p] : p \in carried(s)} = {}
    BY <1>3
  <2>. QED BY <1>3, <2>1, <2>2, <2>3
<1>5. FanoutExact
  BY <1>4 DEF FanoutExact, carried
<1>. QED BY <1>1, <1>2, <1>5, RingInvInit DEF FanInv

LEMMA FanInvEmit ==
  ASSUME FanInv, NEW p \in Producers, Emit(p)
  PROVE  FanInv'
<1>1. RingInv'
  BY RingInvEmit DEF FanInv
<1>2. /\ pending[p] = <<>> /\ nextSeq <= MaxSeq /\ nextSeq' = nextSeq + 1
      /\ envelope' = [envelope EXCEPT ![p] = nextSeq]
      /\ pending' = [pending EXCEPT ![p] = sinks]
      /\ owed' = [s \in Sinks |-> IF s \in Range(sinks) THEN owed[s] \union {nextSeq} ELSE owed[s]]
      /\ sinks' = sinks /\ written' = written
  BY DEF Emit
<1>3. nextSeq \in Nat \ {0} /\ nextSeq \in 1..MaxSeq
  BY <1>2, EmitterAssumption DEF FanInv, RingInv, RingType
<1>4. FanType'
  BY <1>2, <1>3 DEF FanInv, FanType
<1>5. FanShape'
  <2>1. Distinct(sinks)' /\ \A q \in Producers : Distinct(pending'[q])
    BY <1>2 DEF FanInv, FanShape, FanType, Distinct
  <2>2. \A q \in Producers : pending'[q] # <<>> => envelope'[q] \in 1..(nextSeq' - 1)
    BY <1>2, <1>3 DEF FanInv, FanShape, FanType
  <2>3. \A s \in Sinks : owed'[s] \subseteq 1..(nextSeq' - 1)
    BY <1>2, <1>3 DEF FanInv, FanShape, FanType
  <2>. QED BY <2>1, <2>2, <2>3 DEF FanShape, Distinct
<1>6. ASSUME NEW s \in Sinks
      PROVE  /\ owed'[s] = Range(written'[s]) \union {envelope'[q] : q \in carried(s)'}
             /\ Len(written'[s]) + Cardinality(carried(s)') = Cardinality(owed'[s])
  <2>1. /\ owed[s] = Range(written[s]) \union {envelope[q] : q \in carried(s)}
        /\ Len(written[s]) + Cardinality(carried(s)) = Cardinality(owed[s])
    BY DEF FanInv, FanoutExact, carried
  <2>2. p \notin carried(s) /\ nextSeq \notin owed[s]
    <3>1. p \notin carried(s)
      BY <1>2 DEF carried, Range
    <3>2. nextSeq \notin owed[s]
      BY <1>3 DEF FanInv, FanShape
    <3>. QED BY <3>1, <3>2
  <2>3. \A q \in Producers : q # p => pending'[q] = pending[q] /\ envelope'[q] = envelope[q]
    BY <1>2 DEF FanInv, FanType
  <2>4. pending'[p] = sinks /\ envelope'[p] = nextSeq
    BY <1>2 DEF FanInv, FanType
  <2>5. CASE s \in Range(sinks)
    <3>1. carried(s)' = carried(s) \union {p} /\ owed'[s] = owed[s] \union {nextSeq}
      BY <1>2, <2>3, <2>4, <2>5 DEF carried
    <3>2. Cardinality(carried(s)') = Cardinality(carried(s)) + 1
      BY <2>2, <3>1, FiniteFacts, FS_AddElement DEF FanInv
    <3>3. Cardinality(owed'[s]) = Cardinality(owed[s]) + 1
      BY <2>2, <3>1, FiniteFacts, FS_AddElement DEF FanInv
    <3>4. {envelope'[q] : q \in carried(s)'} = {envelope[q] : q \in carried(s)} \union {nextSeq}
      BY <2>2, <2>3, <2>4, <3>1 DEF carried
    <3>5. Len(written[s]) \in Nat /\ Cardinality(carried(s)) \in Nat /\ Cardinality(owed[s]) \in Nat
      BY FiniteFacts DEF FanInv, FanType
    <3>6. owed'[s] = Range(written'[s]) \union {envelope'[q] : q \in carried(s)'}
      BY <1>2, <2>1, <3>1, <3>4, ZenonT(30)
    <3>7. Len(written'[s]) + Cardinality(carried(s)') = Cardinality(owed'[s])
      BY <1>2, <2>1, <3>2, <3>3, <3>5
    <3>. QED BY <3>6, <3>7
  <2>6. CASE s \notin Range(sinks)
    <3>1. carried(s)' = carried(s) /\ owed'[s] = owed[s]
      BY <1>2, <2>2, <2>3, <2>4, <2>6 DEF carried
    <3>2. {envelope'[q] : q \in carried(s)'} = {envelope[q] : q \in carried(s)}
      BY <2>2, <2>3, <3>1 DEF carried
    <3>. QED BY <1>2, <2>1, <3>1, <3>2
  <2>. QED BY <2>5, <2>6
<1>7. FanoutExact'
  BY <1>6 DEF FanoutExact, carried
<1>. QED BY <1>1, <1>4, <1>5, <1>7 DEF FanInv

LEMMA FanInvWrite ==
  ASSUME FanInv, NEW p \in Producers, WriteSink(p)
  PROVE  FanInv'
<1> DEFINE t == Head(pending[p])
<1>1. /\ pending[p] # <<>>
      /\ pending' = [pending EXCEPT ![p] = Tail(@)]
      /\ written' = [written EXCEPT ![t] = Append(@, envelope[p])]
      /\ UNCHANGED <<ring, closed, sinks, envelope, owed>>
  BY DEF WriteSink
<1>2. RingInv'
  BY <1>1, RingInvNext DEF FanInv, Next, WriteSink
<1>3. /\ t \in Sinks /\ Tail(pending[p]) \in Seq(Sinks) /\ Distinct(Tail(pending[p]))
      /\ t \in Range(pending[p]) /\ Range(Tail(pending[p])) = Range(pending[p]) \ {t}
  BY <1>1, TailFacts DEF FanInv, FanType, FanShape
<1> HIDE DEF t
<1>4. /\ pending'[p] = Tail(pending[p])
      /\ \A q \in Producers : q # p => pending'[q] = pending[q]
      /\ written'[t] = Append(written[t], envelope[p])
      /\ \A s \in Sinks : s # t => written'[s] = written[s]
  BY <1>1, <1>3 DEF FanInv, FanType
<1>5. envelope[p] \in 1..MaxSeq /\ written[t] \in Seq(1..MaxSeq)
  BY <1>1, <1>3, EmitterAssumption DEF FanInv, FanShape, FanType, RingInv, RingType
<1>6. /\ written'[t] \in Seq(1..MaxSeq) /\ Len(written'[t]) = Len(written[t]) + 1
      /\ Range(written'[t]) = Range(written[t]) \union {envelope[p]}
  <2> DEFINE N == 1..MaxSeq
             q == written[t]
             x == envelope[p]
  <2>1. q \in Seq(N) /\ x \in N
    BY <1>5
  <2> HIDE DEF N, q, x
  <2>2. /\ Append(q, x) \in Seq(N) /\ Len(Append(q, x)) = Len(q) + 1
        /\ Range(Append(q, x)) = Range(q) \union {x}
    BY <2>1, AppendFacts, SMTT(30)
  <2>. QED BY <1>4, <2>2, ZenonT(30) DEF N, q, x
<1>7. FanType'
  BY <1>1, <1>3, <1>4, <1>6 DEF FanInv, FanType
<1>8. FanShape'
  <2>1. nextSeq' = nextSeq /\ sinks' = sinks /\ envelope' = envelope /\ owed' = owed
    BY <1>1 DEF ring
  <2>2. \A q \in Producers : Distinct(pending'[q])
    BY <1>3, <1>4 DEF FanInv, FanShape
  <2>3. \A q \in Producers : pending'[q] # <<>> => envelope[q] \in 1..(nextSeq - 1)
    BY <1>1, <1>4 DEF FanInv, FanShape
  <2>. QED BY <2>1, <2>2, <2>3 DEF FanInv, FanShape, Distinct
<1>9. ASSUME NEW s \in Sinks
      PROVE  /\ owed'[s] = Range(written'[s]) \union {envelope'[q] : q \in carried(s)'}
             /\ Len(written'[s]) + Cardinality(carried(s)') = Cardinality(owed'[s])
  <2>1. /\ owed[s] = Range(written[s]) \union {envelope[q] : q \in carried(s)}
        /\ Len(written[s]) + Cardinality(carried(s)) = Cardinality(owed[s])
    BY DEF FanInv, FanoutExact, carried
  <2>2. CASE s = t
    <3>1. carried(s)' = carried(s) \ {p} /\ p \in carried(s)
      BY <1>3, <1>4, <2>2 DEF carried
    <3>2. Cardinality(carried(s)') = Cardinality(carried(s)) - 1
      BY <3>1, FiniteFacts, FS_RemoveElement, ZenonT(30) DEF FanInv
    <3>3. {envelope[q] : q \in carried(s)'} \union {envelope[p]} = {envelope[q] : q \in carried(s)}
      BY <3>1
    <3>4. Len(written[s]) \in Nat /\ Cardinality(carried(s)) \in Nat
      BY FiniteFacts DEF FanInv, FanType
    <3>5. owed'[s] = Range(written'[s]) \union {envelope'[q] : q \in carried(s)'}
      BY <1>1, <1>6, <2>1, <2>2, <3>3, ZenonT(30)
    <3>. QED BY <1>1, <1>6, <2>1, <2>2, <3>2, <3>4, <3>5
  <2>3. CASE s # t
    <3>1. carried(s)' = carried(s)
      BY <1>3, <1>4, <2>3 DEF carried
    <3>. QED BY <1>1, <1>4, <2>1, <2>3, <3>1
  <2>. QED BY <2>2, <2>3
<1>10. FanoutExact'
  BY <1>9 DEF FanoutExact, carried
<1>. QED BY <1>2, <1>7, <1>8, <1>10 DEF FanInv

LEMMA FanInvNext == FanInv /\ [Next]_vars => FanInv'
<1>. SUFFICES ASSUME FanInv, [Next]_vars PROVE FanInv'
  OBVIOUS
<1>1. ASSUME NEW p \in Producers, Emit(p) PROVE FanInv'
  BY <1>1, FanInvEmit
<1>2. ASSUME NEW p \in Producers, WriteSink(p) PROVE FanInv'
  BY <1>2, FanInvWrite
<1>3. RingInv'
  BY RingInvNext DEF FanInv
<1>4. ASSUME UNCHANGED <<ring, fanout>>, sinks' \in Seq(Sinks), Distinct(sinks)' PROVE FanInv'
  <2>1. FanType'
    BY <1>4 DEF FanInv, FanType, fanout
  <2>2. FanShape'
    BY <1>4 DEF FanInv, FanShape, Distinct, ring, fanout
  <2>3. FanoutExact'
    BY <1>4 DEF FanInv, FanoutExact, fanout
  <2>. QED BY <1>3, <2>1, <2>2, <2>3 DEF FanInv
<1>5. ASSUME UNCHANGED <<ring, fanout, sinks>> PROVE FanInv'
  BY <1>4, <1>5 DEF FanInv, FanType, FanShape, Distinct
<1>6. ASSUME NEW s \in Sinks, AddSink(s) PROVE FanInv'
  <2>1. sinks' \in Seq(Sinks) /\ Distinct(sinks')
    BY <1>6, AppendFacts DEF AddSink, FanInv, FanType, FanShape
  <2>. QED BY <1>4, <1>6, <2>1 DEF AddSink, Distinct
<1>7. ASSUME NEW s \in Sinks, RemoveSink(s) PROVE FanInv'
  <2>1. sinks' \in Seq(Sinks) /\ Distinct(sinks')
    BY <1>7, RemoveFacts DEF RemoveSink, FanInv, FanType, FanShape
  <2>. QED BY <1>4, <1>7, <2>1 DEF RemoveSink, Distinct
<1>. QED
  BY <1>1, <1>2, <1>5, <1>6, <1>7 DEF Next, vars, EventsFromSeq, SetClosed

(* Whatever producers, registrations and removals do between the lock and
   the sink writes, every sink is given exactly the envelopes emitted while
   it was registered, each once (Emit's copy of the sinks). *)
THEOREM FanoutExactAlways == Spec => []FanoutExact
<1>1. FanInv => FanoutExact
  BY DEF FanInv
<1>. QED BY FanInvInit, FanInvNext, <1>1, PTL DEF Spec

ReadType ==
  /\ request \in 0..(MaxSeq + 2)
  /\ result.ok \in BOOLEAN /\ result.events \subseteq 1..MaxSeq

(* A read returns numbers that were given out. *)
LEMMA ReadFacts ==
  ASSUME RingInv, NEW startSeq
  PROVE  fromSeq(startSeq).ok \in BOOLEAN /\ fromSeq(startSeq).events \subseteq 1..MaxSeq
<1>1. RingIsSuffix
  BY ShapeGivesSuffix
<1>2. /\ nextSeq \in 1..(MaxSeq + 1) /\ bufferLen \in 0..BufferSize
      /\ bufferLen <= nextSeq - 1
  BY <1>1, EmitterAssumption DEF RingInv, RingType, RingIsSuffix
<1>3. \A i \in 1..bufferLen : ringAt(i) \in 1..MaxSeq
  BY <1>1, <1>2, EmitterAssumption DEF RingIsSuffix
<1>. QED BY <1>3 DEF fromSeq

(* Every variable keeps its type: in particular no sink is ever given, and
   no read ever returns, a number that Emit has not given out. *)
THEOREM EmitterTypes == Spec => []TypeOK
<1>1. Init => ReadType
  BY EmitterAssumption DEF Init, ReadType
<1>2. ASSUME RingInv, ReadType, [Next]_vars PROVE ReadType'
  <2>1. ASSUME NEW startSeq \in 1..(MaxSeq + 2), EventsFromSeq(startSeq) PROVE ReadType'
    BY <1>2, <2>1, ReadFacts, EmitterAssumption DEF EventsFromSeq, ReadType
  <2>2. ASSUME UNCHANGED reading PROVE ReadType'
    BY <1>2, <2>2 DEF reading, ReadType
  <2>. QED
    BY <1>2, <2>1, <2>2 DEF Next, vars, Emit, WriteSink, AddSink, RemoveSink, SetClosed
<1>3. FanInv /\ ReadType => TypeOK
  BY DEF FanInv, FanType, ReadType, RingInv, RingType, TypeOK
<1>. QED BY <1>1, <1>2, <1>3, RingInvAlways, FanInvInit, FanInvNext, PTL DEF Spec
=============================================================================
