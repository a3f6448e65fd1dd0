------------------------------ MODULE Emitter ------------------------------
(***************************************************************************)
(* The probe's Emitter (probe/emitter.go): concurrent producers call Emit, *)
(* which numbers the envelope and stores it in a ring under the lock, and  *)
(* writes it to the sinks after the lock is released.  An envelope is its  *)
(* sequence number; 0 is the nil slot of the ring.                         *)
(***************************************************************************)
EXTENDS Integers, Sequences, FiniteSets, Functions

CONSTANTS Producers,    \* goroutines that call Emit
          Sinks,        \* sinks that may be registered
          BufferSize,   \* len(e.buffer)
          MaxSeq        \* bound: number of envelopes emitted

ASSUME EmitterAssumption == BufferSize \in Nat \ {0} /\ MaxSeq \in Nat
ASSUME ProducersAssumption == IsFiniteSet(Producers)

VARIABLES buffer, bufferIdx, bufferLen, nextSeq, closed,
          sinks,       \* registered sinks, in the order of registration
          pending,     \* per producer: sinks still to be given its envelope
          envelope,    \* per producer: the envelope it is fanning out
          request, result,   \* argument and result of the latest EventsFromSeq
          written,     \* history: per sink, the envelopes given to it, in order
          owed         \* history: per sink, the envelopes emitted while it was registered

ring == <<buffer, bufferIdx, bufferLen, nextSeq>>
fanout == <<pending, envelope, written, owed>>
reading == <<request, result>>
vars == <<ring, closed, sinks, fanout, reading>>

Slots == 0..(BufferSize - 1)

(* NewEmitter: sequence numbers start at 1, 0 is kept for snapshots. *)
Init ==
  /\ buffer = [i \in Slots |-> 0] /\ bufferIdx = 0 /\ bufferLen = 0
  /\ nextSeq = 1
  /\ closed = FALSE
  /\ sinks = <<>>
  /\ pending = [p \in Producers |-> <<>>]
  /\ envelope = [p \in Producers |-> 0]
  /\ request = 0 /\ result = [ok |-> TRUE, events |-> {}]
  /\ written = [s \in Sinks |-> <<>>]
  /\ owed = [s \in Sinks |-> {}]

addToBufferLocked(env) ==
  /\ buffer' = [buffer EXCEPT ![bufferIdx] = env]
  /\ bufferIdx' = (bufferIdx + 1) % BufferSize
  /\ bufferLen' = IF bufferLen < BufferSize THEN bufferLen + 1 ELSE bufferLen

(* The locked part of Emit; the goroutine is past its previous envelope. *)
Emit(p) ==
  /\ pending[p] = <<>>
  /\ ~closed
  /\ nextSeq <= MaxSeq
  /\ addToBufferLocked(nextSeq)
  /\ nextSeq' = nextSeq + 1
  /\ envelope' = [envelope EXCEPT ![p] = nextSeq]
  /\ pending' = [pending EXCEPT ![p] = sinks]
  /\ owed' = [s \in Sinks |-> IF s \in Range(sinks) THEN owed[s] \union {nextSeq} ELSE owed[s]]
  /\ UNCHANGED <<closed, sinks, reading, written>>

(* Mutant: the loop skips sinks that were removed after the unlock. *)
WriteSink_OnlyRegistered(p) ==
  /\ pending[p] # <<>>
  /\ pending' = [pending EXCEPT ![p] = Tail(@)]
  /\ written' = IF Head(pending[p]) \in Range(sinks)
                THEN [written EXCEPT ![Head(pending[p])] = Append(@, envelope[p])] ELSE written
  /\ UNCHANGED <<ring, closed, sinks, envelope, reading, owed>>

(* One iteration of Emit's loop over the copied sinks, without the lock. *)
WriteSink(p) ==
  /\ pending[p] # <<>>
  /\ pending' = [pending EXCEPT ![p] = Tail(@)]
  /\ written' = [written EXCEPT ![Head(pending[p])] = Append(@, envelope[p])]
  /\ UNCHANGED <<ring, closed, sinks, envelope, reading, owed>>

(* Mutant: a ring that has wrapped is read from its first slot. *)
oldestIdx_First == 0

oldestIdx == IF bufferLen = BufferSize THEN bufferIdx ELSE 0

(* The i-th oldest envelope of the ring, 1 <= i <= bufferLen. *)
ringAt(i) == buffer[(oldestIdx + i - 1) % BufferSize]

(* Mutant: a gap of one event passes for covered. *)
fromSeq_OffByOne(startSeq) ==
  IF bufferLen = 0
  THEN [ok |-> TRUE, events |-> {}]
  ELSE IF startSeq + 1 < buffer[oldestIdx]
       THEN [ok |-> FALSE, events |-> {}]
       ELSE [ok |-> TRUE,
             events |-> {e \in {ringAt(i) : i \in 1..bufferLen} : e >= startSeq}]

(* The filtered loop over the ring; ringAt(i) ascends with i (RingIsSuffix),
   so the set of numbers also gives the order of the returned slice. *)
fromSeq(startSeq) ==
  IF bufferLen = 0
  THEN [ok |-> TRUE, events |-> {}]
  ELSE IF startSeq < buffer[oldestIdx]
       THEN [ok |-> FALSE, events |-> {}]
       ELSE [ok |-> TRUE,
             events |-> {e \in {ringAt(i) : i \in 1..bufferLen} : e >= startSeq}]

EventsFromSeq(startSeq) ==
  /\ request' = startSeq /\ result' = fromSeq(startSeq)
  /\ UNCHANGED <<ring, closed, sinks, fanout>>

(* Wrap registers each sink once. *)
AddSink(s) ==
  /\ s \notin Range(sinks)
  /\ sinks' = Append(sinks, s)
  /\ UNCHANGED <<ring, closed, fanout, reading>>

(* The first occurrence is cut out. *)
RemoveSink(s) ==
  /\ \E i \in 1..Len(sinks) :
       /\ sinks[i] = s /\ \A j \in 1..(i - 1) : sinks[j] # s
       /\ sinks' = SubSeq(sinks, 1, i - 1) \o SubSeq(sinks, i + 1, Len(sinks))
  /\ UNCHANGED <<ring, closed, fanout, reading>>

SetClosed(b) ==
  /\ closed' = b
  /\ UNCHANGED <<ring, sinks, fanout, reading>>

Next ==
  \/ \E p \in Producers : Emit(p) \/ WriteSink(p)
  \/ \E startSeq \in 1..(MaxSeq + 2) : EventsFromSeq(startSeq)
  \/ \E s \in Sinks : AddSink(s) \/ RemoveSink(s)
  \/ \E b \in BOOLEAN : SetClosed(b)

Spec == Init /\ [][Next]_vars
-----------------------------------------------------------------------------
(* Every variable of the emitter has its type, and nothing it stores or
   hands to a sink is outside the numbers given out (Emit). *)
TypeOK ==
  /\ buffer \in [Slots -> 0..MaxSeq]
  /\ bufferIdx \in Slots
  /\ bufferLen \in 0..BufferSize
  /\ nextSeq \in 1..(MaxSeq + 1)
  /\ closed \in BOOLEAN
  /\ sinks \in Seq(Sinks)
  /\ pending \in [Producers -> Seq(Sinks)]
  /\ envelope \in [Producers -> 0..MaxSeq]
  /\ written \in [Sinks -> Seq(1..MaxSeq)]
  /\ owed \in [Sinks -> SUBSET (1..MaxSeq)]
  /\ request \in 0..(MaxSeq + 2)
  /\ result.ok \in BOOLEAN /\ result.events \in SUBSET (1..MaxSeq)

(* Read from its oldest slot on, the ring is the run of the newest sequence
   numbers, without a hole and in ascending order, across every wrap-around
   of bufferIdx (addToBufferLocked, EventsFromSeq). *)
RingIsSuffix ==
  /\ bufferLen = IF nextSeq - 1 < BufferSize THEN nextSeq - 1 ELSE BufferSize
  /\ \A i \in 1..bufferLen : ringAt(i) = nextSeq - 1 - bufferLen + i

(* Whatever producers, registrations and removals do between the lock and the
   sink writes, a sink gets exactly the envelopes emitted while it was
   registered, each of them once: those already written to it and those some
   producer is still carrying (Emit's copy of the sinks). *)
FanoutExact ==
  \A s \in Sinks :
    LET carried == {p \in Producers : s \in Range(pending[p])}
    IN  /\ owed[s] = Range(written[s]) \union {envelope[p] : p \in carried}
        /\ Len(written[s]) + Cardinality(carried) = Cardinality(owed[s])

Window == INSTANCE EventWindow WITH last <- nextSeq - 1, stopped <- closed, answer <- result

(* The emitter with its ring implements the event window: EventsFromSeq
   returns everything from the requested number on, or reports the gap. *)
ImplementsWindow == Window!WindowSpec
=============================================================================
