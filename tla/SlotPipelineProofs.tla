------------------------- MODULE SlotPipelineProofs -------------------------
(***************************************************************************)
(* Proofs about SlotPipeline, for any number of workers, slots, late       *)
(* chunks and restarts, and any size of memory, channel and batches.       *)
(*                                                                         *)
(* LeftSlotsAreFinalized and WrittenIsComplete are not inductive.  Known   *)
(* says that the aggregate of lastSlot is in memory, so that leaving the   *)
(* slot builds its detail; Closed that what is on its way is complete and  *)
(* of a slot to which no further chunk comes in order.  Requests is what a *)
(* listing rests on, InOrder the bound of the memory, and Chain, for one   *)
(* worker, the eviction.                                                   *)
(***************************************************************************)
EXTENDS SlotPipeline, FiniteSetTheorems, TLAPS

Known == aggregated # {} => lastSlot \in DOMAIN slots

closed(d) ==
  /\ d.finalized
  /\ d.slot < lastSlot
  /\ d.slot \in DOMAIN slots => d.chunks = slots[d.slot]

Closed == late = 0 =>
  /\ \A w \in Workers : carrying[w] # NoDetail => closed(carrying[w])
  /\ \A i \in 1..Len(finalizeCh) : closed(finalizeCh[i])
  /\ \A s \in written : s < lastSlot

Window == cutoff # None => cutoff = 0 \/ cutoff + Retention <= now

IInv == TypeOK /\ Known /\ Closed /\ LeftSlotsAreFinalized /\ WrittenIsComplete /\ Window

LEMMA PutGrows == \A k, v : DOMAIN rows \subseteq DOMAIN Put(rows, k, v)
BY DEF Put

(* A detail is not "no detail". *)
LEMMA DetailFacts ==
  \A d \in Detail : d # NoDetail /\ d.slot \in Slots /\ d.slot # None
                    /\ d.chunks \in 1..MaxChunks /\ d.finalized \in BOOLEAN
BY DEF Detail, NoDetail, None, Slots

LEMMA KeptFacts == \A s : \A keep \in kept(s) : keep \subseteq DOMAIN slots
BY DEF kept

(* What a chunk of slot s leaves in memory. *)
LEMMA ChunkFacts ==
  ASSUME TypeOK, NEW w \in Workers, NEW s \in Slots, HandleChunk(w, s)
  PROVE  /\ s \in DOMAIN slots' /\ slots'[s] \in 1..MaxChunks
         /\ DOMAIN slots' \subseteq DOMAIN slots \union {s}
         /\ \A x \in DOMAIN slots' : x # s => slots'[x] = slots[x]
<1>1. PICK keep \in kept(s) :
        /\ Count(s, keep) < MaxChunks
        /\ slots' = Put(Restrict(slots, keep), s, Count(s, keep) + 1)
  BY DEF HandleChunk
<1>2. keep \subseteq DOMAIN slots
  BY KeptFacts
<1>3. Count(s, keep) + 1 \in 1..MaxChunks
  BY <1>1, <1>2, PipelineAssumption DEF Count, TypeOK
<1>4. DOMAIN slots' = keep \union {s} /\ slots'[s] = Count(s, keep) + 1
  BY <1>1 DEF Put, Restrict
<1>5. \A x \in keep : x # s => slots'[x] = slots[x]
  BY <1>1 DEF Put, Restrict
<1> QED
  BY <1>2, <1>3, <1>4, <1>5

(* The detail that leaving a slot builds. *)
LEMMA BuiltFacts ==
  ASSUME TypeOK, lastSlot \in DOMAIN slots
  PROVE  buildSlotDetail(lastSlot) \in Detail
<1>1. lastSlot \in Slots /\ slots[lastSlot] \in 1..MaxChunks
  BY DEF TypeOK
<1>2. (lastSlot < now) \in BOOLEAN
  OBVIOUS
<1> QED
  BY <1>1, <1>2 DEF buildSlotDetail, Detail

LEMMA InitIInv == Init => IInv
<1> SUFFICES ASSUME Init PROVE IInv
  OBVIOUS
<1>1. DOMAIN slots = {} /\ DOMAIN rows = {}
  BY DEF Init
<1>2. TypeOK
  BY <1>1, PipelineAssumption DEF Init, TypeOK, Slots
<1>3. Known /\ Closed /\ Window
  BY DEF Init, Known, Closed, Window
<1>4. LeftSlotsAreFinalized /\ WrittenIsComplete
  BY DEF Init, LeftSlotsAreFinalized, WrittenIsComplete
<1> QED
  BY <1>2, <1>3, <1>4 DEF IInv

LEMMA ChunkIInv ==
  ASSUME IInv, NEW w \in Workers, NEW s \in Slots, HandleChunk(w, s)
  PROVE  IInv'
<1> USE DEF IInv
<1>1. /\ s \in DOMAIN slots' /\ slots'[s] \in 1..MaxChunks
      /\ DOMAIN slots' \subseteq DOMAIN slots \union {s}
      /\ \A x \in DOMAIN slots' : x # s => slots'[x] = slots[x]
  BY ChunkFacts
<1>2. /\ lastSlot' = s /\ aggregated' = aggregated \union {s} /\ s <= now
      /\ late' = IF s < lastSlot THEN late + 1 ELSE late
      /\ s < lastSlot => late < MaxLate
      /\ carrying[w] = NoDetail
      /\ carrying' = [carrying EXCEPT ![w] =
           IF leaves(s) /\ lastSlot \in DOMAIN slots
           THEN buildSlotDetail(lastSlot) ELSE NoDetail]
      /\ UNCHANGED <<now, finalizeCh, rows, written, gone, cutoff, request, restarts>>
  BY DEF HandleChunk, store
<1>3. TypeOK'
  <2>1. lastSlot' \in Slots /\ aggregated' \subseteq Slots /\ DOMAIN slots' \subseteq Slots
    BY <1>1, <1>2 DEF TypeOK
  <2>2. \A x \in DOMAIN slots' : slots'[x] \in 1..MaxChunks
    BY <1>1 DEF TypeOK
  <2>3. late' \in 0..MaxLate
    BY <1>2, PipelineAssumption DEF TypeOK
  <2>4. carrying' \in [Workers -> Detail \union {NoDetail}]
    BY <1>2, BuiltFacts DEF TypeOK
  <2> QED
    BY <1>2, <2>1, <2>2, <2>3, <2>4 DEF TypeOK
<1>4. Known' /\ Window'
  BY <1>1, <1>2 DEF Known, Window
<1>5. ASSUME late' = 0 PROVE late = 0 /\ lastSlot <= s
  BY <1>2, <1>5 DEF TypeOK, Slots
<1>6. Closed'
  <2> SUFFICES ASSUME late' = 0
               PROVE  /\ \A v \in Workers : carrying'[v] # NoDetail => closed(carrying[v])'
                      /\ \A i \in 1..Len(finalizeCh) : closed(finalizeCh[i])'
                      /\ \A x \in written : x < s
    BY <1>2 DEF Closed
  <2>1. ASSUME NEW d \in Detail, closed(d)
        PROVE  /\ d.finalized /\ d.slot < s
               /\ d.slot \in DOMAIN slots' => d.chunks = slots'[d.slot]
    <3>1. d.slot \in Slots /\ d.slot < lastSlot
      BY <2>1, DetailFacts DEF closed
    <3>2. d.slot < s /\ d.slot # s
      BY <3>1, <1>5 DEF TypeOK, Slots
    <3> QED
      BY <2>1, <3>2, <1>1 DEF closed
  <2>2. ASSUME NEW v \in Workers, carrying'[v] # NoDetail PROVE closed(carrying[v])'
    <3>1. CASE v # w
      <4>1. carrying'[v] = carrying[v] /\ carrying[v] \in Detail
        BY <1>2, <2>2, <3>1 DEF TypeOK
      <4>2. closed(carrying[v])
        BY <1>5, <2>2, <4>1 DEF Closed
      <4> QED
        BY <1>2, <2>1, <4>1, <4>2 DEF closed
    <3>2. CASE v = w
      <4>1. /\ leaves(s) /\ lastSlot \in DOMAIN slots
            /\ carrying'[v] = buildSlotDetail(lastSlot)
        BY <1>2, <2>2, <3>2 DEF TypeOK
      <4>2. /\ carrying'[v].slot = lastSlot /\ carrying'[v].chunks = slots[lastSlot]
            /\ carrying'[v].finalized = (lastSlot < now)
        BY <4>1 DEF buildSlotDetail
      <4>3. lastSlot < s /\ lastSlot < now
        BY <4>1, <1>2 DEF leaves, TypeOK, Slots
      <4>4. lastSlot \in DOMAIN slots' => slots'[lastSlot] = slots[lastSlot]
        BY <1>1, <4>3 DEF TypeOK, Slots
      <4> QED
        BY <1>2, <4>2, <4>3, <4>4 DEF closed
    <3> QED
      BY <3>1, <3>2
  <2>3. ASSUME NEW i \in 1..Len(finalizeCh) PROVE closed(finalizeCh[i])'
    <3>1. finalizeCh[i] \in Detail /\ closed(finalizeCh[i])
      BY <1>5, <2>3 DEF TypeOK, Closed
    <3> QED
      BY <1>2, <2>1, <3>1 DEF closed
  <2>4. \A x \in written : x < s
    BY <1>5 DEF Closed, TypeOK, Slots
  <2> QED
    BY <2>2, <2>3, <2>4
<1>7. LeftSlotsAreFinalized'
  <2> SUFFICES ASSUME late' = 0, NEW x \in aggregated \ {0, s}, x # s
               PROVE  x \in DOMAIN rows \union onTheWay' \union gone
    BY <1>2 DEF LeftSlotsAreFinalized
  <2>1. CASE x = lastSlot
    <3>1. leaves(s) /\ lastSlot \in DOMAIN slots
      BY <1>5, <2>1 DEF leaves, Known, TypeOK, Slots
    <3>2. carrying'[w].slot = x
      BY <1>2, <2>1, <3>1 DEF buildSlotDetail, TypeOK
    <3> QED
      BY <3>2 DEF onTheWay, carried, TypeOK, Slots, None
  <2>2. CASE x # lastSlot
    <3>1. x \in DOMAIN rows \union onTheWay \union gone
      BY <1>5, <2>2 DEF LeftSlotsAreFinalized
    <3>2. ASSUME NEW v \in Workers, carrying[v].slot = x, x # None
          PROVE  carrying'[v].slot = x
      BY <1>2, <3>2 DEF TypeOK, NoDetail
    <3>3. x \in carried => x \in carried'
      BY <3>2 DEF carried
    <3> QED
      BY <1>2, <3>1, <3>3 DEF onTheWay, queued
  <2> QED
    BY <2>1, <2>2
<1>8. WrittenIsComplete'
  <2> SUFFICES ASSUME late' = 0, NEW x \in written \intersect DOMAIN rows
               PROVE  /\ rows[x].finalized
                      /\ x \in DOMAIN slots' => rows[x].chunks = slots'[x]
    BY <1>2 DEF WrittenIsComplete
  <2>1. x # s
    BY <1>5 DEF Closed, TypeOK, Slots
  <2> QED
    BY <1>1, <1>5, <2>1 DEF WrittenIsComplete
<1> QED
  BY <1>3, <1>4, <1>6, <1>7, <1>8

(* A detail is appended to finalizeCh. *)
LEMMA AppendFacts ==
  ASSUME finalizeCh \in Seq(Detail), NEW d \in Detail, finalizeCh' = Append(finalizeCh, d)
  PROVE  /\ finalizeCh' \in Seq(Detail)
         /\ Len(finalizeCh) \in Nat /\ Len(finalizeCh') = Len(finalizeCh) + 1
         /\ \A i \in 1..Len(finalizeCh) : i \in 1..Len(finalizeCh') /\ finalizeCh'[i] = finalizeCh[i]
         /\ Len(finalizeCh) + 1 \in 1..Len(finalizeCh') /\ finalizeCh'[Len(finalizeCh) + 1] = d
         /\ \A i \in 1..Len(finalizeCh') : i \in 1..Len(finalizeCh) \/ i = Len(finalizeCh) + 1
<1>1. /\ finalizeCh' \in Seq(Detail)
      /\ Len(finalizeCh) \in Nat /\ Len(finalizeCh') = Len(finalizeCh) + 1
  OBVIOUS
<1>2. \A i \in 1..Len(finalizeCh) : i \in 1..Len(finalizeCh') /\ finalizeCh'[i] = finalizeCh[i]
  BY <1>1
<1>3. Len(finalizeCh) + 1 \in 1..Len(finalizeCh') /\ finalizeCh'[Len(finalizeCh) + 1] = d
  BY <1>1
<1>4. \A i \in 1..Len(finalizeCh') : i \in 1..Len(finalizeCh) \/ i = Len(finalizeCh) + 1
  BY <1>1
<1> QED
  BY <1>1, <1>2, <1>3, <1>4

(* A detail that waits is handed over, stored or dropped: the aggregates,  *)
(* lastSlot and late stay, so that what was closed stays closed.           *)
LEMMA OnFinalizeIInv ==
  ASSUME IInv, NEW w \in Workers, OnFinalize(w)
  PROVE  IInv'
<1> USE DEF IInv
<1>1. /\ carrying[w] # NoDetail /\ Len(finalizeCh) < FinalizeCap
      /\ finalizeCh' = Append(finalizeCh, carrying[w])
      /\ carrying' = [carrying EXCEPT ![w] = NoDetail]
      /\ UNCHANGED <<now, slots, lastSlot, late, aggregated>>
      /\ UNCHANGED <<rows, written, gone, cutoff, request, restarts>>
  BY DEF OnFinalize, memory, store
<1>2. carrying[w] \in Detail /\ finalizeCh \in Seq(Detail)
  BY <1>1 DEF TypeOK
<1>3. /\ finalizeCh' \in Seq(Detail) /\ Len(finalizeCh') = Len(finalizeCh) + 1
      /\ \A i \in 1..Len(finalizeCh) : finalizeCh'[i] = finalizeCh[i]
      /\ finalizeCh'[Len(finalizeCh) + 1] = carrying[w]
  BY <1>1, <1>2, AppendFacts
<1>4. TypeOK'
  <2>1. Len(finalizeCh') <= FinalizeCap
    BY <1>1, <1>2, <1>3, PipelineAssumption
  <2>2. carrying' \in [Workers -> Detail \union {NoDetail}]
    BY <1>1 DEF TypeOK
  <2> QED
    BY <1>1, <1>3, <2>1, <2>2 DEF TypeOK
<1>5. Known' /\ Window' /\ WrittenIsComplete'
  BY <1>1 DEF Known, Window, WrittenIsComplete
<1>6. Closed'
  <2> SUFFICES ASSUME late = 0
               PROVE  /\ \A v \in Workers : carrying'[v] # NoDetail => closed(carrying'[v])
                      /\ \A i \in 1..Len(finalizeCh') : closed(finalizeCh'[i])
                      /\ \A s \in written : s < lastSlot
    BY <1>1 DEF Closed, closed
  <2>1. \A v \in Workers : carrying'[v] # NoDetail => closed(carrying'[v])
    BY <1>1 DEF TypeOK, Closed
  <2>2. closed(carrying[w])
    BY <1>1 DEF Closed
  <2>3. \A i \in 1..Len(finalizeCh') : closed(finalizeCh'[i])
    <3> TAKE i \in 1..Len(finalizeCh')
    <3>1. i \in 1..Len(finalizeCh) \/ i = Len(finalizeCh) + 1
      BY <1>1, <1>2, AppendFacts
    <3> QED
      BY <1>3, <2>2, <3>1 DEF Closed
  <2> QED
    BY <2>1, <2>3 DEF Closed
<1>7. LeftSlotsAreFinalized'
  <2>1. onTheWay \subseteq onTheWay'
    <3>1. ASSUME NEW v \in Workers, carrying[v].slot # None
          PROVE  carrying[v].slot \in onTheWay'
      <4>1. CASE v = w
        BY <1>2, <1>3, <4>1 DEF onTheWay, queued
      <4>2. CASE v # w
        BY <1>1, <3>1, <4>2 DEF onTheWay, carried, TypeOK
      <4> QED
        BY <4>1, <4>2
    <3>2. \A i \in 1..Len(finalizeCh) : finalizeCh[i].slot \in onTheWay'
      BY <1>2, <1>3 DEF onTheWay, queued
    <3> QED
      BY <3>1, <3>2 DEF onTheWay, carried, queued
  <2> QED
    BY <1>1, <2>1 DEF LeftSlotsAreFinalized
<1> QED
  BY <1>4, <1>5, <1>6, <1>7

(* The head of finalizeCh is taken. *)
LEMMA TakeFacts ==
  ASSUME TypeOK, finalizeCh # <<>>, finalizeCh' = Tail(finalizeCh)
  PROVE  /\ Head(finalizeCh) \in Detail /\ 1 \in 1..Len(finalizeCh)
         /\ Head(finalizeCh) = finalizeCh[1]
         /\ finalizeCh' \in Seq(Detail) /\ Len(finalizeCh') <= FinalizeCap
         /\ \A i \in 1..Len(finalizeCh') :
              i + 1 \in 1..Len(finalizeCh) /\ finalizeCh'[i] = finalizeCh[i + 1]
         /\ \A i \in 1..Len(finalizeCh) : i # 1 =>
              i - 1 \in 1..Len(finalizeCh') /\ finalizeCh'[i - 1] = finalizeCh[i]
<1>1. finalizeCh \in Seq(Detail) /\ Len(finalizeCh) <= FinalizeCap
  BY DEF TypeOK
<1>2. Len(finalizeCh) \in Nat \ {0} /\ Len(finalizeCh') = Len(finalizeCh) - 1
  BY <1>1
<1>3. Head(finalizeCh) \in Detail /\ Head(finalizeCh) = finalizeCh[1]
  BY <1>1, <1>2
<1>4. finalizeCh' \in Seq(Detail)
  BY <1>1
<1>5. \A i \in 1..Len(finalizeCh') :
        i + 1 \in 1..Len(finalizeCh) /\ finalizeCh'[i] = finalizeCh[i + 1]
  BY <1>1, <1>2
<1>6. \A i \in 1..Len(finalizeCh) : i # 1 =>
        i - 1 \in 1..Len(finalizeCh') /\ finalizeCh'[i - 1] = finalizeCh[i]
  <2> TAKE i \in 1..Len(finalizeCh)
  <2> HAVE i # 1
  <2>1. i - 1 \in 1..Len(finalizeCh') /\ (i - 1) + 1 = i
    BY <1>2
  <2> QED
    BY <1>5, <2>1
<1> QED
  BY <1>1, <1>2, <1>3, <1>4, <1>5, <1>6, PipelineAssumption

(* What both outcomes of a write share. *)
LEMMA TakenIInv ==
  ASSUME IInv, finalizeCh # <<>>, finalizeCh' = Tail(finalizeCh),
         UNCHANGED <<now, memory, carrying, cutoff, request, restarts>>
  PROVE  /\ Known' /\ Window'
         /\ late = 0 =>
              /\ \A w \in Workers : carrying'[w] # NoDetail => closed(carrying[w])'
              /\ \A i \in 1..Len(finalizeCh') : closed(finalizeCh[i])'
         /\ onTheWay \subseteq onTheWay' \union {Head(finalizeCh).slot}
<1> USE DEF IInv
<1>1. UNCHANGED <<now, slots, lastSlot, late, aggregated, carrying, cutoff>>
  BY DEF memory
<1>2. Known' /\ Window'
  BY <1>1 DEF Known, Window
<1>3. ASSUME late = 0, NEW w \in Workers, carrying'[w] # NoDetail PROVE closed(carrying[w])'
  BY <1>1, <1>3 DEF Closed, closed
<1>4. ASSUME late = 0, NEW i \in 1..Len(finalizeCh') PROVE closed(finalizeCh[i])'
  <2>1. i + 1 \in 1..Len(finalizeCh) /\ finalizeCh'[i] = finalizeCh[i + 1]
    BY TakeFacts
  <2>2. closed(finalizeCh[i + 1])
    BY <1>4, <2>1 DEF Closed
  <2> QED
    BY <1>1, <2>1, <2>2 DEF closed
<1>5. queued \subseteq queued' \union {Head(finalizeCh).slot}
  <2> SUFFICES ASSUME NEW i \in 1..Len(finalizeCh), i # 1
               PROVE  finalizeCh[i].slot \in queued'
    BY TakeFacts DEF queued
  <2>1. i - 1 \in 1..Len(finalizeCh') /\ finalizeCh'[i - 1] = finalizeCh[i]
    BY TakeFacts
  <2> QED
    BY <2>1 DEF queued
<1>6. carried' = carried
  BY <1>1 DEF carried
<1> QED
  BY <1>2, <1>3, <1>4, <1>5, <1>6 DEF onTheWay

LEMMA WriteIInv == ASSUME IInv, WriteSlot PROVE IInv'
<1> USE DEF IInv
<1> DEFINE d == Head(finalizeCh)
<1>1. /\ finalizeCh # <<>> /\ finalizeCh' = Tail(finalizeCh)
      /\ UNCHANGED <<now, memory, carrying, cutoff, request, restarts>> /\ gone' = gone
      /\ \/ d.slot \in DOMAIN rows /\ rows' = rows /\ written' = written
         \/ /\ d.slot \notin DOMAIN rows
            /\ rows' = Put(rows, d.slot, d) /\ written' = written \union {d.slot}
  BY DEF WriteSlot
<1>2. UNCHANGED <<now, slots, lastSlot, late, aggregated, carrying, cutoff, request, restarts>>
  BY <1>1 DEF memory
<1>3. d \in Detail /\ d.slot \in Slots /\ (late = 0 => closed(d))
  BY <1>1, TakeFacts, DetailFacts DEF Closed
<1>4. /\ DOMAIN rows' = DOMAIN rows \union {d.slot}
      /\ \A x \in DOMAIN rows : rows'[x] = rows[x]
      /\ d.slot \in DOMAIN rows \/ rows'[d.slot] = d
      /\ written \subseteq written' /\ written' \subseteq written \union {d.slot}
      /\ d.slot \in DOMAIN rows => written' = written
  BY <1>1 DEF Put
<1> HIDE DEF d
<1>5. TypeOK'
  <2>1. DOMAIN rows' \subseteq Slots /\ written' \subseteq Slots
    BY <1>3, <1>4 DEF TypeOK
  <2>2. \A x \in DOMAIN rows' : rows'[x] \in Detail /\ rows'[x].slot = x
    BY <1>3, <1>4 DEF TypeOK
  <2>3. finalizeCh' \in Seq(Detail) /\ Len(finalizeCh') <= FinalizeCap
    BY <1>1, TakeFacts
  <2> QED
    BY <1>1, <1>2, <2>1, <2>2, <2>3 DEF TypeOK
<1>6. /\ Known' /\ Window'
      /\ late = 0 =>
           /\ \A w \in Workers : carrying'[w] # NoDetail => closed(carrying[w])'
           /\ \A i \in 1..Len(finalizeCh') : closed(finalizeCh[i])'
      /\ onTheWay \subseteq onTheWay' \union {d.slot}
  BY <1>1, TakenIInv DEF d
<1>7. Closed'
  <2>1. late = 0 => \A x \in written' : x < lastSlot
    BY <1>3, <1>4 DEF Closed, closed
  <2> QED
    BY <1>2, <1>6, <2>1 DEF Closed
<1>8. LeftSlotsAreFinalized'
  BY <1>1, <1>2, <1>4, <1>6 DEF LeftSlotsAreFinalized
<1>9. WrittenIsComplete'
  <2> SUFFICES ASSUME late = 0, NEW x \in written' \intersect DOMAIN rows'
               PROVE  /\ rows'[x].finalized
                      /\ x \in DOMAIN slots => rows'[x].chunks = slots[x]
    BY <1>2 DEF WrittenIsComplete
  <2>1. CASE x \in written /\ x \in DOMAIN rows
    BY <1>4, <2>1 DEF WrittenIsComplete
  <2>2. CASE x = d.slot /\ d.slot \notin DOMAIN rows
    BY <1>3, <1>4, <2>2 DEF closed
  <2>3. x \in written /\ x \notin DOMAIN rows => x = d.slot
    BY <1>4
  <2> QED
    BY <1>4, <2>1, <2>2, <2>3
<1> QED
  BY <1>5, <1>6, <1>7, <1>8, <1>9

LEMMA WriteFailsIInv == ASSUME IInv, WriteSlotFails PROVE IInv'
<1> USE DEF IInv
<1>1. /\ finalizeCh # <<>> /\ finalizeCh' = Tail(finalizeCh)
      /\ UNCHANGED <<now, memory, carrying, cutoff, request, restarts>>
      /\ UNCHANGED <<rows, written>>
      /\ gone' = gone \union {Head(finalizeCh).slot}
  BY DEF WriteSlotFails
<1>2. UNCHANGED <<now, slots, lastSlot, late, aggregated, carrying, cutoff, request, restarts>>
  BY <1>1 DEF memory
<1>3. Head(finalizeCh).slot \in Slots
  BY <1>1, TakeFacts, DetailFacts
<1>4. finalizeCh' \in Seq(Detail) /\ Len(finalizeCh') <= FinalizeCap
  BY <1>1, TakeFacts
<1>5. TypeOK'
  BY <1>1, <1>2, <1>3, <1>4 DEF TypeOK
<1>6. /\ Known' /\ Window'
      /\ late = 0 =>
           /\ \A w \in Workers : carrying'[w] # NoDetail => closed(carrying[w])'
           /\ \A i \in 1..Len(finalizeCh') : closed(finalizeCh[i])'
      /\ onTheWay \subseteq onTheWay' \union {Head(finalizeCh).slot}
  BY <1>1, TakenIInv
<1>7. Closed'
  BY <1>1, <1>2, <1>6 DEF Closed
<1>8. LeftSlotsAreFinalized'
  BY <1>1, <1>2, <1>6 DEF LeftSlotsAreFinalized
<1>9. WrittenIsComplete'
  BY <1>1, <1>2 DEF WrittenIsComplete
<1> QED
  BY <1>5, <1>6, <1>7, <1>8, <1>9

(* A batch of Prune removes rows below the cutoff. *)
LEMMA PruneFacts ==
  ASSUME TypeOK, PruneBatchOnce
  PROVE  \E batch \in SUBSET expired :
           /\ DOMAIN rows' = DOMAIN rows \ batch
           /\ \A x \in DOMAIN rows' : rows'[x] = rows[x]
           /\ gone' = gone \union batch
<1>1. PICK batch \in SUBSET expired :
        rows' = Restrict(rows, DOMAIN rows \ batch) /\ gone' = gone \union batch
  BY DEF PruneBatchOnce
<1>2. /\ DOMAIN rows' = DOMAIN rows \ batch
      /\ \A x \in DOMAIN rows \ batch : rows'[x] = rows[x]
  BY <1>1 DEF Restrict
<1> QED
  BY <1>1, <1>2

LEMMA PruneIInv == ASSUME IInv, PruneBatchOnce PROVE IInv'
<1> USE DEF IInv
<1>1. PICK batch \in SUBSET expired :
        /\ DOMAIN rows' = DOMAIN rows \ batch
        /\ \A x \in DOMAIN rows' : rows'[x] = rows[x]
        /\ gone' = gone \union batch
  BY PruneFacts
<1>2. /\ UNCHANGED <<now, slots, lastSlot, late, aggregated, carrying, finalizeCh>>
      /\ UNCHANGED <<written, request, restarts>> /\ cutoff' \in {None, cutoff}
  BY DEF PruneBatchOnce, memory
<1>3. batch \subseteq Slots
  BY DEF expired, TypeOK
<1>4. TypeOK'
  BY <1>1, <1>2, <1>3 DEF TypeOK
<1>5. Known' /\ Window'
  BY <1>2 DEF Known, Window
<1>6. Closed'
  BY <1>2 DEF Closed, closed
<1>7. LeftSlotsAreFinalized'
  <2>1. onTheWay' = onTheWay
    BY <1>2 DEF onTheWay, carried, queued
  <2> QED
    BY <1>1, <1>2, <2>1 DEF LeftSlotsAreFinalized
<1>8. WrittenIsComplete'
  BY <1>1, <1>2 DEF WrittenIsComplete
<1> QED
  BY <1>4, <1>5, <1>6, <1>7, <1>8

(* Time, the start of Prune and the requests change none of the rest. *)
LEMMA OthersIInv ==
  ASSUME IInv, Tick \/ PruneStart \/ ListSlots \/ ListSummaries \/ UNCHANGED vars
  PROVE  IInv'
<1> USE DEF IInv
<1>1. /\ UNCHANGED <<slots, lastSlot, late, aggregated, carrying, finalizeCh>>
      /\ UNCHANGED <<rows, written, gone, restarts>>
  BY DEF Tick, PruneStart, ListSlots, ListSummaries, vars, memory, store
<1>2. now' \in Slots /\ now <= now'
  BY PipelineAssumption
     DEF Tick, PruneStart, ListSlots, ListSummaries, vars, TypeOK, Slots
<1>3. \/ cutoff' = cutoff
      \/ cutoff' = cutoffSlot /\ now' = now
  BY DEF Tick, PruneStart, ListSlots, ListSummaries, vars
<1>4. cutoff' \in Slots \union {None} /\ Window'
  <2>1. CASE cutoff' = cutoff
    BY <2>1, <1>2, PipelineAssumption DEF Window, TypeOK, Slots, None
  <2>2. CASE cutoff' = cutoffSlot /\ now' = now
    BY <2>2, PipelineAssumption DEF Window, TypeOK, Slots, None, cutoffSlot
  <2> QED
    BY <1>3, <2>1, <2>2
<1>5. \A r \in request' : r.live \subseteq Slots /\ r.known \subseteq Slots
  <2>1. CASE request' \subseteq request
    BY <2>1 DEF TypeOK
  <2>2. CASE ListSlots
    <3>1. request' = {[live |-> newest(DOMAIN slots), known |-> DOMAIN slots \union DOMAIN rows]}
      BY <2>2 DEF ListSlots
    <3>2. newest(DOMAIN slots) \subseteq Slots /\ DOMAIN slots \union DOMAIN rows \subseteq Slots
      BY DEF newest, TypeOK
    <3> QED
      BY <3>1, <3>2
  <2> QED
    BY <2>1, <2>2 DEF Tick, PruneStart, ListSummaries, vars
<1>6. TypeOK'
  BY <1>1, <1>2, <1>4, <1>5 DEF TypeOK
<1>7. Known' /\ WrittenIsComplete'
  BY <1>1 DEF Known, WrittenIsComplete
<1>8. Closed'
  BY <1>1 DEF Closed, closed
<1>9. LeftSlotsAreFinalized'
  BY <1>1 DEF LeftSlotsAreFinalized, onTheWay, carried, queued
<1> QED
  BY <1>4, <1>6, <1>7, <1>8, <1>9

LEMMA RestartIInv == ASSUME IInv, Restart PROVE IInv'
<1> USE DEF IInv
<1>1. DOMAIN slots' = {}
  BY DEF Restart
<1>2. restarts' \in 0..MaxRestarts
  BY PipelineAssumption DEF Restart, TypeOK
<1>3. TypeOK'
  BY <1>1, <1>2, PipelineAssumption DEF Restart, TypeOK, Slots
<1>4. Known' /\ Closed' /\ Window'
  BY DEF Restart, Known, Closed, Window
<1>5. LeftSlotsAreFinalized' /\ WrittenIsComplete'
  BY DEF Restart, LeftSlotsAreFinalized, WrittenIsComplete
<1> QED
  BY <1>3, <1>4, <1>5

LEMMA StepIInv == IInv /\ [Next]_vars => IInv'
BY ChunkIInv, OnFinalizeIInv, WriteIInv, WriteFailsIInv, PruneIInv, OthersIInv, RestartIInv
   DEF Next

(* The state stays well formed: memory, channel, rows and the cutoff of    *)
(* Prune have their types, and finalizeCh never exceeds its capacity.      *)
THEOREM PipelineTypes == Spec => []TypeOK
<1>1. IInv => TypeOK
  BY DEF IInv
<1> QED
  BY InitIInv, StepIInv, <1>1, PTL DEF Spec

(* While chunks come in slot order no slot that handleStreamChunk has left *)
(* is forgotten between memory and SQLite, whatever the number of workers, *)
(* the capacity of finalizeCh and the limit of aggregates.                 *)
THEOREM LeftSlotsReachStorage == Spec => []LeftSlotsAreFinalized
<1>1. IInv => LeftSlotsAreFinalized
  BY DEF IInv
<1> QED
  BY InitIInv, StepIInv, <1>1, PTL DEF Spec

(* While chunks come in slot order a row that writeSlot inserted holds all *)
(* chunks of its slot, whatever the workers, the writer and Prune do.      *)
THEOREM RowsAreComplete == Spec => []WrittenIsComplete
<1>1. IInv => WrittenIsComplete
  BY DEF IInv
<1> QED
  BY InitIInv, StepIInv, <1>1, PTL DEF Spec

(* Prune deletes no row inside the retention window, although the clock    *)
(* goes on between the computation of the cutoff and the last batch.       *)
THEOREM RetentionIsKept == Spec => PruneRespectsRetention
<1> DEFINE Respects == \A s \in DOMAIN rows : rows' # rows /\ s \notin DOMAIN rows' =>
                         s + Retention < now
<1>1. ASSUME IInv, Next PROVE Respects
  <2> SUFFICES ASSUME NEW s \in DOMAIN rows, rows' # rows, s \notin DOMAIN rows'
               PROVE  s + Retention < now
    OBVIOUS
  <2>1. PruneBatchOnce
    <3>1. ~WriteSlot
      <4>1. WriteSlot => rows' = rows \/ \E k, v : rows' = Put(rows, k, v)
        BY DEF WriteSlot
      <4> QED
        BY <4>1, PutGrows
    <3> QED
      BY <1>1, <3>1 DEF Next, Tick, HandleChunk, OnFinalize, WriteSlotFails, PruneStart,
         ListSlots, ListSummaries, Restart, store
  <2>2. s < cutoff /\ cutoff # None
    BY <1>1, <2>1, PruneFacts DEF IInv, expired, PruneBatchOnce
  <2>3. s \in Slots /\ now \in Slots /\ cutoff \in Slots
    BY <1>1, <2>2 DEF IInv, TypeOK
  <2>4. cutoff + Retention <= now
    BY <1>1, <2>2, <2>3 DEF IInv, Window, Slots
  <2> QED
    BY <2>2, <2>3, <2>4, PipelineAssumption DEF Slots
<1>2. IInv /\ [Next]_vars => [Respects]_vars
  BY <1>1
<1> QED
  BY InitIInv, StepIInv, <1>2, PTL DEF Spec, PruneRespectsRetention
-----------------------------------------------------------------------------
(* A set of slots is finite and, unless it is empty, has a least and a     *)
(* greatest slot.                                                          *)
LEMMA SlotsFinite ==
  ASSUME NEW S, S \subseteq Slots
  PROVE  IsFiniteSet(S) /\ Cardinality(S) \in Nat
<1>1. IsFiniteSet(Slots)
  BY FS_Interval, PipelineAssumption DEF Slots
<1> QED
  BY <1>1, FS_Subset, FS_CardinalityType

LEMMA LeastOf ==
  ASSUME NEW S, S \subseteq Nat, S # {}
  PROVE  \E x \in S : \A y \in S : x <= y
<1>1. PICK x \in S : \A y \in S : ~(<<y, x>> \in OpToRel(<, Nat))
  BY WFMin, NatLessThanWellFounded
<1>2. \A y \in S : ~(y < x)
  BY <1>1 DEF OpToRel
<1> QED
  BY <1>2

LEMMA GreatestOf ==
  ASSUME NEW S, S \subseteq Slots, S # {}
  PROVE  \E x \in S : \A y \in S : y <= x
<1> DEFINE T == {MaxSlot - x : x \in S}
<1>0. \A x \in S : MaxSlot - x \in Nat
  BY PipelineAssumption DEF Slots
<1>1. T \subseteq Nat /\ T # {}
  BY <1>0
<1>2. PICK t \in T : \A u \in T : t <= u
  BY <1>1, LeastOf
<1>3. PICK x \in S : t = MaxSlot - x
  OBVIOUS
<1>4. \A y \in S : MaxSlot - x <= MaxSlot - y
  BY <1>2, <1>3
<1> QED
  BY <1>4, PipelineAssumption DEF Slots

LEMMA FewerSlots ==
  ASSUME NEW S, NEW T, T \subseteq Slots, S \subseteq T
  PROVE  Cardinality(S) <= Cardinality(T)
BY SlotsFinite, FS_Subset

(* newest keeps the Limit greatest slots: one that has Limit greater ones  *)
(* in the set has as many among those that are kept.                       *)
LEMMA NewestKept ==
  ASSUME NEW S, S \subseteq Slots, NEW s \in Slots,
         Cardinality({t \in S : t > s}) >= Limit
  PROVE  Cardinality({t \in newest(S) : t > s}) >= Limit
<1> DEFINE U == {t \in S : t > s}
           T == {t \in newest(S) : t > s}
<1>1. newest(S) \subseteq S /\ T \subseteq U /\ U \subseteq Slots /\ T \subseteq Slots
  BY DEF newest
<1>2. Cardinality(T) \in Nat /\ Cardinality(U) \in Nat
  BY <1>1, SlotsFinite
<1> SUFFICES ASSUME Cardinality(T) < Limit
             PROVE  FALSE
  BY <1>2, PipelineAssumption
<1>3. U \ T # {}
  <2>1. U # T
    BY <1>2, PipelineAssumption
  <2> QED
    BY <1>1, <2>1
<1>4. PICK m \in U \ T : \A y \in U \ T : y <= m
  BY <1>1, <1>3, GreatestOf
<1>5. {t \in S : t > m} \subseteq T
  <2> SUFFICES ASSUME NEW t \in S, t > m
               PROVE  t \in T
    OBVIOUS
  <2>1. m \in Slots /\ t \in Slots /\ m > s
    BY <1>1, <1>4
  <2>2. t \in U /\ ~(t <= m)
    BY <2>1 DEF Slots
  <2> QED
    BY <1>4, <2>2
<1>6. Cardinality({t \in S : t > m}) <= Cardinality(T) /\ Cardinality({t \in S : t > m}) \in Nat
  BY <1>1, <1>5, FewerSlots, SlotsFinite
<1>7. Cardinality({t \in S : t > m}) < Limit
  BY <1>2, <1>6, PipelineAssumption
<1>8. m \in newest(S)
  BY <1>4, <1>7 DEF newest
<1> QED
  BY <1>4, <1>8
-----------------------------------------------------------------------------
(* What a request has read: every slot that was known when it came in is   *)
(* still in the database, or it is in the first answer, or Limit newer     *)
(* ones are.                                                               *)
found(r, s) ==
  s \in DOMAIN rows \/ s \in r.live \/ Cardinality({t \in r.live : t > s}) >= Limit

Requests == \A r \in request : \A s \in r.known \ gone : found(r, s)

LEMMA RequestsNext ==
  ASSUME IInv, Requests, [Next]_vars
  PROVE  Requests'
<1> USE DEF IInv
<1>1. CASE ListSlots
  <2> DEFINE r == [live |-> newest(DOMAIN slots), known |-> DOMAIN slots \union DOMAIN rows]
  <2>1. request' = {r} /\ rows' = rows /\ gone' = gone
    BY <1>1 DEF ListSlots, store
  <2>2. r.live = newest(DOMAIN slots) /\ r.known = DOMAIN slots \union DOMAIN rows
    OBVIOUS
  <2>3. ASSUME NEW s \in DOMAIN slots, s \notin newest(DOMAIN slots)
        PROVE  Cardinality({t \in newest(DOMAIN slots) : t > s}) >= Limit
    <3>1. s \in Slots /\ DOMAIN slots \subseteq Slots
      BY DEF TypeOK
    <3>2. ~(Cardinality({t \in DOMAIN slots : t > s}) < Limit)
      BY <2>3 DEF newest
    <3>3. Cardinality({t \in DOMAIN slots : t > s}) \in Nat
      BY <3>1, SlotsFinite
    <3>4. Cardinality({t \in DOMAIN slots : t > s}) >= Limit
      BY <3>2, <3>3, PipelineAssumption
    <3> QED
      BY <3>1, <3>4, NewestKept
  <2> HIDE DEF r
  <2> QED
    BY <2>1, <2>2, <2>3 DEF Requests, found
<1>2. ASSUME request' \subseteq request, gone \subseteq gone', DOMAIN rows \ gone' \subseteq DOMAIN rows'
      PROVE  Requests'
  BY <1>2 DEF Requests, found
<1>3. CASE PruneBatchOnce
  BY <1>2, <1>3, PruneFacts DEF PruneBatchOnce
<1>4. CASE WriteSlot
  <2>1. rows' = rows \/ \E k, v : rows' = Put(rows, k, v)
    BY <1>4 DEF WriteSlot
  <2> QED
    BY <1>2, <1>4, <2>1, PutGrows DEF WriteSlot
<1>5. CASE Tick \/ PruneStart \/ ListSummaries \/ WriteSlotFails \/ Restart \/ UNCHANGED vars
  BY <1>2, <1>5 DEF Tick, PruneStart, ListSummaries, WriteSlotFails, Restart, vars, store
<1>6. CASE \E w \in Workers : OnFinalize(w) \/ \E s \in Slots : HandleChunk(w, s)
  BY <1>2, <1>6 DEF OnFinalize, HandleChunk, store
<1> QED
  BY <1>1, <1>3, <1>4, <1>5, <1>6 DEF Next

(* handleSlots misses no slot: what was in memory or stored when the       *)
(* request came in is in the answer, unless it was pruned or Limit newer   *)
(* slots are, although the processor and the database are read one after   *)
(* the other and slots move from the one to the other meanwhile.           *)
THEOREM ListingsAreComplete == Spec => ListingIsComplete
<1> DEFINE Complete == ListSummaries =>
             \A r \in request : \A s \in r.known \ (merged(r) \union gone) :
               Cardinality({t \in merged(r) : t > s}) >= Limit
<1>1. ASSUME IInv, Requests PROVE Complete
  <2> SUFFICES ASSUME NEW r \in request, NEW s \in r.known \ (merged(r) \union gone)
               PROVE  Cardinality({t \in merged(r) : t > s}) >= Limit
    OBVIOUS
  <2> DEFINE L == r.live \union newest(DOMAIN rows)
  <2>1. /\ s \in Slots /\ r.live \subseteq Slots /\ DOMAIN rows \subseteq Slots
        /\ L \subseteq Slots /\ newest(DOMAIN rows) \subseteq Slots
    BY <1>1 DEF IInv, TypeOK, newest
  <2>2. merged(r) = newest(L) /\ s \notin newest(L)
    BY DEF merged
  <2>3. Cardinality({t \in L : t > s}) \in Nat
    BY <2>1, SlotsFinite
  <2> SUFFICES Cardinality({t \in L : t > s}) >= Limit
    BY <2>1, <2>2, NewestKept
  <2>4. CASE s \in L
    <3>1. ~(Cardinality({t \in L : t > s}) < Limit)
      BY <2>2, <2>4 DEF newest
    <3> QED
      BY <2>3, <3>1, PipelineAssumption
  <2>5. ASSUME NEW P, P \subseteq L, Cardinality({t \in P : t > s}) >= Limit
        PROVE  Cardinality({t \in L : t > s}) >= Limit
    <3>1. {t \in P : t > s} \subseteq {t \in L : t > s} /\ {t \in P : t > s} \subseteq Slots
      BY <2>1, <2>5
    <3>2. Cardinality({t \in P : t > s}) <= Cardinality({t \in L : t > s})
          /\ Cardinality({t \in P : t > s}) \in Nat
      BY <2>1, <3>1, FewerSlots, SlotsFinite
    <3> QED
      BY <2>3, <2>5, <3>2, PipelineAssumption
  <2>6. CASE s \in DOMAIN rows /\ s \notin L
    <3>1. ~(Cardinality({t \in DOMAIN rows : t > s}) < Limit)
      BY <2>6 DEF newest
    <3>2. Cardinality({t \in DOMAIN rows : t > s}) \in Nat
      BY <2>1, SlotsFinite
    <3>3. Cardinality({t \in newest(DOMAIN rows) : t > s}) >= Limit
      BY <2>1, <3>1, <3>2, NewestKept, PipelineAssumption
    <3> QED
      BY <2>5, <3>3
  <2>7. CASE Cardinality({t \in r.live : t > s}) >= Limit
    BY <2>5, <2>7
  <2>8. s \in DOMAIN rows \/ s \in r.live \/ Cardinality({t \in r.live : t > s}) >= Limit
    BY <1>1 DEF Requests, found
  <2> QED
    BY <2>4, <2>6, <2>7, <2>8
<1>2. Init => Requests
  BY DEF Init, Requests
<1>3. IInv /\ Requests /\ [Next]_vars => Requests'
  BY RequestsNext
<1>4. IInv /\ Requests => [Complete]_vars
  BY <1>1
<1> QED
  BY InitIInv, StepIInv, <1>2, <1>3, <1>4, PTL DEF Spec, ListingIsComplete
-----------------------------------------------------------------------------
(* In order, the slots in memory are at most lastSlot, *)
InOrder ==
  /\ DOMAIN slots \subseteq aggregated
  /\ late = 0 => \A s \in aggregated : s <= lastSlot

(* and a detail that waits is of a slot behind which all further ones that *)
(* were left wait as well (for one worker).                                *)
Chain == late = 0 =>
  /\ \A w \in Workers : carrying[w] # NoDetail =>
       /\ \A s \in aggregated \ {lastSlot} : s <= carrying[w].slot
       /\ \A i \in 1..Len(finalizeCh) : finalizeCh[i].slot < carrying[w].slot
  /\ \A i, j \in 1..Len(finalizeCh) : i < j => finalizeCh[i].slot < finalizeCh[j].slot
  /\ \A i \in 1..Len(finalizeCh) : \A s \in aggregated \ {0, lastSlot} :
       finalizeCh[i].slot < s => s \in onTheWay

(* A step on the slots takes a chunk or restarts the process. *)
LEMMA MemoryFrame ==
  ASSUME [Next]_vars
  PROVE  \/ UNCHANGED <<slots, lastSlot, late, aggregated>>
         \/ \E w \in Workers, s \in Slots : HandleChunk(w, s)
         \/ Restart
BY DEF Next, Tick, OnFinalize, WriteSlot, WriteSlotFails, PruneStart, PruneBatchOnce,
   ListSlots, ListSummaries, memory, vars

LEMMA EvictableFacts ==
  ASSUME TypeOK, DOMAIN slots # {}
  PROVE  /\ evictable \subseteq DOMAIN slots
         /\ 0 \notin DOMAIN slots =>
              \A o \in evictable : \A y \in DOMAIN slots : o <= y
<1>1. DOMAIN slots \subseteq Nat
  BY DEF TypeOK, Slots
<1>2. PICK x \in DOMAIN slots : \A y \in DOMAIN slots : x <= y
  BY <1>1, LeastOf
<1>3. /\ Min(DOMAIN slots) \in DOMAIN slots
      /\ \A y \in DOMAIN slots : Min(DOMAIN slots) <= y
  BY <1>2 DEF Min
<1> QED
  BY <1>3 DEF evictable

(* The slots in memory after a chunk of slot s. *)
LEMMA KeptSlots ==
  ASSUME TypeOK, NEW w \in Workers, NEW s \in Slots, HandleChunk(w, s)
  PROVE  \E keep \in kept(s) : DOMAIN slots' = keep \union {s}
<1>1. PICK keep \in kept(s) : slots' = Put(Restrict(slots, keep), s, Count(s, keep) + 1)
  BY DEF HandleChunk
<1>2. DOMAIN slots' = keep \union {s}
  BY <1>1 DEF Put, Restrict
<1> QED
  BY <1>2

LEMMA ChunkInOrder ==
  ASSUME IInv, NEW w \in Workers, NEW s \in Slots, HandleChunk(w, s), late' = 0
  PROVE  late = 0 /\ lastSlot <= s
<1>1. late' = IF s < lastSlot THEN late + 1 ELSE late
  BY DEF HandleChunk
<1>2. lastSlot \in Slots /\ late \in 0..MaxLate
  BY DEF IInv, TypeOK
<1> QED
  BY <1>1, <1>2 DEF Slots

LEMMA InOrderNext ==
  ASSUME IInv, InOrder, [Next]_vars
  PROVE  InOrder'
<1>1. CASE UNCHANGED <<slots, lastSlot, late, aggregated>>
  BY <1>1 DEF InOrder
<1>2. ASSUME NEW w \in Workers, NEW s \in Slots, HandleChunk(w, s) PROVE InOrder'
  <2>1. /\ lastSlot' = s /\ aggregated' = aggregated \union {s}
        /\ DOMAIN slots' \subseteq DOMAIN slots \union {s}
    BY <1>2, ChunkFacts DEF HandleChunk, IInv
  <2>2. ASSUME late' = 0 PROVE \A x \in aggregated : x <= s
    <3>1. late = 0 /\ lastSlot <= s
      BY <1>2, <2>2, ChunkInOrder
    <3>2. aggregated \subseteq Slots /\ lastSlot \in Slots
      BY DEF IInv, TypeOK
    <3>3. \A x \in aggregated : x <= lastSlot
      BY <3>1 DEF InOrder
    <3> QED
      BY <3>1, <3>2, <3>3 DEF Slots
  <2> QED
    BY <2>1, <2>2 DEF InOrder, Slots
<1>3. CASE Restart
  BY <1>3 DEF Restart, InOrder
<1> QED
  BY <1>1, <1>2, <1>3, MemoryFrame

LEMMA MemoryNext ==
  ASSUME IInv, InOrder, MemoryBounded, [Next]_vars
  PROVE  MemoryBounded'
<1> USE DEF IInv
<1>1. CASE UNCHANGED <<slots, lastSlot, late, aggregated>>
  BY <1>1 DEF MemoryBounded
<1>2. CASE Restart
  <2>1. DOMAIN slots' = {}
    BY <1>2 DEF Restart
  <2> QED
    BY <2>1, FS_EmptySet, PipelineAssumption DEF MemoryBounded
<1>3. ASSUME NEW w \in Workers, NEW s \in Slots, HandleChunk(w, s), late' = 0
      PROVE  Cardinality(DOMAIN slots') <= SlotLimit + 1
  <2> DEFINE D == DOMAIN slots
  <2>1. late = 0 /\ lastSlot <= s
    BY <1>3, ChunkInOrder
  <2>2. D \subseteq Slots /\ IsFiniteSet(D) /\ Cardinality(D) \in Nat /\ Cardinality(D) <= SlotLimit + 1
    BY <2>1, SlotsFinite DEF TypeOK, MemoryBounded
  <2>3. PICK keep \in kept(s) : DOMAIN slots' = keep \union {s}
    BY <1>3, KeptSlots
  <2>4. keep \subseteq D /\ keep \subseteq Slots /\ IsFiniteSet(keep)
    BY <2>2, KeptFacts, SlotsFinite
  <2>5. Cardinality(DOMAIN slots') <= Cardinality(keep) + 1 /\ Cardinality(keep) \in Nat
    <3>1. Cardinality(keep \union {s}) = IF s \in keep THEN Cardinality(keep) ELSE Cardinality(keep) + 1
      BY <2>4, FS_AddElement
    <3>2. Cardinality(keep) \in Nat
      BY <2>4, FS_CardinalityType
    <3> QED
      BY <2>3, <3>1, <3>2
  <2>6. CASE s \in D
    <3>1. DOMAIN slots' \subseteq D
      BY <2>3, <2>4, <2>6
    <3>2. Cardinality(DOMAIN slots') <= Cardinality(D) /\ Cardinality(DOMAIN slots') \in Nat
      BY <2>2, <3>1, FewerSlots, SlotsFinite
    <3> QED
      BY <2>2, <3>2, PipelineAssumption
  <2> SUFFICES ASSUME s \notin D
               PROVE  Cardinality(keep) <= SlotLimit
    <3>1. Cardinality(DOMAIN slots') \in Nat
      BY <2>3, <2>4, SlotsFinite
    <3> QED
      BY <2>5, <2>6, <3>1, PipelineAssumption
  <2>7. CASE leaves(s) /\ Cardinality(D) > SlotLimit
    <3>1. PICK o \in evictable : keep = D \ {o}
      BY <2>7 DEF kept
    <3>2. D # {}
      BY <2>7, FS_EmptySet, PipelineAssumption
    <3>3. o \in D
      BY <3>1, <3>2, EvictableFacts
    <3>4. Cardinality(keep) = Cardinality(D) - 1
      BY <2>2, <3>1, <3>3, FS_RemoveElement
    <3> QED
      BY <2>2, <3>4, PipelineAssumption
  <2>8. CASE leaves(s) /\ ~(Cardinality(D) > SlotLimit)
    <3>1. keep = D
      BY <2>8 DEF kept
    <3> QED
      BY <2>2, <2>8, <3>1, PipelineAssumption
  <2>9. CASE ~leaves(s)
    <3>1. keep = D
      BY <2>9 DEF kept
    <3>2. lastSlot = 0 \/ s = lastSlot
      BY <2>1, <2>9 DEF leaves, TypeOK, Slots
    <3>3. CASE lastSlot = 0
      <4>1. D \subseteq {0}
        BY <2>1, <2>2, <3>3 DEF InOrder, Slots
      <4>2. Cardinality(D) <= Cardinality({0}) /\ Cardinality({0}) = 1
        BY <4>1, FS_Subset, FS_Singleton
      <4> QED
        BY <2>2, <3>1, <4>2, PipelineAssumption
    <3>4. CASE s = lastSlot
      <4>1. D = {}
        BY <3>4 DEF Known, InOrder
      <4> QED
        BY <3>1, <4>1, FS_EmptySet, PipelineAssumption
    <3> QED
      BY <3>2, <3>3, <3>4
  <2> QED
    BY <2>7, <2>8, <2>9
<1> QED
  BY <1>1, <1>2, <1>3, MemoryFrame DEF MemoryBounded

(* Memory is bounded whatever the workers, the writer and Prune do: the    *)
(* eviction of handleStreamChunk keeps SlotLimit + 1 aggregates at most    *)
(* while chunks come in slot order, slot 0 among them or not.              *)
THEOREM AggregatesAreBounded == Spec => []MemoryBounded
<1>1. Init => InOrder /\ MemoryBounded
  <2>1. Init => DOMAIN slots = {} /\ aggregated = {}
    BY DEF Init
  <2> QED
    BY <2>1, FS_EmptySet, PipelineAssumption DEF InOrder, MemoryBounded
<1>2. IInv /\ InOrder /\ MemoryBounded /\ [Next]_vars => InOrder' /\ MemoryBounded'
  BY InOrderNext, MemoryNext
<1> QED
  BY InitIInv, StepIInv, <1>1, <1>2, PTL DEF Spec
-----------------------------------------------------------------------------
(* One goroutine applies the chunks of a source: it has one session. *)
OneWorker == \A v, w \in Workers : v = w

(* The step of a chunk of slot s, in order, for the one worker. *)
LEMMA OneWorkerChunk ==
  ASSUME IInv, OneWorker, NEW w \in Workers, NEW s \in Slots, HandleChunk(w, s), late' = 0
  PROVE  /\ late = 0 /\ lastSlot <= s /\ lastSlot' = s /\ aggregated' = aggregated \union {s}
         /\ carried = {} /\ queued' = queued /\ finalizeCh' = finalizeCh
         /\ UNCHANGED <<rows, gone>>
         /\ carrying'[w] # NoDetail => carrying'[w].slot = lastSlot
         /\ leaves(s) /\ lastSlot \in DOMAIN slots => lastSlot \in carried'
<1>1. /\ lastSlot' = s /\ aggregated' = aggregated \union {s} /\ carrying[w] = NoDetail
      /\ UNCHANGED <<finalizeCh, rows, gone>>
      /\ carrying' = [carrying EXCEPT ![w] =
           IF leaves(s) /\ lastSlot \in DOMAIN slots
           THEN buildSlotDetail(lastSlot) ELSE NoDetail]
  BY DEF HandleChunk, store
<1>2. late = 0 /\ lastSlot <= s
  BY ChunkInOrder
<1>3. carried = {}
  <2>1. \A v \in Workers : carrying[v].slot = None
    BY <1>1 DEF OneWorker, NoDetail
  <2> QED
    BY <2>1 DEF carried
<1>4. carrying \in [Workers -> Detail \union {NoDetail}] /\ lastSlot # None
  <2>1. carrying \in [Workers -> Detail \union {NoDetail}] /\ lastSlot \in Slots
    BY DEF IInv, TypeOK
  <2> QED
    BY <2>1 DEF Slots, None
<1>5. carrying'[w] # NoDetail => carrying'[w].slot = lastSlot
  BY <1>1, <1>4 DEF buildSlotDetail
<1>6. leaves(s) /\ lastSlot \in DOMAIN slots => carrying'[w].slot = lastSlot
  BY <1>1, <1>4 DEF buildSlotDetail
<1>7. leaves(s) /\ lastSlot \in DOMAIN slots => lastSlot \in carried'
  BY <1>4, <1>6 DEF carried
<1> QED
  BY <1>1, <1>2, <1>3, <1>5, <1>7 DEF queued

LEMMA ChainChunk ==
  ASSUME IInv, InOrder, Chain, OneWorker, NEW w \in Workers, NEW s \in Slots, HandleChunk(w, s)
  PROVE  Chain'
<1> SUFFICES ASSUME late' = 0
             PROVE  /\ \A v \in Workers : carrying'[v] # NoDetail =>
                         /\ \A x \in aggregated' \ {lastSlot'} : x <= carrying'[v].slot
                         /\ \A i \in 1..Len(finalizeCh') : finalizeCh'[i].slot < carrying'[v].slot
                    /\ \A i, j \in 1..Len(finalizeCh') : i < j => finalizeCh'[i].slot < finalizeCh'[j].slot
                    /\ \A i \in 1..Len(finalizeCh') : \A x \in aggregated' \ {0, lastSlot'} :
                         finalizeCh'[i].slot < x => x \in onTheWay'
  BY DEF Chain
<1>1. /\ late = 0 /\ lastSlot <= s /\ lastSlot' = s /\ aggregated' = aggregated \union {s}
      /\ carried = {} /\ queued' = queued /\ finalizeCh' = finalizeCh
      /\ carrying'[w] # NoDetail => carrying'[w].slot = lastSlot
      /\ leaves(s) /\ lastSlot \in DOMAIN slots => lastSlot \in carried'
  BY OneWorkerChunk
<1>2. ASSUME NEW v \in Workers, carrying'[v] # NoDetail
      PROVE  /\ \A x \in aggregated' \ {lastSlot'} : x <= carrying'[v].slot
             /\ \A i \in 1..Len(finalizeCh') : finalizeCh'[i].slot < carrying'[v].slot
  <2>1. v = w /\ carrying'[v].slot = lastSlot
    BY <1>1, <1>2 DEF OneWorker
  <2>2. \A x \in aggregated : x <= lastSlot
    BY <1>1 DEF InOrder
  <2>3. \A i \in 1..Len(finalizeCh) : finalizeCh[i].slot < lastSlot
    BY <1>1 DEF IInv, Closed, closed
  <2> QED
    BY <1>1, <2>1, <2>2, <2>3
<1>3. \A i, j \in 1..Len(finalizeCh') : i < j => finalizeCh'[i].slot < finalizeCh'[j].slot
  BY <1>1 DEF Chain
<1>4. ASSUME NEW i \in 1..Len(finalizeCh), NEW x \in aggregated, x # 0, x # s, finalizeCh[i].slot < x
      PROVE  x \in onTheWay'
  <2>1. CASE x = lastSlot
    <3>1. leaves(s) /\ lastSlot \in DOMAIN slots
      BY <1>1, <1>4, <2>1 DEF leaves, IInv, Known, TypeOK, Slots
    <3> QED
      BY <1>1, <2>1, <3>1 DEF onTheWay
  <2>2. CASE x # lastSlot
    BY <1>1, <1>4, <2>2 DEF Chain, onTheWay
  <2> QED
    BY <2>1, <2>2
<1> QED
  BY <1>1, <1>2, <1>3, <1>4

LEMMA ChainOnFinalize ==
  ASSUME IInv, Chain, OneWorker, NEW w \in Workers, OnFinalize(w)
  PROVE  Chain'
<1> SUFFICES ASSUME late' = 0
             PROVE  /\ \A v \in Workers : carrying'[v] = NoDetail
                    /\ \A i, j \in 1..Len(finalizeCh') : i < j => finalizeCh'[i].slot < finalizeCh'[j].slot
                    /\ \A i \in 1..Len(finalizeCh') : \A x \in aggregated' \ {0, lastSlot'} :
                         finalizeCh'[i].slot < x => x \in onTheWay'
  BY DEF Chain
<1>1. /\ carrying[w] # NoDetail /\ finalizeCh' = Append(finalizeCh, carrying[w])
      /\ carrying' = [carrying EXCEPT ![w] = NoDetail]
      /\ UNCHANGED <<lastSlot, aggregated>> /\ late = 0
  BY DEF OnFinalize, memory
<1>2. carrying[w] \in Detail /\ finalizeCh \in Seq(Detail) /\ carrying \in [Workers -> Detail \union {NoDetail}]
  BY <1>1 DEF IInv, TypeOK
<1>3. /\ \A i \in 1..Len(finalizeCh') : i \in 1..Len(finalizeCh) \/ i = Len(finalizeCh) + 1
      /\ \A i \in 1..Len(finalizeCh) : finalizeCh'[i] = finalizeCh[i]
      /\ finalizeCh'[Len(finalizeCh) + 1] = carrying[w]
      /\ Len(finalizeCh) \in Nat /\ Len(finalizeCh') = Len(finalizeCh) + 1
  BY <1>1, <1>2, AppendFacts
<1>4. \A v \in Workers : carrying'[v] = NoDetail
  BY <1>1, <1>2 DEF OneWorker
<1>5. /\ \A x \in aggregated \ {lastSlot} : x <= carrying[w].slot
      /\ \A i \in 1..Len(finalizeCh) : finalizeCh[i].slot < carrying[w].slot
  BY <1>1 DEF Chain
<1>6. \A i, j \in 1..Len(finalizeCh') : i < j => finalizeCh'[i].slot < finalizeCh'[j].slot
  <2> TAKE i, j \in 1..Len(finalizeCh')
  <2> HAVE i < j
  <2>1. i \in 1..Len(finalizeCh)
    BY <1>3
  <2>2. CASE j \in 1..Len(finalizeCh)
    BY <1>1, <1>3, <2>1, <2>2 DEF Chain
  <2>3. CASE j = Len(finalizeCh) + 1
    BY <1>3, <1>5, <2>1, <2>3
  <2> QED
    BY <1>3, <2>2, <2>3
<1>7. onTheWay \subseteq onTheWay'
  <2>1. queued \subseteq queued' /\ carrying[w].slot \in queued'
    <3>1. \A i \in 1..Len(finalizeCh) : i \in 1..Len(finalizeCh') /\ finalizeCh'[i].slot = finalizeCh[i].slot
      BY <1>1, <1>2, AppendFacts
    <3>2. Len(finalizeCh) + 1 \in 1..Len(finalizeCh')
      BY <1>1, <1>2, AppendFacts
    <3> QED
      BY <1>3, <3>1, <3>2 DEF queued
  <2>2. carried \subseteq {carrying[w].slot}
    BY DEF carried, OneWorker
  <2> QED
    BY <2>1, <2>2 DEF onTheWay
<1>8. ASSUME NEW i \in 1..Len(finalizeCh'), NEW x \in aggregated \ {0, lastSlot}, finalizeCh'[i].slot < x
      PROVE  x \in onTheWay'
  <2>1. CASE i \in 1..Len(finalizeCh)
    BY <1>1, <1>3, <1>7, <1>8, <2>1 DEF Chain
  <2>2. CASE i = Len(finalizeCh) + 1
    <3>1. carrying[w].slot < x /\ x <= carrying[w].slot
      BY <1>3, <1>5, <1>8, <2>2
    <3>2. x \in Slots /\ carrying[w].slot \in Slots
      BY <1>2, DetailFacts DEF IInv, TypeOK
    <3> QED
      BY <3>1, <3>2 DEF Slots
  <2> QED
    BY <1>3, <2>1, <2>2
<1> QED
  BY <1>1, <1>4, <1>6, <1>8

LEMMA ChainTake ==
  ASSUME IInv, Chain, WriteSlot \/ WriteSlotFails
  PROVE  Chain'
<1>1. /\ finalizeCh # <<>> /\ finalizeCh' = Tail(finalizeCh)
      /\ UNCHANGED <<carrying, lastSlot, aggregated, late>>
      /\ UNCHANGED <<now, memory, carrying, cutoff, request, restarts>>
  BY DEF WriteSlot, WriteSlotFails, memory
<1> SUFFICES ASSUME late = 0
             PROVE  /\ \A w \in Workers : carrying[w] # NoDetail =>
                         /\ \A x \in aggregated \ {lastSlot} : x <= carrying[w].slot
                         /\ \A i \in 1..Len(finalizeCh') : finalizeCh'[i].slot < carrying[w].slot
                    /\ \A i, j \in 1..Len(finalizeCh') : i < j => finalizeCh'[i].slot < finalizeCh'[j].slot
                    /\ \A i \in 1..Len(finalizeCh') : \A x \in aggregated \ {0, lastSlot} :
                         finalizeCh'[i].slot < x => x \in onTheWay'
  BY <1>1 DEF Chain
<1>2. /\ \A i \in 1..Len(finalizeCh') :
           i + 1 \in 1..Len(finalizeCh) /\ finalizeCh'[i] = finalizeCh[i + 1]
      /\ Head(finalizeCh) = finalizeCh[1] /\ 1 \in 1..Len(finalizeCh)
      /\ onTheWay \subseteq onTheWay' \union {Head(finalizeCh).slot}
  BY <1>1, TakeFacts, TakenIInv DEF IInv
<1>3. \A w \in Workers : carrying[w] # NoDetail =>
        /\ \A x \in aggregated \ {lastSlot} : x <= carrying[w].slot
        /\ \A i \in 1..Len(finalizeCh') : finalizeCh'[i].slot < carrying[w].slot
  BY <1>2 DEF Chain
<1>4. \A i, j \in 1..Len(finalizeCh') : i < j => finalizeCh'[i].slot < finalizeCh'[j].slot
  <2> TAKE i, j \in 1..Len(finalizeCh')
  <2> HAVE i < j
  <2>1. i + 1 < j + 1
    OBVIOUS
  <2> QED
    BY <1>2, <2>1 DEF Chain
<1>5. ASSUME NEW i \in 1..Len(finalizeCh'), NEW x \in aggregated \ {0, lastSlot}, finalizeCh'[i].slot < x
      PROVE  x \in onTheWay'
  <2>1. x \in onTheWay
    BY <1>2, <1>5 DEF Chain
  <2>2. finalizeCh[1].slot < finalizeCh[i + 1].slot
    <3>1. 1 < i + 1
      OBVIOUS
    <3> QED
      BY <1>2, <3>1 DEF Chain
  <2>3. finalizeCh[1].slot \in Slots /\ finalizeCh[i + 1].slot \in Slots /\ x \in Slots
    <3> finalizeCh \in Seq(Detail)
      BY DEF IInv, TypeOK
    <3>1. finalizeCh[1] \in Detail /\ finalizeCh[i + 1] \in Detail
      BY <1>2
    <3> QED
      BY <3>1, DetailFacts DEF IInv, TypeOK
  <2>4. x # finalizeCh[1].slot
    BY <1>2, <1>5, <2>2, <2>3 DEF Slots
  <2> QED
    BY <1>2, <2>1, <2>4
<1> QED
  BY <1>3, <1>4, <1>5

LEMMA ChainNext ==
  ASSUME IInv, InOrder, Chain, OneWorker, [Next]_vars
  PROVE  Chain'
<1>1. CASE UNCHANGED <<lastSlot, late, aggregated, carrying, finalizeCh>>
  <2>1. onTheWay' = onTheWay
    BY <1>1 DEF onTheWay, carried, queued
  <2> QED
    BY <1>1, <2>1 DEF Chain
<1>2. CASE Restart
  BY <1>2 DEF Restart, Chain
<1>3. CASE Tick \/ PruneStart \/ PruneBatchOnce \/ ListSlots \/ ListSummaries \/ UNCHANGED vars
  BY <1>1, <1>3 DEF Tick, PruneStart, PruneBatchOnce, ListSlots, ListSummaries, memory, vars
<1> QED
  BY <1>2, <1>3, ChainChunk, ChainOnFinalize, ChainTake DEF Next

(* A set that finalizeCh holds is no larger than its capacity. *)
LEMMA QueueIsSmall ==
  ASSUME TypeOK, NEW S, S \subseteq queued
  PROVE  IsFiniteSet(S) /\ Cardinality(S) \in Nat /\ Cardinality(S) <= FinalizeCap
<1> DEFINE I == 1..Len(finalizeCh)
           f == [i \in I |-> finalizeCh[i].slot]
<1>1. Len(finalizeCh) \in Nat /\ Len(finalizeCh) <= FinalizeCap
  BY DEF TypeOK
<1>2. IsFiniteSet(I) /\ Cardinality(I) = Len(finalizeCh)
  <2>1. IsFiniteSet(I) /\ Cardinality(I) = IF 1 > Len(finalizeCh) THEN 0 ELSE Len(finalizeCh) - 1 + 1
    BY <1>1, FS_Interval
  <2> QED
    BY <1>1, <2>1
<1>3. f \in Surjection(I, queued)
  <2>1. \A i \in I : f[i] = finalizeCh[i].slot /\ finalizeCh[i].slot \in queued
    BY DEF queued
  <2>2. f \in [I -> queued]
    BY <2>1
  <2>3. \A t \in queued : \E i \in I : f[i] = t
    BY <2>1 DEF queued
  <2> QED
    BY <2>2, <2>3 DEF Surjection
<1>4. IsFiniteSet(queued) /\ Cardinality(queued) <= Cardinality(I)
  BY <1>2, <1>3, FS_Surjection
<1>5. IsFiniteSet(S) /\ Cardinality(S) <= Cardinality(queued)
  BY <1>4, FS_Subset
<1>6. Cardinality(S) \in Nat /\ Cardinality(queued) \in Nat
  BY <1>4, <1>5, FS_CardinalityType
<1> QED
  BY <1>1, <1>2, <1>4, <1>5, <1>6, PipelineAssumption

(* What is served from memory or from a row. *)
Served == late = 0 /\ 0 \notin aggregated =>
            aggregated \ gone \subseteq DOMAIN slots \union DOMAIN rows

(* A slot is evicted only when its row is written: were its detail still   *)
(* in finalizeCh, so would be those of all slots in memory but lastSlot,   *)
(* which are more than finalizeCh can hold.                                *)
LEMMA EvictionIsSafe ==
  ASSUME IInv, InOrder, Chain, OneWorker, FinalizeCap < SlotLimit,
         late = 0, 0 \notin aggregated, carried = {},
         Cardinality(DOMAIN slots) > SlotLimit,
         NEW o \in evictable, o \notin gone
  PROVE  o \in DOMAIN rows
<1> DEFINE D == DOMAIN slots
<1>1. D \subseteq Slots /\ D \subseteq aggregated /\ IsFiniteSet(D) /\ Cardinality(D) \in Nat
  BY SlotsFinite DEF IInv, TypeOK, InOrder
<1>2. D # {} /\ 0 \notin D
  BY <1>1, FS_EmptySet, PipelineAssumption
<1>3. o \in D /\ \A y \in D : o <= y
  BY <1>2, EvictableFacts DEF IInv
<1>4. Cardinality(D \ {lastSlot}) >= SlotLimit /\ Cardinality(D \ {lastSlot}) \in Nat
  <2>1. Cardinality(D \ {lastSlot}) = IF lastSlot \in D THEN Cardinality(D) - 1 ELSE Cardinality(D)
    BY <1>1, FS_RemoveElement
  <2>2. Cardinality(D \ {lastSlot}) \in Nat
    BY <1>1, SlotsFinite
  <2> QED
    BY <1>1, <2>1, <2>2, PipelineAssumption
<1>5. o # lastSlot
  <2> SUFFICES ASSUME o = lastSlot
               PROVE  FALSE
    OBVIOUS
  <2>1. \A y \in D : y <= lastSlot /\ lastSlot <= y
    BY <1>1, <1>3 DEF InOrder
  <2>2. D \ {lastSlot} = {}
    BY <1>1, <2>1 DEF IInv, TypeOK, Slots
  <2> QED
    BY <1>4, <2>2, FS_EmptySet, PipelineAssumption
<1> SUFFICES ASSUME o \notin DOMAIN rows
             PROVE  FALSE
  OBVIOUS
<1>6. o \in queued
  BY <1>1, <1>2, <1>3, <1>5 DEF IInv, LeftSlotsAreFinalized, onTheWay
<1>7. D \ {lastSlot} \subseteq queued
  <2> SUFFICES ASSUME NEW y \in D, y # lastSlot, y # o
               PROVE  y \in queued
    BY <1>6
  <2>1. PICK i \in 1..Len(finalizeCh) : finalizeCh[i].slot = o
    BY <1>6 DEF queued
  <2>2. o < y
    BY <1>1, <1>3 DEF Slots
  <2>3. y \in aggregated \ {0, lastSlot}
    BY <1>1, <1>2
  <2>4. y \in onTheWay
    BY <2>1, <2>2, <2>3 DEF Chain
  <2> QED
    BY <2>4 DEF onTheWay
<1>8. Cardinality(D \ {lastSlot}) <= FinalizeCap
  BY <1>7, QueueIsSmall DEF IInv
<1> QED
  BY <1>4, <1>8, PipelineAssumption

LEMMA ServedNext ==
  ASSUME IInv, InOrder, Chain, OneWorker, FinalizeCap < SlotLimit, Served, [Next]_vars
  PROVE  Served'
<1>1. ASSUME UNCHANGED <<slots, late, aggregated>>, gone \subseteq gone',
             DOMAIN rows \ gone' \subseteq DOMAIN rows'
      PROVE  Served'
  BY <1>1 DEF Served
<1>2. ASSUME NEW w \in Workers, NEW s \in Slots, HandleChunk(w, s) PROVE Served'
  <2> SUFFICES ASSUME late' = 0, 0 \notin aggregated', NEW x \in aggregated' \ gone'
               PROVE  x \in DOMAIN slots' \union DOMAIN rows'
    BY DEF Served
  <2>1. /\ late = 0 /\ aggregated' = aggregated \union {s} /\ carried = {}
        /\ UNCHANGED <<rows, gone>>
    BY <1>2, OneWorkerChunk
  <2>2. PICK keep \in kept(s) : DOMAIN slots' = keep \union {s}
    BY <1>2, KeptSlots DEF IInv
  <2>3. x = s \/ x \in DOMAIN slots \union DOMAIN rows
    BY <2>1 DEF Served
  <2>4. ASSUME x \in DOMAIN slots, x \notin keep PROVE x \in DOMAIN rows
    <3>1. Cardinality(DOMAIN slots) > SlotLimit /\ x \in evictable
      BY <2>4 DEF kept
    <3> QED
      BY <2>1, <3>1, EvictionIsSafe
  <2> QED
    BY <2>1, <2>2, <2>3, <2>4
<1>3. CASE PruneBatchOnce
  BY <1>1, <1>3, PruneFacts DEF PruneBatchOnce, memory, IInv
<1>4. CASE WriteSlot
  <2>1. rows' = rows \/ \E k, v : rows' = Put(rows, k, v)
    BY <1>4 DEF WriteSlot
  <2> QED
    BY <1>1, <1>4, <2>1, PutGrows DEF WriteSlot, memory
<1>5. CASE Restart
  BY <1>5 DEF Restart, Served
<1>6. CASE Tick \/ PruneStart \/ ListSlots \/ ListSummaries \/ WriteSlotFails \/ UNCHANGED vars
  BY <1>1, <1>6 DEF Tick, PruneStart, ListSlots, ListSummaries, WriteSlotFails, vars, memory, store
<1>7. CASE \E w \in Workers : OnFinalize(w)
  BY <1>1, <1>7 DEF OnFinalize, memory, store
<1> QED
  BY <1>2, <1>3, <1>4, <1>5, <1>6, <1>7 DEF Next

(* A slot that was served stays served until it is pruned: when one        *)
(* goroutine applies the chunks of the source and finalizeCh (64) is       *)
(* smaller than the number of aggregates in memory (256), handleSlotDetail *)
(* finds every slot in memory or in the database, although nothing in      *)
(* handleStreamChunk waits for the row of the slot that it evicts.         *)
THEOREM EvictedSlotsAreServed ==
  ASSUME OneWorker, FinalizeCap < SlotLimit
  PROVE  Spec => []EvictedIsServed
<1>1. Init => InOrder /\ Chain /\ Served
  BY DEF Init, InOrder, Chain, Served
<1>2. IInv /\ InOrder /\ Chain /\ Served /\ [Next]_vars => InOrder' /\ Chain' /\ Served'
  BY InOrderNext, ChainNext, ServedNext
<1>3. ASSUME IInv, Served PROVE EvictedIsServed
  <2> SUFFICES ASSUME late = 0, 0 \notin aggregated, NEW s \in aggregated \ gone
               PROVE  handleSlotDetail(s) # NoDetail
    BY DEF EvictedIsServed
  <2>1. s \in DOMAIN slots \/ s \in DOMAIN rows
    BY <1>3 DEF Served
  <2>2. s # None
    BY <1>3 DEF IInv, TypeOK, Slots, None
  <2>3. buildSlotDetail(s).slot = s /\ NoDetail.slot = None
    BY DEF buildSlotDetail, NoDetail
  <2>4. s \in DOMAIN rows => rows[s].slot = s
    BY <1>3 DEF IInv, TypeOK
  <2> QED
    BY <2>1, <2>2, <2>3, <2>4 DEF handleSlotDetail
<1> QED
  BY InitIInv, StepIInv, <1>1, <1>2, <1>3, PTL DEF Spec
=============================================================================
