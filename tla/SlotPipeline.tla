---------------------------- MODULE SlotPipeline ----------------------------
(***************************************************************************)
(* Slot aggregates of one source on their way to SQLite, and the answers   *)
(* that the REST API gives from memory and from the database.              *)
(*                                                                         *)
(* handleStreamChunk adds a chunk to the aggregate of its slot and, when   *)
(* the slot changes, builds the detail of the previous one under p.mu; the *)
(* detail goes to finalizeCh after the unlock, and a goroutine of main     *)
(* writes it (internal/processor/processor.go, cmd/xray/main.go).          *)
(* handleSlots merges Processor.ListSlots with Storage.ListSummaries, and  *)
(* Prune deletes old rows in batches (internal/server/server.go,           *)
(* internal/storage/storage.go).                                           *)
(*                                                                         *)
(* An aggregate is abstracted to the number of chunks added to it: that is *)
(* what tells a complete detail from one that was built too early.         *)
(***************************************************************************)
EXTENDS Integers, Sequences, FiniteSetsExt, Functions

CONSTANTS Workers,       \* goroutines that apply chunks of the source
          MaxSlot,       \* bound: slots of the wall clock
          MaxChunks,     \* bound: chunks per slot
          MaxLate,       \* bound: chunks observed before the latest slot began
          MaxRestarts,   \* bound: restarts of the backend
          SlotLimit,     \* 256: aggregates kept in memory
          FinalizeCap,   \* 64: capacity of finalizeCh
          PruneBatch,    \* 1000: rows that one DELETE of Prune removes
          Retention,     \* the retention window, in slots
          Limit          \* the limit of a listing

ASSUME PipelineAssumption ==
  /\ MaxSlot \in Nat /\ MaxChunks \in Nat \ {0}
  /\ MaxLate \in Nat /\ MaxRestarts \in Nat
  /\ SlotLimit \in Nat \ {0} /\ FinalizeCap \in Nat \ {0}
  /\ PruneBatch \in Nat \ {0} /\ Retention \in Nat \ {0} /\ Limit \in Nat \ {0}

VARIABLES now,          \* slot of the wall clock
          slots,        \* src.slots: slot -> chunks
          lastSlot,     \* src.lastSlot
          carrying,     \* per worker: the detail it sends after the unlock
          finalizeCh,
          rows,         \* the slots table: slot -> detail
          cutoff,       \* cutoffSlot while Prune runs
          request,      \* a /api/slots request between its two reads
          late,         \* counts to MaxLate
          restarts,     \* counts to MaxRestarts
          aggregated,   \* history: slots this process added a chunk to
          written,      \* history: slots this process inserted a row for
          gone          \* history: slots pruned, or whose write failed

memory == <<slots, lastSlot, late, aggregated>>
store == <<rows, written, gone>>
vars == <<now, memory, carrying, finalizeCh, store, cutoff, request, restarts>>

Slots == 0..MaxSlot
None == -1
Detail == [slot : Slots, chunks : 1..MaxChunks, finalized : BOOLEAN]
NoDetail == [slot |-> None]

Init ==
  /\ now = 0 /\ slots = <<>> /\ lastSlot = 0 /\ aggregated = {}
  /\ carrying = [w \in Workers |-> NoDetail]
  /\ finalizeCh = <<>> /\ cutoff = None /\ request = {}
  /\ rows = <<>> /\ written = {} /\ gone = {}
  /\ late = 0 /\ restarts = 0
-----------------------------------------------------------------------------
(* The wall clock reaches the next slot. *)
Tick ==
  /\ now < MaxSlot
  /\ now' = now + 1
  /\ UNCHANGED <<memory, carrying, finalizeCh, store, cutoff, request, restarts>>

(* The processor. *)

Put(f, k, v) == [x \in DOMAIN f \union {k} |-> IF x = k THEN v ELSE f[x]]

(* buildSlotDetailLocked: Finalized compares the slot with the wall clock. *)
buildSlotDetail(s) == [slot |-> s, chunks |-> slots[s], finalized |-> s < now]

(* The slots the eviction loop may delete.  Its test "oldest == 0 || s <   *)
(* oldest" takes slot 0 for "none yet": while slot 0 is in the map, the    *)
(* result depends on the order of the iteration, and may be any slot: the  *)
(* minimum of those visited after 0.                                       *)
evictable_Any == DOMAIN slots
evictable ==
  IF 0 \in DOMAIN slots THEN DOMAIN slots ELSE {Min(DOMAIN slots)}

(* Leaving lastSlot for a later slot builds the detail of lastSlot. *)
leaves_Elapsed(s) == lastSlot > 0 /\ s > lastSlot + 1
leaves_Early(s) == lastSlot > 0 /\ s >= lastSlot
leaves(s) == lastSlot > 0 /\ s > lastSlot

(* The aggregates that remain when a chunk of slot s is handled. *)
kept_Never(s) == {DOMAIN slots}
kept(s) ==
  IF leaves(s) /\ Cardinality(DOMAIN slots) > SlotLimit
  THEN {DOMAIN slots \ {o} : o \in evictable}
  ELSE {DOMAIN slots}

Count(s, keep) == IF s \in keep THEN slots[s] ELSE 0

(* handleStreamChunk, up to the unlock.  A chunk's slot is that of its     *)
(* observedAtNs, which is at most now.  The worker is busy until its       *)
(* detail, if there is one, is in finalizeCh.                              *)
HandleChunk(w, s) ==
  /\ carrying[w] = NoDetail
  /\ s <= now /\ (s < lastSlot => late < MaxLate)
  /\ late' = IF s < lastSlot THEN late + 1 ELSE late
  /\ carrying' = [carrying EXCEPT ![w] =
       IF leaves(s) /\ lastSlot \in DOMAIN slots
       THEN buildSlotDetail(lastSlot) ELSE NoDetail]
  /\ \E keep \in kept(s) :
       /\ Count(s, keep) < MaxChunks
       /\ slots' = Put(Restrict(slots, keep), s, Count(s, keep) + 1)
  /\ lastSlot' = s
  /\ aggregated' = aggregated \union {s}
  /\ UNCHANGED <<now, finalizeCh, store, cutoff, request, restarts>>

(* The callback of main: it blocks while finalizeCh is full. *)
OnFinalize_Drops(w) ==
  /\ carrying[w] # NoDetail
  /\ carrying' = [carrying EXCEPT ![w] = NoDetail]
  /\ finalizeCh' = IF Len(finalizeCh) < FinalizeCap
                   THEN Append(finalizeCh, carrying[w]) ELSE finalizeCh
  /\ UNCHANGED <<now, memory, store, cutoff, request, restarts>>
OnFinalize(w) ==
  /\ carrying[w] # NoDetail
  /\ Len(finalizeCh) < FinalizeCap
  /\ finalizeCh' = Append(finalizeCh, carrying[w])
  /\ carrying' = [carrying EXCEPT ![w] = NoDetail]
  /\ UNCHANGED <<now, memory, store, cutoff, request, restarts>>
-----------------------------------------------------------------------------
(* The storage. *)

(* main's goroutine takes a detail; writeSlot is INSERT OR IGNORE, so the  *)
(* first row of a slot stays.                                              *)
WriteSlot ==
  /\ finalizeCh # <<>>
  /\ LET d == Head(finalizeCh) IN
       IF d.slot \in DOMAIN rows
       THEN UNCHANGED <<rows, written>>
       ELSE rows' = Put(rows, d.slot, d) /\ written' = written \union {d.slot}
  /\ finalizeCh' = Tail(finalizeCh)
  /\ UNCHANGED <<now, memory, carrying, gone, cutoff, request, restarts>>

(* The write fails: the error is logged and the detail is dropped. *)
WriteSlotFails ==
  /\ finalizeCh # <<>>
  /\ gone' = gone \union {Head(finalizeCh).slot}
  /\ finalizeCh' = Tail(finalizeCh)
  /\ UNCHANGED <<now, memory, carrying, rows, written, cutoff, request, restarts>>

(* Prune, run by main's ticker: the cutoff is computed once, *)
cutoffSlot_Inclusive == IF now > Retention THEN now - Retention + 1 ELSE 0
cutoffSlot == IF now > Retention THEN now - Retention ELSE 0

PruneStart ==
  /\ cutoff = None
  /\ cutoff' = cutoffSlot
  /\ UNCHANGED <<now, memory, carrying, finalizeCh, store, request, restarts>>

expired == {s \in DOMAIN rows : s < cutoff}

(* then rows are deleted in batches until a batch deletes none. *)
PruneBatchOnce_Loops ==
  /\ cutoff # None
  /\ \E batch \in SUBSET expired :
       /\ Cardinality(batch) = Min({PruneBatch, Cardinality(expired)})
       /\ rows' = Restrict(rows, DOMAIN rows \ batch)
       /\ gone' = gone \union batch
  /\ UNCHANGED <<now, memory, carrying, finalizeCh, written, cutoff, request, restarts>>
PruneBatchOnce ==
  /\ cutoff # None
  /\ \E batch \in SUBSET expired :
       /\ Cardinality(batch) = Min({PruneBatch, Cardinality(expired)})
       /\ rows' = Restrict(rows, DOMAIN rows \ batch)
       /\ gone' = gone \union batch
  /\ cutoff' = IF expired = {} THEN None ELSE cutoff
  /\ UNCHANGED <<now, memory, carrying, finalizeCh, written, request, restarts>>
-----------------------------------------------------------------------------
(* The REST API. *)

newest(S) == {s \in S : Cardinality({t \in S : t > s}) < Limit}

(* handleSlots reads Processor.ListSlots first, *)
ListSlots ==
  /\ request = {}
  /\ request' = {[live |-> newest(DOMAIN slots),
                  known |-> DOMAIN slots \union DOMAIN rows]}
  /\ UNCHANGED <<now, memory, carrying, finalizeCh, store, cutoff, restarts>>

(* then Storage.ListSummaries, and answers with the newest of both. *)
merged_LiveOnly(r) == r.live
merged(r) == newest(r.live \union newest(DOMAIN rows))

ListSummaries ==
  /\ request # {}
  /\ request' = {}
  /\ UNCHANGED <<now, memory, carrying, finalizeCh, store, cutoff, restarts>>

(* handleSlotDetail: memory first, then the row, else 404. *)
handleSlotDetail(s) ==
  IF s \in DOMAIN slots THEN buildSlotDetail(s)
  ELSE IF s \in DOMAIN rows THEN rows[s] ELSE NoDetail

(* The process ends at any moment and starts again on the same database. *)
Restart ==
  /\ restarts < MaxRestarts
  /\ restarts' = restarts + 1
  /\ slots' = <<>> /\ lastSlot' = 0 /\ aggregated' = {}
  /\ carrying' = [w \in Workers |-> NoDetail]
  /\ finalizeCh' = <<>> /\ cutoff' = None /\ request' = {} /\ written' = {}
  /\ UNCHANGED <<now, rows, gone, late>>
-----------------------------------------------------------------------------
Next ==
  \/ Tick
  \/ \E w \in Workers, s \in Slots : HandleChunk(w, s)
  \/ \E w \in Workers : OnFinalize(w)
  \/ WriteSlot
  \/ WriteSlotFails
  \/ PruneStart
  \/ PruneBatchOnce
  \/ ListSlots
  \/ ListSummaries
  \/ Restart

Spec == Init /\ [][Next]_vars

(* The goroutines that hold a detail, write and prune keep running, and    *)
(* time passes.  Nothing makes the probe send another chunk.               *)
FairSpec ==
  /\ Spec
  /\ WF_vars(Tick) /\ WF_vars(WriteSlot) /\ WF_vars(PruneBatchOnce)
  /\ \A w \in Workers : WF_vars(OnFinalize(w))
-----------------------------------------------------------------------------
(* Every variable of the processor and the storage has its type, and       *)
(* finalizeCh keeps to its capacity.                                       *)
TypeOK ==
  /\ now \in Slots /\ lastSlot \in Slots
  /\ DOMAIN slots \subseteq Slots /\ \A s \in DOMAIN slots : slots[s] \in 1..MaxChunks
  /\ carrying \in [Workers -> Detail \union {NoDetail}]
  /\ finalizeCh \in Seq(Detail) /\ Len(finalizeCh) <= FinalizeCap
  /\ DOMAIN rows \subseteq Slots
  /\ \A s \in DOMAIN rows : rows[s] \in Detail /\ rows[s].slot = s
  /\ cutoff \in Slots \union {None}
  /\ \A r \in request : r.live \subseteq Slots /\ r.known \subseteq Slots
  /\ late \in 0..MaxLate /\ restarts \in 0..MaxRestarts
  /\ aggregated \subseteq Slots /\ written \subseteq Slots /\ gone \subseteq Slots

carried == {carrying[w].slot : w \in Workers} \ {None}
queued == {finalizeCh[i].slot : i \in 1..Len(finalizeCh)}
onTheWay == carried \union queued

(* While chunks come in slot order, every slot the source has left is in   *)
(* the database, in finalizeCh or in the hands of a worker, and nowhere    *)
(* else is one forgotten.  Slot 0 is the exception: lastSlot = 0 stands    *)
(* for "no slot yet", so it is never finalized (handleStreamChunk).        *)
LeftSlotsAreFinalized ==
  late = 0 => \A s \in aggregated \ {0, lastSlot} :
    s \in DOMAIN rows \union onTheWay \union gone

(* A detail is built once its slot is complete: while chunks come in slot  *)
(* order, a row this process wrote holds all chunks its memory holds and   *)
(* is marked finalized (INSERT OR IGNORE would keep an early one for ever).*)
WrittenIsComplete ==
  late = 0 => \A s \in written \intersect DOMAIN rows :
    /\ rows[s].finalized
    /\ s \in DOMAIN slots => rows[s].chunks = slots[s]

(* A slot that was served stays served until it is pruned: when the        *)
(* aggregate is evicted, its row is already there.  This relies on the     *)
(* limit of aggregates exceeding what may wait between memory and SQLite,  *)
(* and on slot 0 not being among the aggregates.                           *)
EvictedIsServed ==
  late = 0 /\ 0 \notin aggregated =>
    \A s \in aggregated \ gone : handleSlotDetail(s) # NoDetail

(* Memory is bounded: one aggregate more than the limit at most, while     *)
(* chunks come in slot order (one eviction per new slot).                  *)
MemoryBounded == late = 0 => Cardinality(DOMAIN slots) <= SlotLimit + 1

(* A listing shows every slot that was in memory or stored when the        *)
(* request came in, unless it was pruned meanwhile or the limit is used up *)
(* by newer ones: a slot that moves from memory to the database between    *)
(* handleSlots' two reads is not missed.                                   *)
ListingIsComplete ==
  [][ListSummaries => \A r \in request : \A s \in r.known \ (merged(r) \union gone) :
       Cardinality({t \in merged(r) : t > s}) >= Limit]_vars

(* Prune deletes only slots older than the retention window. *)
PruneRespectsRetention ==
  [][\A s \in DOMAIN rows : rows' # rows /\ s \notin DOMAIN rows' =>
       s + Retention < now]_vars

(* Back pressure loses nothing: a detail that was built is stored in the   *)
(* end, unless its write fails, it is pruned, or the process ends.         *)
BuiltIsStored ==
  \A s \in Slots :
    (s \in onTheWay) ~> (s \in DOMAIN rows \union gone \/ restarts > 0)

(* Prune ends: each batch deletes rows until none is left below cutoff. *)
PruneEnds == (cutoff # None) ~> (cutoff = None)
=============================================================================
