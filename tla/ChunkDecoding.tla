--------------------------- MODULE ChunkDecoding ----------------------------
(***************************************************************************)
(* How the processor turns the chunks of one stream into slot aggregates:  *)
(* handleStreamChunk with the GossipSub decoder, the Ethereum message      *)
(* decoder and its cache (internal/processor/processor.go and decode.go,   *)
(* internal/gossipsub/decoder.go, internal/eth).                           *)
(*                                                                         *)
(* The stream's bytes are fixed at the start: for each direction a         *)
(* sequence of frames, which the chunks cut anywhere.  The decoder sees    *)
(* the bytes only.  What handleStreamChunk does when a slot ends (lastSlot,*)
(* finalization, the limit of 256 slots) is in SlotPipeline; here every    *)
(* aggregate is kept.                                                      *)
(***************************************************************************)
EXTENDS RpcFraming, SszPayload, FiniteSetsExt, TLC

CONSTANTS Inputs,        \* each [protocol, frames: per direction,
                         \*  messages, times: when a chunk may be observed]
          SlotLength, BucketWidth,
          decodeCacheMax,
          MaxChunks,     \* bound on the chunks of a behaviour
          MaxResets      \* bound on resets, upserts and closes

ASSUME DecodingAssumption ==
  /\ \A i \in Inputs : i.times \subseteq Int
  /\ MaxChunks \in Nat /\ MaxResets \in Nat
  /\ {SlotLength, BucketWidth, decodeCacheMax} \subseteq Nat \ {0}

VARIABLES
  input,      \* the stream's protocol, its frames and what they mean
  bytes,      \* the bytes of the frames, per direction
  pos,        \* bytes observed so far, per direction
  live,       \* some chunk was observed after genesis
  open,       \* src.streams has the stream
  buf,        \* bufferingRPC.buf, per direction
  cache,      \* decodeCache
  slots,      \* src.slots
  chunks, resets,
  \* history, which no action reads:
  log,        \* what was emitted, per direction: [slot, action]
  from,       \* since when the decoder reads without a gap: [pos, mark]
  discarded   \* bytes that were buffered when the buffer was dropped

vars == <<input, bytes, pos, live, open, buf, cache, slots, chunks, resets, log, from, discarded>>

Dirs == {"IN", "OUT"}
Zero == [d \in Dirs |-> 0]
bytesOf(frames) == FlattenSeq([j \in DOMAIN frames |-> frames[j].head \o frames[j].body])

put(f, k, v) == (k :> v) @@ f
get(f, k, default) == IF k \in DOMAIN f THEN f[k] ELSE default
-----------------------------------------------------------------------------
(* SlotClock.At; before genesis there is no slot. *)
At(t) == [slot |-> t \div SlotLength, offset |-> t % SlotLength]
bucketOf(ref) == (ref.offset \div BucketWidth) * BucketWidth

(* The aggregate of a slot. *)
NoAggregate ==
  [bytes |-> Zero, buckets |-> <<>>, rows |-> <<>>, bucketRows |-> <<>>,
   bleed |-> Zero, meta |-> NoMeta]
ensureSlot(ref) == get(slots, ref.slot, NoAggregate)

addRawTraffic_PerSlot(agg, ref, d, n) ==
  [agg EXCEPT !.bytes[d] = @ + n,
              !.buckets = put(@, 0, [get(@, 0, Zero) EXCEPT ![d] = @ + n])]
addRawTraffic(agg, ref, d, n) ==
  LET b == bucketOf(ref)
  IN  [agg EXCEPT !.bytes[d] = @ + n,
                  !.buckets = put(@, b, [get(@, b, Zero) EXCEPT ![d] = @ + n])]

(* BleedByDistance has the keys "1", "2", "3" and "4+". *)
Distances == 1..4
distKey(distance) == IF distance >= 4 THEN 4 ELSE distance
NoRow == [count |-> 0, bytes |-> Zero, bleed |-> Zero,
          byDistance |-> [k \in Distances |-> Zero]]

addRow(row, d, n, distance) ==
  LET counted == [row EXCEPT !.count = @ + 1, !.bytes[d] = @ + n]
  IN  IF distance = 0 THEN counted
      ELSE [counted EXCEPT !.bleed[d] = @ + n,
                           !.byDistance[distKey(distance)][d] = @ + n]

addBreakdown(agg, ref, d, n, topic, kind, distance) ==
  LET key == [protocol |-> input.protocol, topic |-> topic, kind |-> kind]
      b == bucketOf(ref)
      inBucket == get(agg.bucketRows, b, <<>>)
      add(rows) == put(rows, key, addRow(get(rows, key, NoRow), d, n, distance))
  IN  [agg EXCEPT !.rows = add(@), !.bucketRows = put(@, b, add(inBucket))]
-----------------------------------------------------------------------------
(* DecodePayload with its cache, whose key is the content alone. *)
payloadKey(data) == data
DecodePayload(topic, data, cached) ==
  LET key == payloadKey(data)
      kept == IF Cardinality(DOMAIN cached) >= decodeCacheMax THEN <<>> ELSE cached
      result == get(cached, key, decoded(topic, data))
  IN  [result |-> result,
       cache |-> IF key \in DOMAIN cached THEN cached ELSE put(kept, key, result)]

(* decodeMessage and the rest of emitActions for one action: its topic and *)
(* its tags.  Only a published message with a topic is decoded.            *)
NoTopic == [fork |-> None, name |-> "", subnet |-> None]
NoTags == [slot |-> None, meta |-> NoMeta]
decodeMessage(action, cached) ==
  LET msg == input.messages[action.msg]
      topic == normalizeTopic(msg.topic)
      payload == DecodePayload(topic, msg.data, cached)
  IN  IF action.kind # "PUBLISH"
      THEN [topic |-> IF action.kind \in {"IWANT", "IDONTWANT", ""} THEN NoTopic ELSE action.topic,
            tags |-> NoTags, cache |-> cached]
      ELSE IF msg.topic = NoTopic
      THEN [topic |-> NoTopic, tags |-> NoTags, cache |-> cached]
      ELSE [topic |-> topic, tags |-> payload.result, cache |-> payload.cache]

(* A message of an earlier slot has bled into this one. *)
bleedDistance(slot, tags) ==
  IF tags.slot # None /\ tags.slot < slot THEN slot - tags.slot ELSE 0

(* Whatever a received block tells replaces what was known. *)
mergeMeta(old, new) ==
  [f \in DOMAIN old |-> IF f # "sidecar" /\ new[f] # None THEN new[f] ELSE old[f]]

(* The emit closure of handleStreamChunk, applied to one action. *)
emit(s, action, ref, d) ==
  LET m == decodeMessage(action, s.cache)
      distance == bleedDistance(ref.slot, m.tags)
      added == addBreakdown(s.agg, ref, d, action.size, m.topic, action.kind, distance)
      isBlock == d = "IN" /\ action.kind = "PUBLISH"
                 /\ m.topic = [NoTopic EXCEPT !.name = "beacon_block"]
  IN  [cache |-> m.cache,
       agg |-> [added EXCEPT
         !.bleed[d] = IF distance > 0 THEN @ + action.size ELSE @,
         !.meta = IF isBlock THEN mergeMeta(@, m.tags.meta) ELSE @]]
-----------------------------------------------------------------------------
Init ==
  /\ input \in Inputs
  /\ bytes = [d \in Dirs |-> bytesOf(input.frames[d])]
  /\ pos = Zero /\ discarded = Zero
  /\ live = FALSE /\ open = TRUE
  /\ buf = [d \in Dirs |-> <<>>] /\ log = [d \in Dirs |-> <<>>]
  /\ from = [d \in Dirs |-> [pos |-> 0, mark |-> 0]]
  /\ cache = <<>> /\ slots = <<>>
  /\ chunks = 0 /\ resets = 0

(* newEthStreamDecoder: only a GossipSub stream has a decoder. *)
hasDecoder == input.protocol \in {"meshsub", "floodsub"}

(* The probe's next n bytes of direction d, observed at t.  No chunk is    *)
(* observed before genesis once one was observed after it.                 *)
Observe(d, n, t) ==
  /\ chunks < MaxChunks
  /\ live => t >= 0
  /\ chunks' = chunks + 1
  /\ pos' = [pos EXCEPT ![d] = @ + n]
  /\ live' = (live \/ t >= 0)
  /\ UNCHANGED <<input, bytes, open, resets>>

here(d) == [pos |-> pos'[d], mark |-> Len(log'[d])]

(* A decoder that drops what it has buffered (history). *)
Discard(dropped) ==
  /\ discarded' = [d \in Dirs |-> discarded[d] + Len(dropped[d])]
  /\ from' = [d \in Dirs |-> here(d)]

(* handleStreamChunk: an unknown stream, or a time before genesis. *)
DropChunk(d, n, t) ==
  /\ Observe(d, n, t)
  /\ ~open \/ t < 0
  /\ UNCHANGED <<buf, cache, slots, log, discarded>>
  /\ from' = [from EXCEPT ![d] = here(d)]

(* A stream without a decoder. *)
RawChunk(d, n, t) ==
  /\ Observe(d, n, t)
  /\ open /\ t >= 0 /\ ~hasDecoder
  /\ LET ref == At(t)
         agg == addRawTraffic(ensureSlot(ref), ref, d, n)
     IN  slots' = put(slots, ref.slot, addBreakdown(agg, ref, d, n, NoTopic, "raw", 0))
  /\ UNCHANGED <<buf, cache, log, from, discarded>>

(* What the decoder keeps: the rest, or nothing of either direction. *)
rest_All(d, seen) == [buf EXCEPT ![d] = seen.buf]
rest(d, seen) ==
  IF seen.err THEN [e \in Dirs |-> <<>>] ELSE [buf EXCEPT ![d] = seen.buf]

DecodeChunk(d, n, t) ==
  /\ Observe(d, n, t)
  /\ open /\ t >= 0 /\ hasDecoder
  /\ LET ref == At(t)
         seen == observe(buf[d] \o SubSeq(bytes[d], pos[d] + 1, pos[d] + n))
         s == FoldLeft(LAMBDA acc, action : emit(acc, action, ref, d),
                       [agg |-> addRawTraffic(ensureSlot(ref), ref, d, n), cache |-> cache],
                       seen.emitted)
     IN  /\ cache' = s.cache
         /\ slots' = put(slots, ref.slot,
              IF seen.err THEN addBreakdown(s.agg, ref, d, n, NoTopic, "decode_error", 0)
              ELSE s.agg)
         /\ buf' = rest(d, seen)
         /\ log' = [log EXCEPT ![d] = @ \o [i \in DOMAIN seen.emitted |->
                      [slot |-> ref.slot, action |-> seen.emitted[i]]]]
         /\ IF seen.err THEN Discard([buf EXCEPT ![d] = seen.buf])
            ELSE UNCHANGED <<from, discarded>>

Chunk(d, n, t) == DropChunk(d, n, t) \/ RawChunk(d, n, t) \/ DecodeChunk(d, n, t)

(* The stream's state is dropped or replaced; the aggregates stay. *)
NewStream(present) ==
  /\ resets < MaxResets
  /\ resets' = resets + 1
  /\ open' = present
  /\ buf' = [d \in Dirs |-> <<>>]
  /\ UNCHANGED <<input, bytes, pos, live, cache, chunks, log>>
  /\ Discard(buf)

(* handleStreamUpsert replaces the stream, its decoder with it. *)
handleStreamUpsert == NewStream(TRUE) /\ UNCHANGED slots

handleStreamClosed == open /\ NewStream(FALSE) /\ UNCHANGED slots

(* ResetSource, on a restart of the probe or a snapshot. *)
ResetSource_Slots == NewStream(FALSE) /\ slots' = <<>>
ResetSource == NewStream(FALSE) /\ UNCHANGED slots

Next ==
  \/ \E d \in Dirs, t \in input.times : \E n \in 1..(Len(bytes[d]) - pos[d]) : Chunk(d, n, t)
  \/ handleStreamUpsert \/ handleStreamClosed \/ ResetSource

Spec == Init /\ [][Next]_vars
-----------------------------------------------------------------------------
sum(f(_), S) == MapThenSumSet(f, S)

(* The frames of direction d that lie between two of its bytes. *)
frameLen(f) == Len(f.head) + Len(f.body)
ends(d) == [i \in 0..Len(input.frames[d]) |->
              FoldLeft(LAMBDA n, f : n + frameLen(f), 0, SubSeq(input.frames[d], 1, i))]

(* However a stream is cut into chunks: since the decoder last started at  *)
(* the first byte of a frame, it has emitted the actions of exactly the    *)
(* frames received in full, in order, and it holds the bytes after them.   *)
FramesAreExact ==
  \A d \in Dirs : \A i \in DOMAIN ends(d) :
    open /\ hasDecoder /\ ends(d)[i] = from[d].pos =>
      LET last == CHOOSE j \in DOMAIN ends(d) :
                    /\ ends(d)[j] <= pos[d]
                    /\ \A k \in DOMAIN ends(d) : ends(d)[k] <= pos[d] => k <= j
          received == SubSeq(input.frames[d], i + 1, last)
          emitted == SubSeq(log[d], from[d].mark + 1, Len(log[d]))
      IN  /\ \A j \in DOMAIN received :
               Unmarshal(received[j].body).ok /\ Len(received[j].body) <= MaxRPCSize
          /\ [j \in DOMAIN emitted |-> emitted[j].action]
               = FlattenSeq([j \in DOMAIN received |->
                   emitFrame(Unmarshal(received[j].body).actions,
                             Len(received[j].body), Len(received[j].head))])
          /\ buf[d] = SubSeq(bytes[d], ends(d)[last] + 1, pos[d])

(* "MaxRPCSize bounds buffered memory per direction per stream": between   *)
(* two chunks a direction never holds as much as a prefix and a message.   *)
(* Nor does the cache grow with what is published.                         *)
DecoderBounded ==
  /\ \A d \in Dirs : Len(buf[d]) < MaxVarintLen + MaxRPCSize
  /\ Cardinality(DOMAIN cache) <= decodeCacheMax

(* Every byte of a chunk is attributed to one row of the breakdown, or is  *)
(* still buffered, or was in a buffer that was dropped: the framing row    *)
(* makes up for what no action accounts for.  The decode_error row counts  *)
(* the bytes of a chunk again and is left out.                             *)
EveryByteOnce ==
  LET inRows(agg, d) == sum(LAMBDA k : agg.rows[k].bytes[d],
                            {k \in DOMAIN agg.rows : k.kind # "decode_error"})
  IN  \A d \in Dirs :
        sum(LAMBDA s : slots[s].bytes[d], DOMAIN slots)
          = sum(LAMBDA s : inRows(slots[s], d), DOMAIN slots) + Len(buf[d]) + discarded[d]

(* The views of a slot that the dashboard shows side by side agree: its    *)
(* traffic with its buckets, each row of the breakdown with the rows of    *)
(* the buckets, and all the bleed counters with one another.               *)
ViewsAgree ==
  \A s \in DOMAIN slots :
    LET agg == slots[s]
        offsets == DOMAIN agg.buckets
        inBucket(b, k) == get(get(agg.bucketRows, b, <<>>), k, NoRow)
    IN  /\ DOMAIN agg.bucketRows \subseteq offsets
        /\ \A k \in DOMAIN agg.rows :
             agg.rows[k].count = sum(LAMBDA b : inBucket(b, k).count, offsets)
        /\ \A d \in Dirs :
             /\ agg.bytes[d] = sum(LAMBDA b : agg.buckets[b][d], offsets)
             /\ agg.bleed[d] = sum(LAMBDA k : agg.rows[k].bleed[d], DOMAIN agg.rows)
             /\ \A k \in DOMAIN agg.rows :
                  LET row == agg.rows[k]
                  IN  /\ row.bytes[d] = sum(LAMBDA b : inBucket(b, k).bytes[d], offsets)
                      /\ row.bleed[d] = sum(LAMBDA b : inBucket(b, k).bleed[d], offsets)
                      /\ row.bleed[d] = sum(LAMBDA j : row.byDistance[j][d], Distances)

(* The messages published in slot s, by what they really carry. *)
published(d, s) == {i \in DOMAIN log[d] : log[d][i].slot = s /\ log[d][i].action.kind = "PUBLISH"}
truth(d, i) == input.messages[log[d][i].action.msg].truth

(* Bleed is what it claims to be: the bytes a slot reports at a distance   *)
(* are those of the messages published in it whose payload is really of a  *)
(* slot that much earlier, whichever subnet, fork or peer they came from   *)
(* and whether the payload was decoded or found in the cache.              *)
BleedIsTrue ==
  \A s \in DOMAIN slots, d \in Dirs, k \in Distances :
    sum(LAMBDA key : slots[s].rows[key].byDistance[k][d], DOMAIN slots[s].rows)
      = sum(LAMBDA i : log[d][i].action.size,
            {i \in published(d, s) : truth(d, i).slot # None /\ truth(d, i).slot < s
                                     /\ Min({4, s - truth(d, i).slot}) = k})

(* The block metadata of a slot is that of the blocks received in it: each *)
(* field has the value of the last one long enough to tell it.             *)
MetaIsTrue ==
  \A s \in DOMAIN slots : \A f \in DOMAIN NoMeta \ {"sidecar"} :
    LET tell == {i \in published("IN", s) : truth("IN", i).isBlock /\ truth("IN", i)[f] # None}
    IN  slots[s].meta[f] = IF tell = {} THEN None ELSE truth("IN", Max(tell))[f]

(* "Slot aggregates are preserved so historical per-slot data survives     *)
(* reconnects": a step never takes anything back from a slot, and it       *)
(* changes one slot at most.                                               *)
HistoryGrows ==
  [][/\ \A s \in DOMAIN slots :
          /\ s \in DOMAIN slots'
          /\ \A d \in Dirs : slots'[s].bytes[d] >= slots[s].bytes[d]
          /\ \A k \in DOMAIN slots[s].rows :
               k \in DOMAIN slots'[s].rows /\ slots'[s].rows[k].count >= slots[s].rows[k].count
     /\ \A s, u \in DOMAIN slots : s # u => slots'[s] = slots[s] \/ slots'[u] = slots[u]]_vars
=============================================================================
