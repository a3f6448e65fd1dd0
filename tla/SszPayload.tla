----------------------------- MODULE SszPayload -----------------------------
(***************************************************************************)
(* What the backend reads from a gossip payload: the slot, and for blocks  *)
(* and sidecars some counts (internal/eth/ssz_slot.go, ssz_meta.go and     *)
(* gossipsub.go).                                                          *)
(*                                                                         *)
(* A decompressed payload is its length and the little-endian numbers at   *)
(* the offsets that carry one, and a payload that does not decompress is   *)
(* read as it is.  A topic is its fork digest, its name and its subnet,    *)
(* each None (or "") if it has none.                                       *)
(***************************************************************************)
EXTENDS Integers, TLC

None == -1
Panic == -2     \* what a read past the end gives

topicSlotOffset ==
  [beacon_block |-> 100, beacon_aggregate_and_proof |-> 212,
   beacon_attestation |-> 4, proposer_slashing |-> 0, attester_slashing |-> 12,
   sync_committee |-> 0, sync_committee_contribution_and_proof |-> 8,
   data_column_sidecar |-> 20, blob_sidecar |-> 131176]

subnetTopics ==
  {"beacon_attestation", "sync_committee", "data_column_sidecar", "blob_sidecar"}

(* "/eth2/<fork>/<name>/ssz_snappy" becomes "<name>". *)
normalizeTopic(topic) == [topic EXCEPT !.fork = None]

(* The name without a subnet number; a number after another name stays, so *)
(* that the topic is not known.                                            *)
stripSubnetID_Any(topic) == topic.name
stripSubnetID(topic) ==
  IF topic.subnet = None \/ topic.name \in subnetTopics THEN topic.name ELSE "unknown"

(* data[offset : offset + width], which lies within the payload. *)
read(data, offset, width) ==
  IF offset + width <= data.len THEN data.at[offset] ELSE Panic

decodeSlot(base, data) ==
  IF base \in DOMAIN topicSlotOffset /\ data.len >= topicSlotOffset[base] + 8
  THEN read(data, topicSlotOffset[base], 8) ELSE None

NoMeta == [proposer |-> None, attestations |-> None, commitments |-> None,
           txs |-> None, sidecar |-> None]

(* The number of elements of a list of variable-size elements in           *)
(* [from, to): its first offset divided by 4, if there is one.             *)
listCount_NoEmpty(data, from, to) ==
  IF to > from /\ from + 4 <= data.len /\ read(data, from, 4) > 0
  THEN read(data, from, 4) \div 4 ELSE None
listCount(data, from, to) ==
  CASE to > from /\ from + 4 <= data.len ->
         LET first == read(data, from, 4)
         IN  IF first > 0 /\ first % 4 = 0 THEN first \div 4 ELSE None
    [] to = from -> 0
    [] OTHER -> None

decodeBeaconBlockMeta(data) ==
  LET block == 100
      body == block + read(data, block + 80, 4)
      attestations == listCount(data, body + read(data, body + 208, 4),
                                      body + read(data, body + 212, 4))
      blobs == read(data, body + 392, 4) - read(data, body + 388, 4)
      payload == body + read(data, body + 380, 4)
      txs == listCount(data, payload + read(data, payload + 504, 4),
                             payload + read(data, payload + 508, 4))
      head == [NoMeta EXCEPT !.proposer = read(data, block + 8, 8)]
  IN  IF data.len < block + 84 THEN NoMeta
      ELSE IF data.len < body + 396 THEN head
      ELSE [head EXCEPT !.attestations = attestations,
                        !.commitments = IF blobs >= 0 THEN blobs \div 48 ELSE None,
                        !.txs = IF payload + 512 <= data.len THEN txs ELSE None]

DecodeMeta(base, data) ==
  CASE base = "beacon_block" -> decodeBeaconBlockMeta(data)
    [] base \in {"blob_sidecar", "data_column_sidecar"} /\ data.len >= 8 ->
         [NoMeta EXCEPT !.sidecar = read(data, 0, 8)]
    [] OTHER -> NoMeta

(* What DecodePayload computes when the payload is not cached. *)
decoded(topic, data) ==
  [slot |-> decodeSlot(stripSubnetID(topic), data),
   meta |-> DecodeMeta(stripSubnetID(topic), data)]
-----------------------------------------------------------------------------
(* The reference: a SignedBeaconBlock laid out as the consensus            *)
(* specification says, with lists of the given sizes, cut off after len.   *)
AttestationSize == 240
TxSize == 100

layout(b) ==
  LET body == 184
      attestations == 396
      deposits == attestations + b.attestations * (4 + AttestationSize)
      txs == 528
      withdrawals == txs + b.txs * (4 + TxSize)
      blobs == deposits + withdrawals
      requests == blobs + 48 * b.commitments
  IN  [body |-> body, attestations |-> attestations, deposits |-> deposits,
       payload |-> deposits, txs |-> txs, withdrawals |-> withdrawals,
       blobs |-> blobs, requests |-> requests, end |-> body + requests]

signedBeaconBlock(b, len) ==
  LET l == layout(b)
      payload == l.body + l.payload
      list(start, n) == IF n > 0 THEN start :> 4 * n ELSE <<>>
  IN  [len |-> len,
       at |-> 100 :> b.slot @@ 108 :> b.proposer @@ 180 :> 84
              @@ l.body + 208 :> l.attestations @@ l.body + 212 :> l.deposits
              @@ l.body + 380 :> l.payload
              @@ l.body + 388 :> l.blobs @@ l.body + 392 :> l.requests
              @@ payload + 504 :> l.txs @@ payload + 508 :> l.withdrawals
              @@ list(l.body + l.attestations, b.attestations)
              @@ list(payload + l.txs, b.txs)]

(* What the first len bytes of it tell. *)
blockTruth(b, len) ==
  LET l == layout(b)
      told(value, end) == IF len >= end THEN value ELSE None
      body == l.body + 396
      payload == l.body + l.payload + 512
      first(list) == l.body + list + 4
  IN  [isBlock |-> TRUE,
       slot |-> told(b.slot, 108),
       proposer |-> told(b.proposer, l.body),
       commitments |-> told(b.commitments, body),
       attestations |-> told(b.attestations,
         IF b.attestations = 0 THEN body ELSE first(l.attestations)),
       txs |-> told(b.txs, IF b.txs = 0 THEN payload ELSE first(l.payload + l.txs))]
=============================================================================
