--------------------------- MODULE MCChunkDecoding ---------------------------
(* ChunkDecoding with bytes of three bits: a byte of at least 4 continues   *)
(* a length, messages have at most 4 bytes, and a length at most 3.         *)
EXTENDS ChunkDecoding

(* A byte of an RPC is one action, nothing (0) or what makes the protobuf   *)
(* malformed (3).                                                           *)
Topic(name, subnet) == [fork |-> 1, name |-> name, subnet |-> subnet]
Action(byte) ==
  CASE byte = 1 -> [kind |-> "SUBSCRIBE", size |-> 1, topic |-> Topic("beacon_block", None)]
    [] byte = 2 -> [kind |-> "PUBLISH", size |-> 1, msg |-> 1]
    [] byte = 4 -> [kind |-> "PUBLISH", size |-> 1, msg |-> 2]
    [] byte = 5 -> [kind |-> "IHAVE", size |-> 1, topic |-> Topic("beacon_block", None)]
    [] byte = 6 -> [kind |-> "IWANT", size |-> 1]
    [] byte = 7 -> [kind |-> "PUBLISH", size |-> 1, msg |-> 3]
MCUnmarshal(body) ==
  LET acts == SelectSeq(body, LAMBDA byte : byte # 0)
  IN  IF \E i \in DOMAIN body : body[i] = 3 THEN [ok |-> FALSE, actions |-> <<>>]
      ELSE [ok |-> TRUE, actions |-> [i \in DOMAIN acts |-> Action(acts[i])]]

Frame(head, body) == [head |-> head, body |-> body]
Frames == <<Frame(<<2>>, <<5, 2>>), Frame(<<3>>, <<4, 0, 7>>), Frame(<<4, 1>>, <<6, 2, 1, 0>>),
            Frame(<<0>>, <<>>), Frame(<<2>>, <<1, 3>>),
            Frame(<<5, 1>>, <<0, 1, 2, 1, 2>>), Frame(<<4, 4, 2>>, <<>>)>>

(* The payloads: a block, cut off after len bytes, and an attestation.      *)
Block(b, len) ==
  [topic |-> Topic("beacon_block", None), data |-> signedBeaconBlock(b, len),
   truth |-> blockTruth(b, len)]
Other(topic, len, offset, slot, told) ==
  [topic |-> topic, data |-> [len |-> len, at |-> offset :> slot],
   truth |-> [isBlock |-> FALSE, slot |-> IF told THEN slot ELSE None]]
Attestation(subnet, slot) == Other(Topic("beacon_attestation", subnet), 228, 4, slot, TRUE)

SomeBlock == [slot |-> 1, proposer |-> 7, attestations |-> 2, commitments |-> 1, txs |-> 3]
Messages == <<Block(SomeBlock, layout(SomeBlock).end), Attestation(3, 0), Attestation(8, 0)>>

(* Inputs that differ in how frames follow one another (every frame before  *)
(* a good one, against one the other way), in their times (before genesis,  *)
(* two buckets of slot 1, and slot 5), and in the third message: blocks     *)
(* with empty and other lists, cut off at and around every offset that is   *)
(* read, and what is not a whole message of a known topic.                  *)
Cuts(b) ==
  LET l == layout(b)
      edges == {108, l.body, l.body + 396, l.body + l.attestations + 4,
                l.body + l.payload + 512, l.body + l.payload + l.txs + 4}
  IN  {l.end} \union edges \union {e - 1 : e \in edges}
SomeBlocks == [slot : {1}, proposer : {7}, attestations : {0, 2}, commitments : {0, 1}, txs : {0, 3}]
Others ==
  <<Other(Topic("beacon_attestation", 3), 11, 4, 0, FALSE),
    Other(Topic("beacon_attestation", None), 12, 4, 0, TRUE),
    Other(Topic("proposer_slashing", None), 416, 0, 0, TRUE),
    Other(Topic("proposer_slashing", 3), 416, 0, 0, FALSE),
    Other(Topic("voluntary_exit", None), 112, 0, 0, FALSE),
    Other(NoTopic, 112, 0, 0, FALSE)>>

Framings == [kind : {"framing"}, first : DOMAIN Frames, second : 1..3, other : {2, 5}]
Timings == [kind : {"timing"}, protocol : {"meshsub", "identify"}]
BlockContents == UNION {[kind : {"block"}, block : {b}, len : Cuts(b)] : b \in SomeBlocks}
OtherContents == [kind : {"other"}, msg : DOMAIN Others]

Contents(m, times) ==
  [protocol |-> "floodsub", times |-> times,
   messages |-> <<Block(SomeBlock, layout(SomeBlock).end), Attestation(3, 0), m>>,
   frames |-> [IN |-> <<Frame(<<3>>, <<2, 4, 7>>), Frame(<<1>>, <<2>>)>>, OUT |-> <<>>]]

Input(i) ==
  CASE i.kind = "framing" ->
         [protocol |-> "meshsub", messages |-> Messages, times |-> {5},
          frames |-> [IN |-> <<Frames[i.first], Frames[i.second]>>, OUT |-> <<Frames[i.other]>>]]
    [] i.kind = "timing" ->
         [protocol |-> i.protocol, messages |-> Messages, times |-> {-1, 5, 7, 21},
          frames |-> [IN |-> <<Frames[1]>>, OUT |-> <<Frame(<<1>>, <<4>>)>>]]
    [] i.kind = "block" -> Contents(Block(i.block, i.len), {13})
    [] OTHER -> Contents(Others[i.msg], {5, 13})
MCInputs == {Input(i) : i \in Framings \union Timings \union BlockContents \union OtherContents}
=============================================================================
