----------------------------- MODULE RpcFraming -----------------------------
(***************************************************************************)
(* The length-prefixed RPC frames of a GossipSub stream and their          *)
(* reassembly from chunks (internal/gossipsub/decoder.go).                 *)
(*                                                                         *)
(* Bytes are numbers below 2 * Cont; one that is at least Cont has the     *)
(* continuation bit.  With Cont = 128 and MaxVarintLen = 10 this is the    *)
(* code; the model checker uses smaller ones, so that a length of one      *)
(* digit, of two, one that is too large and one that overflows all fit in  *)
(* a few bytes.  The protobuf of one RPC is the parameter Unmarshal: a     *)
(* sequence of actions, each with its size on the wire.                    *)
(***************************************************************************)
EXTENDS Integers, Sequences, SequencesExt

CONSTANTS Cont,           \* 128: weight of the continuation bit
          MaxVarintLen,   \* binary.MaxVarintLen64
          MaxRPCSize,     \* Decoder.MaxRPCSize
          Unmarshal(_)    \* proto.Unmarshal: [ok, actions]

ASSUME FramingAssumption ==
  Cont \in Nat \ {0} /\ MaxVarintLen \in Nat \ {0, 1} /\ MaxRPCSize \in Nat

(* binary.Uvarint: the number and the bytes read, 0 if the number is not   *)
(* complete, negative if it does not fit.                                  *)
RECURSIVE uvarint(_, _, _)
uvarint(buf, i, x) ==
  IF i = MaxVarintLen THEN [value |-> 0, n |-> -1]
  ELSE IF i = Len(buf) THEN [value |-> 0, n |-> 0]
  ELSE LET b == buf[i + 1] IN
       IF b >= Cont THEN uvarint(buf, i + 1, x + (b - Cont) * Cont^i)
       ELSE IF i = MaxVarintLen - 1 /\ b > 1 THEN [value |-> 0, n |-> -1]
       ELSE [value |-> x + b * Cont^i, n |-> i + 1]
Uvarint(buf) == uvarint(buf, 0, 0)

(* emitActions: by kind, in the order of the code, each with its size; *)
Groups == << {"SUBSCRIBE", "UNSUBSCRIBE"}, {"PUBLISH"}, {"IHAVE"}, {"IWANT"},
             {"GRAFT"}, {"PRUNE"}, {"IDONTWANT"} >>
emitActions(actions) ==
  FlattenSeq([g \in DOMAIN Groups |-> SelectSeq(actions, LAMBDA a : a.kind \in Groups[g])])

innerBytes(actions) == FoldSeq(LAMBDA a, n : n + a.size, 0, actions)

(* and the rest of the frame, the prefix included, as framing. *)
framing(n) == [kind |-> "", size |-> n]
emitFrame_NoPrefix(actions, msgLen, headerLen) ==
  emitActions(actions) \o
    IF msgLen > innerBytes(actions)
    THEN <<framing(msgLen - innerBytes(actions))>> ELSE <<>>
emitFrame(actions, msgLen, headerLen) ==
  emitActions(actions) \o
    IF headerLen + msgLen > innerBytes(actions)
    THEN <<framing(headerLen + msgLen - innerBytes(actions))>> ELSE <<>>

(* bufferingRPC.observe, once the data is in the buffer: the actions it    *)
(* emits, the bytes it keeps, and whether it returns an error.             *)
tooLarge(msgLen) == msgLen > MaxRPCSize

complete_Late(buf, header) == Len(buf) > header.n + header.value
complete(buf, header) == Len(buf) >= header.n + header.value

RECURSIVE observe(_)
observe(buf) ==
  LET header == Uvarint(buf)
      end == header.n + header.value
      rpc == Unmarshal(SubSeq(buf, header.n + 1, end))
      rest == observe(SubSeq(buf, end + 1, Len(buf)))
      stop(err) == [emitted |-> <<>>, buf |-> buf, err |-> err]
  IN  IF buf = <<>> \/ header.n = 0 THEN stop(FALSE)
      ELSE IF header.n < 0 \/ tooLarge(header.value) THEN stop(TRUE)
      ELSE IF ~complete(buf, header) THEN stop(FALSE)
      ELSE IF ~rpc.ok THEN stop(TRUE)
      ELSE [rest EXCEPT !.emitted =
              emitFrame(rpc.actions, header.value, header.n) \o @]
=============================================================================
