------------------------- MODULE IngestReplayTypes --------------------------
(***************************************************************************)
(* The type invariant of the ingest protocol, strengthened until it is     *)
(* inductive, and the actions of the probe, the network, the processes and *)
(* the handshake of handleConnection, which keep it.                       *)
(***************************************************************************)
EXTENDS IngestReplay, SequenceTheorems, FiniteSetTheorems, TLAPS

(* What the probe sends are messages. *)
LEMMA MessageTypes ==
  /\ Hello \in Messages /\ Start \in Messages
  /\ \A n \in 0..MaxSeq : Upserts(n) \in Messages
  /\ \A n \in Seqs : Live(n) \in Messages
BY DEF Messages

(* The number a message carries, and that of a live envelope. *)
LEMMA MessageFields ==
  ASSUME NEW m \in Messages
  PROVE  /\ m.seq \in 0..MaxSeq
         /\ m.kind = "live" => m.seq \in Seqs
BY ReplayAssumption DEF Messages, Hello, Start, Upserts, Live, Seqs

(* The catch-up a ServerHello leads to is a sequence of messages. *)
LEMMA CatchupType ==
  ASSUME last \in 0..MaxSeq, NEW n \in 0..MaxSeq
  PROVE  catchup(n) \in Seq(Messages)
<1>. USE ReplayAssumption
<1>. DEFINE read == Ring!WindowRead(n + 1, last)
<1>1. CASE n > 0 /\ read.ok
  <2>1. read.events = {} \/ (read.events = (n + 1)..last)
    BY <1>1 DEF Ring!WindowRead
  <2>2. Cardinality(read.events) \in Nat /\ n + Cardinality(read.events) <= MaxSeq
    <3>1. CASE read.events = {}
      BY <3>1, FS_EmptySet
    <3>2. CASE read.events = (n + 1)..last
      <4>1. Cardinality((n + 1)..last) = IF n + 1 <= last THEN last - (n + 1) + 1 ELSE 0
        BY FS_Interval
      <4>. QED BY <3>2, <4>1
    <3>. QED BY <2>1, <3>1, <3>2
  <2>. DEFINE k == Cardinality(read.events)
  <2>3. catchup(n) = [i \in 1..k |-> Live(n + i)]
    BY <1>1 DEF catchup
  <2>. HIDE DEF k
  <2>4. k \in Nat /\ n + k <= MaxSeq
    BY <2>2 DEF k
  <2>5. \A i \in 1..k : Live(n + i) \in Messages
    BY <2>4, MessageTypes DEF Seqs
  <2>. QED BY <2>3, <2>4, <2>5
<1>2. CASE ~(n > 0 /\ read.ok)
  <2>1. catchup(n) = <<Start, Upserts(last)>>
    BY <1>2 DEF catchup
  <2>. QED BY <2>1, MessageTypes
<1>. QED BY <1>1, <1>2

-----------------------------------------------------------------------------
(* What ties connections, goroutines and boots together. *)
ConnInUse == loop \in {"hello", "catchup", "pump"} => conn \in Conns

Undialled ==
  \A c \in Conns : dialled < c => link[c] = "unused" /\ handler[c] = "unused" /\ toServer[c] = <<>>

BootKnown == \A c \in Conns : c <= dialled => bootOf[c] \in Boots

ApplyingLive == \A c \in Conns : handler[c] = "apply" => received[c].kind = "live"

SessionDialled == session \in Conns => session <= dialled

Wiring == ConnInUse /\ Undialled /\ BootKnown /\ ApplyingLive /\ SessionDialled

TypeInv == TypeOK /\ Wiring

(* The type invariant holds at the start. *)
LEMMA TypeInvInit == Init => TypeInv
<1>. SUFFICES ASSUME Init PROVE TypeInv
  OBVIOUS
<1>. USE ReplayAssumption DEF Init
<1>1. ProbeType BY DEF ProbeType, Boots, Seqs, None
<1>2. DialerType
  <2>1. closing \in BOOLEAN
    OBVIOUS
  <2>2. /\ loop \in {"dial", "hello", "catchup", "pump", "closed"}
        /\ conn \in 0..MaxConns /\ todo \in Seq(Messages)
    BY DEF None
  <2>. QED BY <2>1, <2>2 DEF DialerType
<1>3. BoundsType BY DEF BoundsType
<1>4. NetType BY DEF NetType, NoHello, None
<1>5. ListenerType BY MessageTypes DEF ListenerType, Steps, None
<1>6. SourceType BY DEF SourceType, Unregistered, None
<1>7. Wiring BY DEF Wiring, ConnInUse, Undialled, BootKnown, ApplyingLive, SessionDialled,
                   Conns, None
<1>. QED BY <1>1, <1>2, <1>3, <1>4, <1>5, <1>6, <1>7 DEF TypeInv, TypeOK

(* What an action leaves alone keeps its type. *)
LEMMA Frames ==
  /\ ProbeType /\ UNCHANGED probe => ProbeType'
  /\ DialerType /\ UNCHANGED dialer => DialerType'
  /\ BoundsType /\ UNCHANGED bounds => BoundsType'
  /\ NetType /\ UNCHANGED net => NetType'
  /\ ListenerType /\ UNCHANGED listener => ListenerType'
  /\ SourceType /\ UNCHANGED <<registry, stored, processor>> => SourceType'
  /\ ConnInUse /\ UNCHANGED dialer => ConnInUse'
  /\ Undialled /\ UNCHANGED <<dialled, link, handler, toServer>> => Undialled'
  /\ BootKnown /\ UNCHANGED <<dialled, bootOf>> => BootKnown'
  /\ ApplyingLive /\ UNCHANGED <<handler, received>> => ApplyingLive'
  /\ SessionDialled /\ UNCHANGED <<session, dialled>> => SessionDialled'
BY DEF ProbeType, DialerType, BoundsType, NetType, ListenerType, SourceType,
       ConnInUse, Undialled, BootKnown, ApplyingLive, SessionDialled,
       probe, dialer, bounds, net, listener, processor

(* The operators that the actions share. *)
LEMMA PutType ==
  ASSUME NetType, NEW m \in Messages, put(m)
  PROVE  toServer' \in [Conns -> Seq(Messages)]
<1>1. CASE conn \in Conns
  <2>1. Append(toServer[conn], m) \in Seq(Messages)
    BY <1>1 DEF NetType
  <2>. QED BY <2>1 DEF NetType, put
<1>2. CASE conn \notin Conns
  BY <1>2 DEF NetType, put
<1>. QED BY <1>1, <1>2

(* A connection the backend closes keeps the types of the network. *)
LEMMA ShutType ==
  ASSUME NetType, NEW c, shut(c)
  PROVE  /\ link' \in [Conns -> {"unused", "open", "cut", "closed"}]
         /\ toServer' \in [Conns -> Seq(Messages)]
<1>1. <<>> \in Seq(Messages)
  OBVIOUS
<1>. QED BY <1>1 DEF NetType, shut

(* A goroutine that moves to another step leaves the others where they are. *)
LEMMA GotoType ==
  ASSUME ListenerType, NEW c \in Conns, NEW step \in Steps, goto(c, step)
  PROVE  /\ handler' \in [Conns -> Steps]
         /\ handler'[c] = step
         /\ \A d \in Conns \ {c} : handler'[d] = handler[d]
BY DEF ListenerType, goto

(* The mark for "no ServerHello" is within the type of one. *)
LEMMA NoHelloType == NoHello \in -1..MaxSeq
BY ReplayAssumption DEF NoHello

(* A connection that somebody uses has been dialled. *)
LEMMA InUseDialled ==
  ASSUME Undialled, BoundsType, NEW c \in Conns,
         handler[c] # "unused" \/ link[c] # "unused" \/ toServer[c] # <<>>
  PROVE  c <= dialled
BY ReplayAssumption DEF Undialled, BoundsType, Conns

(* Emit keeps the type invariant. *)
LEMMA TypeInvEmit ==
  ASSUME TypeInv, NEW p \in Producers, Emit(p)
  PROVE  TypeInv'
<1>. USE ReplayAssumption DEF TypeInv, TypeOK, Wiring
<1>1. ProbeType'
  BY DEF ProbeType, Emit, None
<1>. QED BY <1>1, Frames DEF Emit, probe, dialer, bounds, net, listener, processor

(* Write keeps the type invariant. *)
LEMMA TypeInvWrite ==
  ASSUME TypeInv, NEW p \in Producers, Write(p)
  PROVE  TypeInv'
<1>. USE ReplayAssumption DEF TypeInv, TypeOK, Wiring
<1>1. ProbeType'
  <2>1. carrying' \in [Producers -> 0..MaxSeq]
    BY DEF ProbeType, Write, None
  <2>2. carrying[p] \in Seqs
    BY DEF ProbeType, Write, None, Seqs
  <2>3. sendCh' \in Seq(Seqs) /\ Len(sendCh') <= QueueCap
    <3>1. CASE sendCh' = sendCh
      BY <3>1 DEF ProbeType
    <3>2. CASE sendCh' = Append(sendCh, carrying[p]) /\ Len(sendCh) < QueueCap
      BY <2>2, <3>2 DEF ProbeType
    <3>. QED BY <3>1, <3>2 DEF Write
  <2>. QED BY <2>1, <2>3 DEF ProbeType, Write
<1>. QED BY <1>1, Frames DEF Write, probe, dialer, bounds, net, listener, processor

(* Dial keeps the type invariant. *)
LEMMA TypeInvDial ==
  ASSUME TypeInv, Dial
  PROVE  TypeInv'
<1>. USE ReplayAssumption DEF TypeInv, TypeOK, Wiring
<1>1. DialerType'
  BY DEF DialerType, BoundsType, Dial
<1>2. BoundsType'
  BY DEF BoundsType, Dial
<1>3. NetType'
  <2>1. <<Hello>> \in Seq(Messages) /\ boot \in 0..MaxBoots
    BY MessageTypes DEF ProbeType, Boots
  <2>. QED BY <2>1 DEF NetType, Dial
<1>4. ConnInUse'
  BY DEF ConnInUse, BoundsType, Conns, Dial
<1>5. Undialled'
  <2>1. ASSUME NEW c \in Conns, dialled' < c
        PROVE  link'[c] = "unused" /\ handler'[c] = "unused" /\ toServer'[c] = <<>>
    <3>1. c # dialled + 1 /\ dialled < c
      BY <2>1 DEF Dial, BoundsType, Conns
    <3>. QED BY <3>1 DEF Undialled, NetType, Dial, listener
  <2>. QED BY <2>1 DEF Undialled
<1>6. BootKnown'
  <2>1. ASSUME NEW c \in Conns, c <= dialled'
        PROVE  bootOf'[c] \in Boots
    <3>1. CASE c = dialled + 1
      BY <3>1 DEF Dial, NetType, ProbeType
    <3>2. CASE c # dialled + 1
      <4>1. c <= dialled /\ bootOf'[c] = bootOf[c]
        BY <2>1, <3>2 DEF Dial, NetType, BoundsType, Conns
      <4>. QED BY <4>1 DEF BootKnown
    <3>. QED BY <3>1, <3>2
  <2>. QED BY <2>1 DEF BootKnown
<1>7. SessionDialled'
  BY DEF SessionDialled, BoundsType, Dial, listener, Conns
<1>. QED BY <1>1, <1>2, <1>3, <1>4, <1>5, <1>6, <1>7, Frames DEF Dial, probe, dialer, bounds, net, listener, processor

(* ReadServerHello keeps the type invariant. *)
LEMMA TypeInvReadServerHello ==
  ASSUME TypeInv, ReadServerHello
  PROVE  TypeInv'
<1>. USE ReplayAssumption DEF TypeInv, TypeOK, Wiring
<1>1. DialerType'
  <2>1. serverHello[conn] \in 0..MaxSeq
    BY DEF ReadServerHello, ConnInUse, NetType, NoHello
  <2>2. todo' \in Seq(Messages)
    BY <2>1, CatchupType DEF ReadServerHello, ProbeType
  <2>. QED BY <2>2 DEF DialerType, ReadServerHello
<1>2. NetType'
  BY NoHelloType DEF NetType, ReadServerHello
<1>3. ConnInUse'
  BY DEF ConnInUse, ReadServerHello
<1>. QED BY <1>1, <1>2, <1>3, Frames DEF ReadServerHello, probe, dialer, bounds, net, listener, processor

(* ConnectFails keeps the type invariant. *)
LEMMA TypeInvConnectFails ==
  ASSUME TypeInv, ConnectFails
  PROVE  TypeInv'
<1>. USE ReplayAssumption DEF TypeInv, TypeOK, Wiring
<1>1. DialerType'
  BY DEF DialerType, ConnectFails, hangUp, None
<1>2. NetType'
  <2>1. link' \in [Conns -> {"unused", "open", "cut", "closed"}]
    BY DEF NetType, ConnectFails, hangUp
  <2>. QED BY <2>1 DEF NetType, ConnectFails
<1>3. ConnInUse'
  BY DEF ConnInUse, ConnectFails, hangUp
<1>4. Undialled'
  BY DEF Undialled, NetType, ConnectFails, hangUp, bounds, listener
<1>. QED BY <1>1, <1>2, <1>3, <1>4, Frames DEF ConnectFails, probe, dialer, bounds, net, listener, processor

(* WriteCatchup keeps the type invariant. *)
LEMMA TypeInvWriteCatchup ==
  ASSUME TypeInv, WriteCatchup
  PROVE  TypeInv'
<1>. USE ReplayAssumption DEF TypeInv, TypeOK, Wiring
<1>1. DialerType'
  BY DEF DialerType, WriteCatchup
<1>2. NetType'
  <2>1. Head(todo) \in Messages
    BY DEF DialerType, WriteCatchup
  <2>. QED BY <2>1, PutType DEF NetType, WriteCatchup
<1>3. ConnInUse'
  BY DEF ConnInUse, WriteCatchup
<1>4. Undialled'
  BY DEF Undialled, NetType, WriteCatchup, put, bounds, listener
<1>. QED BY <1>1, <1>2, <1>3, <1>4, Frames DEF WriteCatchup, probe, dialer, bounds, net, listener, processor

(* Attach keeps the type invariant. *)
LEMMA TypeInvAttach ==
  ASSUME TypeInv, Attach
  PROVE  TypeInv'
<1>. USE ReplayAssumption DEF TypeInv, TypeOK, Wiring
<1>1. DialerType'
  BY DEF DialerType, Attach
<1>2. ConnInUse'
  BY DEF ConnInUse, Attach
<1>. QED BY <1>1, <1>2, Frames DEF Attach, probe, dialer, bounds, net, listener, processor

(* CatchupFails keeps the type invariant. *)
LEMMA TypeInvCatchupFails ==
  ASSUME TypeInv, CatchupFails
  PROVE  TypeInv'
<1>. USE ReplayAssumption DEF TypeInv, TypeOK, Wiring
<1>1. DialerType'
  BY DEF DialerType, CatchupFails, hangUp, None
<1>2. NetType'
  <2>1. link' \in [Conns -> {"unused", "open", "cut", "closed"}]
    BY DEF NetType, CatchupFails, hangUp
  <2>. QED BY <2>1 DEF NetType, CatchupFails
<1>3. ConnInUse'
  BY DEF ConnInUse, CatchupFails, hangUp
<1>4. Undialled'
  BY DEF Undialled, NetType, CatchupFails, hangUp, bounds, listener
<1>. QED BY <1>1, <1>2, <1>3, <1>4, Frames DEF CatchupFails, probe, dialer, bounds, net, listener, processor

(* Pump keeps the type invariant. *)
LEMMA TypeInvPump ==
  ASSUME TypeInv, Pump
  PROVE  TypeInv'
<1>. USE ReplayAssumption DEF TypeInv, TypeOK, Wiring
<1>1. ProbeType'
  BY DEF ProbeType, Pump
<1>2. NetType'
  <2>1. Live(Head(sendCh)) \in Messages
    BY MessageTypes DEF ProbeType, Pump
  <2>. QED BY <2>1, PutType DEF NetType, Pump
<1>3. Undialled'
  BY DEF Undialled, NetType, Pump, put, bounds, listener
<1>. QED BY <1>1, <1>2, <1>3, Frames DEF Pump, probe, dialer, bounds, net, listener, processor

(* PumpFails keeps the type invariant. *)
LEMMA TypeInvPumpFails ==
  ASSUME TypeInv, PumpFails
  PROVE  TypeInv'
<1>. USE ReplayAssumption DEF TypeInv, TypeOK, Wiring
<1>1. ProbeType'
  BY DEF ProbeType, PumpFails
<1>2. DialerType'
  BY DEF DialerType, PumpFails, hangUp, None
<1>3. NetType'
  <2>1. link' \in [Conns -> {"unused", "open", "cut", "closed"}]
    BY DEF NetType, PumpFails, hangUp
  <2>. QED BY <2>1 DEF NetType, PumpFails
<1>4. ConnInUse'
  BY DEF ConnInUse, PumpFails, hangUp
<1>5. Undialled'
  BY DEF Undialled, NetType, PumpFails, hangUp, bounds, listener
<1>. QED BY <1>1, <1>2, <1>3, <1>4, <1>5, Frames DEF PumpFails, probe, dialer, bounds, net, listener, processor

(* CloseSink keeps the type invariant. *)
LEMMA TypeInvCloseSink ==
  ASSUME TypeInv, CloseSink
  PROVE  TypeInv'
<1>. USE ReplayAssumption DEF TypeInv, TypeOK, Wiring
<1>1. DialerType'
  BY DEF DialerType, CloseSink
<1>2. BoundsType'
  BY DEF BoundsType, CloseSink
<1>3. NetType'
  <2>1. link' \in [Conns -> {"unused", "open", "cut", "closed"}]
    BY DEF NetType, CloseSink
  <2>. QED BY <2>1 DEF NetType, CloseSink
<1>4. ConnInUse'
  BY DEF ConnInUse, CloseSink
<1>5. Undialled'
  BY DEF Undialled, NetType, CloseSink, listener
<1>. QED BY <1>1, <1>2, <1>3, <1>4, <1>5, Frames DEF CloseSink, probe, net, listener, processor

(* StopLoop keeps the type invariant. *)
LEMMA TypeInvStopLoop ==
  ASSUME TypeInv, StopLoop
  PROVE  TypeInv'
<1>. USE ReplayAssumption DEF TypeInv, TypeOK, Wiring
<1>1. DialerType'
  BY DEF DialerType, StopLoop, None
<1>2. NetType'
  <2>1. link' \in [Conns -> {"unused", "open", "cut", "closed"}]
    BY DEF NetType, StopLoop
  <2>. QED BY <2>1 DEF NetType, StopLoop
<1>3. ConnInUse'
  BY DEF ConnInUse, StopLoop
<1>4. Undialled'
  BY DEF Undialled, NetType, StopLoop, bounds, listener
<1>. QED BY <1>1, <1>2, <1>3, <1>4, Frames DEF StopLoop, probe, bounds, net, listener, processor

(* Reboot keeps the type invariant. *)
LEMMA TypeInvReboot ==
  ASSUME TypeInv, Reboot
  PROVE  TypeInv'
<1>. USE ReplayAssumption DEF TypeInv, TypeOK, Wiring
<1>1. ProbeType'
  BY DEF ProbeType, Reboot, Boots, None
<1>2. DialerType'
  <2>1. closing' \in BOOLEAN
    BY DEF Reboot
  <2>2. /\ loop' \in {"dial", "hello", "catchup", "pump", "closed"}
        /\ conn' \in 0..MaxConns /\ todo' \in Seq(Messages)
    BY DEF Reboot, None
  <2>. QED BY <2>1, <2>2 DEF DialerType
<1>3. NetType'
  <2>1. link' \in [Conns -> {"unused", "open", "cut", "closed"}]
    BY DEF NetType, Reboot
  <2>. QED BY <2>1 DEF NetType, Reboot
<1>4. ConnInUse'
  BY DEF ConnInUse, Reboot
<1>5. Undialled'
  BY DEF Undialled, NetType, Reboot, bounds, listener
<1>. QED BY <1>1, <1>2, <1>3, <1>4, <1>5, Frames DEF Reboot, probe, dialer, bounds, net, listener, processor

(* Break keeps the type invariant. *)
LEMMA TypeInvBreak ==
  ASSUME TypeInv, NEW c \in Conns, Break(c)
  PROVE  TypeInv'
<1>. USE ReplayAssumption DEF TypeInv, TypeOK, Wiring
<1>1. BoundsType'
  BY DEF BoundsType, Break
<1>2. NetType'
  <2>1. link' \in [Conns -> {"unused", "open", "cut", "closed"}]
    BY DEF NetType, Break
  <2>2. toServer' \in [Conns -> Seq(Messages)]
    <3>1. PICK n \in 0..Len(toServer[c]) : toServer' = [toServer EXCEPT ![c] = SubSeq(@, 1, n)]
      BY DEF Break
    <3>2. toServer[c] \in Seq(Messages)
      BY DEF NetType
    <3>3. SubSeq(toServer[c], 1, n) \in Seq(Messages)
      <4>1. \A i \in 1..n : toServer[c][i] \in Messages
        BY <3>2, ElementOfSeq
      <4>. QED BY <4>1, SubSeqProperties
    <3>. QED BY <3>1, <3>3 DEF NetType
  <2>3. serverHello' \in [Conns -> -1..MaxSeq]
    BY NoHelloType DEF NetType, Break
  <2>. QED BY <2>1, <2>2, <2>3 DEF NetType, Break
<1>3. Undialled'
  <2>1. c <= dialled
    BY DEF Break, Undialled, BoundsType, Conns
  <2>. QED BY <2>1 DEF Undialled, NetType, Break, listener, BoundsType, Conns
<1>. QED BY <1>1, <1>2, <1>3, Frames DEF Break, probe, dialer, bounds, net, listener, processor

(* CloseSession keeps the type invariant. *)
LEMMA TypeInvCloseSession ==
  ASSUME TypeInv, CloseSession
  PROVE  TypeInv'
<1>. USE ReplayAssumption DEF TypeInv, TypeOK, Wiring
<1>1. BoundsType'
  BY DEF BoundsType, CloseSession
<1>2. NetType'
  BY ShutType DEF NetType, CloseSession
<1>3. Undialled'
  <2>1. ASSUME NEW c \in Conns, dialled < c
        PROVE  link'[c] = "unused" /\ handler'[c] = "unused" /\ toServer'[c] = <<>>
    <3>1. c # session
      BY <2>1 DEF SessionDialled, BoundsType, Conns
    <3>. QED BY <2>1, <3>1 DEF Undialled, NetType, CloseSession, shut, listener
  <2>. QED BY <2>1 DEF Undialled, CloseSession
<1>. QED BY <1>1, <1>2, <1>3, Frames DEF CloseSession, probe, dialer, bounds, net, listener, processor

(* RestartBackend keeps the type invariant. *)
LEMMA TypeInvRestartBackend ==
  ASSUME TypeInv, RestartBackend
  PROVE  TypeInv'
<1>. USE ReplayAssumption DEF TypeInv, TypeOK, Wiring
<1>1. BoundsType'
  BY DEF BoundsType, RestartBackend
<1>2. NetType'
  <2>1. <<>> \in Seq(Messages)
    OBVIOUS
  <2>. QED BY <2>1 DEF NetType, RestartBackend
<1>3. ListenerType'
  BY DEF ListenerType, RestartBackend, Steps, None
<1>4. SourceType'
  BY DEF SourceType, RestartBackend
<1>5. Undialled'
  BY DEF Undialled, RestartBackend
<1>6. ApplyingLive'
  BY DEF ApplyingLive, RestartBackend
<1>7. SessionDialled'
  BY DEF SessionDialled, RestartBackend, None, Conns
<1>. QED BY <1>1, <1>2, <1>3, <1>4, <1>5, <1>6, <1>7, Frames DEF RestartBackend, probe, dialer, bounds, net, listener, processor
-----------------------------------------------------------------------------
(* The handshake of handleConnection. *)

(* Accept keeps the type invariant. *)
LEMMA TypeInvAccept ==
  ASSUME TypeInv, NEW c \in Conns, Accept(c)
  PROVE  TypeInv'
<1>. USE ReplayAssumption DEF TypeInv, TypeOK, Wiring
<1>1. /\ handler' \in [Conns -> Steps] /\ handler'[c] = ("get")
      /\ \A d \in Conns \ {c} : handler'[d] = handler[d]
  BY GotoType DEF Accept, Steps
<1>2. c <= dialled
  BY InUseDialled DEF Accept
<1>3. NetType'
  <2>1. link' \in [Conns -> {"unused", "open", "cut", "closed"}]
    BY DEF NetType, Accept
  <2>2. Tail(toServer[c]) \in Seq(Messages) /\ <<>> \in Seq(Messages)
    BY DEF NetType, Accept
  <2>3. toServer' \in [Conns -> Seq(Messages)]
    BY <2>2 DEF NetType, Accept
  <2>. QED BY <2>1, <2>3 DEF NetType, Accept
<1>4. ListenerType'
  BY <1>1 DEF ListenerType, Accept, Conns
<1>5. Undialled'
  <2>1. ASSUME NEW d \in Conns, dialled < d
        PROVE  link'[d] = "unused" /\ handler'[d] = "unused" /\ toServer'[d] = <<>>
    <3>1. d # c /\ d # session
      BY <1>2, <2>1 DEF SessionDialled, BoundsType, Conns
    <3>. QED BY <1>1, <2>1, <3>1 DEF Undialled, NetType, Accept
  <2>. QED BY <2>1 DEF Undialled, Accept, bounds
<1>6. ApplyingLive'
  BY <1>1 DEF ApplyingLive, Accept, ListenerType
<1>7. SessionDialled'
  BY <1>2 DEF SessionDialled, Accept, bounds
<1>. QED BY <1>3, <1>4, <1>5, <1>6, <1>7, Frames DEF Accept, probe, dialer, bounds, net, listener, processor

(* AcceptFails keeps the type invariant. *)
LEMMA TypeInvAcceptFails ==
  ASSUME TypeInv, NEW c \in Conns, AcceptFails(c)
  PROVE  TypeInv'
<1>. USE ReplayAssumption DEF TypeInv, TypeOK, Wiring
<1>1. /\ handler' \in [Conns -> Steps] /\ handler'[c] = ("done")
      /\ \A d \in Conns \ {c} : handler'[d] = handler[d]
  BY GotoType DEF AcceptFails, Steps
<1>2. c <= dialled
  BY InUseDialled DEF AcceptFails
<1>3. NetType'
  BY ShutType DEF NetType, AcceptFails
<1>4. ListenerType'
  BY <1>1 DEF ListenerType, AcceptFails
<1>5. Undialled'
  BY <1>1, <1>2 DEF Undialled, AcceptFails, bounds, shut, NetType, BoundsType, Conns
<1>6. ApplyingLive'
  BY <1>1 DEF ApplyingLive, AcceptFails, ListenerType
<1>. QED BY <1>3, <1>4, <1>5, <1>6, Frames DEF AcceptFails, probe, dialer, bounds, net, listener, processor

(* GetPrior keeps the type invariant. *)
LEMMA TypeInvGetPrior ==
  ASSUME TypeInv, NEW c \in Conns, GetPrior(c)
  PROVE  TypeInv'
<1>. USE ReplayAssumption DEF TypeInv, TypeOK, Wiring
<1>1. /\ handler' \in [Conns -> Steps] /\ handler'[c] = (IF registry.boot # bootOf[c] THEN "reset" ELSE "ack")
      /\ \A d \in Conns \ {c} : handler'[d] = handler[d]
  BY GotoType DEF GetPrior, Steps
<1>2. c <= dialled
  BY InUseDialled DEF GetPrior
<1>3. ListenerType'
  BY <1>1 DEF ListenerType, GetPrior
<1>4. Undialled'
  BY <1>1, <1>2 DEF Undialled, GetPrior, bounds, net
<1>5. ApplyingLive'
  BY <1>1 DEF ApplyingLive, GetPrior, ListenerType
<1>. QED BY <1>3, <1>4, <1>5, Frames DEF GetPrior, probe, dialer, bounds, net, listener, processor

(* ResetForBoot keeps the type invariant. *)
LEMMA TypeInvResetForBoot ==
  ASSUME TypeInv, NEW c \in Conns, ResetForBoot(c)
  PROVE  TypeInv'
<1>. USE ReplayAssumption DEF TypeInv, TypeOK, Wiring
<1>1. /\ handler' \in [Conns -> Steps] /\ handler'[c] = ("ack")
      /\ \A d \in Conns \ {c} : handler'[d] = handler[d]
  BY GotoType DEF ResetForBoot, Steps
<1>2. c <= dialled
  BY InUseDialled DEF ResetForBoot
<1>3. ListenerType'
  BY <1>1 DEF ListenerType, ResetForBoot
<1>4. SourceType'
  BY DEF SourceType, ResetForBoot, ResetSource
<1>5. Undialled'
  BY <1>1, <1>2 DEF Undialled, ResetForBoot, bounds, net
<1>6. ApplyingLive'
  BY <1>1 DEF ApplyingLive, ResetForBoot, ListenerType
<1>. QED BY <1>3, <1>4, <1>5, <1>6, Frames DEF ResetForBoot, probe, dialer, bounds, net, listener, processor

(* LastAppliedSeq keeps the type invariant. *)
LEMMA TypeInvLastAppliedSeq ==
  ASSUME TypeInv, NEW c \in Conns, LastAppliedSeq(c)
  PROVE  TypeInv'
<1>. USE ReplayAssumption DEF TypeInv, TypeOK, Wiring
<1>1. /\ handler' \in [Conns -> Steps] /\ handler'[c] = ("hello")
      /\ \A d \in Conns \ {c} : handler'[d] = handler[d]
  BY GotoType DEF LastAppliedSeq, Steps
<1>2. c <= dialled
  BY InUseDialled DEF LastAppliedSeq
<1>3. ListenerType'
  BY <1>1 DEF ListenerType, SourceType, LastAppliedSeq
<1>4. Undialled'
  BY <1>1, <1>2 DEF Undialled, LastAppliedSeq, bounds, net
<1>5. ApplyingLive'
  BY <1>1 DEF ApplyingLive, LastAppliedSeq, ListenerType
<1>. QED BY <1>3, <1>4, <1>5, Frames DEF LastAppliedSeq, probe, dialer, bounds, net, listener, processor

(* WriteServerHello keeps the type invariant. *)
LEMMA TypeInvWriteServerHello ==
  ASSUME TypeInv, NEW c \in Conns, WriteServerHello(c)
  PROVE  TypeInv'
<1>. USE ReplayAssumption DEF TypeInv, TypeOK, Wiring
<1>1. /\ handler' \in [Conns -> Steps] /\ handler'[c] = ("register")
      /\ \A d \in Conns \ {c} : handler'[d] = handler[d]
  BY GotoType DEF WriteServerHello, Steps
<1>2. c <= dialled
  BY InUseDialled DEF WriteServerHello
<1>3. NetType'
  <2>1. ack[c] \in -1..MaxSeq
    BY DEF ListenerType
  <2>. QED BY <2>1 DEF NetType, WriteServerHello
<1>4. ListenerType'
  <2>1. ack' \in [Conns -> 0..MaxSeq]
    BY DEF ListenerType, WriteServerHello
  <2>. QED BY <1>1, <2>1 DEF ListenerType, WriteServerHello
<1>5. Undialled'
  BY <1>1, <1>2 DEF Undialled, WriteServerHello, bounds, net
<1>6. ApplyingLive'
  BY <1>1 DEF ApplyingLive, WriteServerHello, ListenerType
<1>. QED BY <1>3, <1>4, <1>5, <1>6, Frames DEF WriteServerHello, probe, dialer, bounds, net, listener, processor

(* WriteServerHelloFails keeps the type invariant. *)
LEMMA TypeInvWriteServerHelloFails ==
  ASSUME TypeInv, NEW c \in Conns, WriteServerHelloFails(c)
  PROVE  TypeInv'
<1>. USE ReplayAssumption DEF TypeInv, TypeOK, Wiring
<1>1. /\ handler' \in [Conns -> Steps] /\ handler'[c] = ("clean")
      /\ \A d \in Conns \ {c} : handler'[d] = handler[d]
  BY GotoType DEF WriteServerHelloFails, Steps
<1>2. c <= dialled
  BY InUseDialled DEF WriteServerHelloFails
<1>3. ListenerType'
  <2>1. ack' \in [Conns -> 0..MaxSeq]
    BY DEF ListenerType, WriteServerHelloFails
  <2>. QED BY <1>1, <2>1 DEF ListenerType, WriteServerHelloFails
<1>4. Undialled'
  BY <1>1, <1>2 DEF Undialled, WriteServerHelloFails, bounds, net
<1>5. ApplyingLive'
  BY <1>1 DEF ApplyingLive, WriteServerHelloFails, ListenerType
<1>. QED BY <1>3, <1>4, <1>5, Frames DEF WriteServerHelloFails, probe, dialer, bounds, net, listener, processor

(* Register keeps the type invariant. *)
LEMMA TypeInvRegister ==
  ASSUME TypeInv, NEW c \in Conns, Register(c)
  PROVE  TypeInv'
<1>. USE ReplayAssumption DEF TypeInv, TypeOK, Wiring
<1>1. /\ handler' \in [Conns -> Steps] /\ handler'[c] = ("meta")
      /\ \A d \in Conns \ {c} : handler'[d] = handler[d]
  BY GotoType DEF Register, Steps
<1>2. c <= dialled
  BY InUseDialled DEF Register
<1>3. ListenerType'
  BY <1>1 DEF ListenerType, Register
<1>4. SourceType'
  BY DEF SourceType, NetType, Register, processor
<1>5. Undialled'
  BY <1>1, <1>2 DEF Undialled, Register, bounds, net
<1>6. ApplyingLive'
  BY <1>1 DEF ApplyingLive, Register, ListenerType
<1>. QED BY <1>3, <1>4, <1>5, <1>6, Frames DEF Register, probe, dialer, bounds, net, listener, processor

(* WriteSourceMeta keeps the type invariant. *)
LEMMA TypeInvWriteSourceMeta ==
  ASSUME TypeInv, NEW c \in Conns, WriteSourceMeta(c)
  PROVE  TypeInv'
<1>. USE ReplayAssumption DEF TypeInv, TypeOK, Wiring
<1>1. /\ handler' \in [Conns -> Steps] /\ handler'[c] = ("read")
      /\ \A d \in Conns \ {c} : handler'[d] = handler[d]
  BY GotoType DEF WriteSourceMeta, Steps
<1>2. c <= dialled
  BY InUseDialled DEF WriteSourceMeta
<1>3. ListenerType'
  BY <1>1 DEF ListenerType, WriteSourceMeta
<1>4. SourceType'
  BY DEF SourceType, NetType, WriteSourceMeta, processor
<1>5. Undialled'
  BY <1>1, <1>2 DEF Undialled, WriteSourceMeta, bounds, net
<1>6. ApplyingLive'
  BY <1>1 DEF ApplyingLive, WriteSourceMeta, ListenerType
<1>. QED BY <1>3, <1>4, <1>5, <1>6, Frames DEF WriteSourceMeta, probe, dialer, bounds, net, listener, processor
=============================================================================
