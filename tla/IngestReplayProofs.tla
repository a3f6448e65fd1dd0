------------------------- MODULE IngestReplayProofs -------------------------
(***************************************************************************)
(* The ingest protocol for any number of producers, connections, boots and *)
(* restarts, any capacity of queue and ring, with and without Overlap: the *)
(* read loop of handleConnection keeps the type invariant too, and the     *)
(* theorems follow.                                                        *)
(***************************************************************************)
EXTENDS IngestReplayTypes

(* ReadEnvelope keeps the type invariant. *)
LEMMA TypeInvReadEnvelope ==
  ASSUME TypeInv, NEW c \in Conns, ReadEnvelope(c)
  PROVE  TypeInv'
<1>. USE ReplayAssumption DEF TypeInv, TypeOK, Wiring
<1>1. /\ handler' \in [Conns -> Steps] /\ handler'[c] = ("check")
      /\ \A d \in Conns \ {c} : handler'[d] = handler[d]
  BY GotoType DEF ReadEnvelope, Steps
<1>2. c <= dialled
  BY InUseDialled DEF ReadEnvelope
<1>3. NetType'
  <2>1. Tail(toServer[c]) \in Seq(Messages)
    BY DEF NetType, ReadEnvelope
  <2>. QED BY <2>1 DEF NetType, ReadEnvelope
<1>4. ListenerType'
  <2>1. Head(toServer[c]) \in Messages
    BY DEF NetType, ReadEnvelope
  <2>. QED BY <1>1, <2>1 DEF ListenerType, ReadEnvelope
<1>5. Undialled'
  BY <1>1, <1>2 DEF Undialled, ReadEnvelope, bounds, NetType, BoundsType, Conns
<1>6. ApplyingLive'
  BY <1>1 DEF ApplyingLive, ReadEnvelope, ListenerType
<1>. QED BY <1>3, <1>4, <1>5, <1>6, Frames DEF ReadEnvelope, probe, dialer, bounds, net, listener, processor

(* ReadFails keeps the type invariant. *)
LEMMA TypeInvReadFails ==
  ASSUME TypeInv, NEW c \in Conns, ReadFails(c)
  PROVE  TypeInv'
<1>. USE ReplayAssumption DEF TypeInv, TypeOK, Wiring
<1>1. /\ handler' \in [Conns -> Steps] /\ handler'[c] = ("clean")
      /\ \A d \in Conns \ {c} : handler'[d] = handler[d]
  BY GotoType DEF ReadFails, Steps
<1>2. c <= dialled
  BY InUseDialled DEF ReadFails
<1>3. ListenerType'
  BY <1>1 DEF ListenerType, ReadFails
<1>4. Undialled'
  BY <1>1, <1>2 DEF Undialled, ReadFails, bounds, net
<1>5. ApplyingLive'
  BY <1>1 DEF ApplyingLive, ReadFails, ListenerType
<1>. QED BY <1>3, <1>4, <1>5, Frames DEF ReadFails, probe, dialer, bounds, net, listener, processor

(* ApplySnapshot keeps the type invariant. *)
LEMMA TypeInvApplySnapshot ==
  ASSUME TypeInv, NEW c \in Conns, ApplySnapshot(c)
  PROVE  TypeInv'
<1>. USE ReplayAssumption DEF TypeInv, TypeOK, Wiring
<1>1. /\ handler' \in [Conns -> Steps] /\ handler'[c] = ("read")
      /\ \A d \in Conns \ {c} : handler'[d] = handler[d]
  BY GotoType DEF ApplySnapshot, Steps
<1>2. c <= dialled
  BY InUseDialled DEF ApplySnapshot
<1>3. ListenerType'
  <2>1. received' \in [Conns -> Messages]
    BY MessageTypes DEF ListenerType, ApplySnapshot, letGo
  <2>. QED BY <1>1, <2>1 DEF ListenerType, ApplySnapshot
<1>4. SourceType'
  <2>1. bootOf[c] \in Boots
    <3>1. BootKnown
      OBVIOUS
    <3>. HIDE DEF TypeInv
    <3>. QED BY <1>2, <3>1, Zenon DEF BootKnown
  <2>2. {<<bootOf[c], n>> : n \in 1..received[c].seq} \subseteq Events
    <3>1. received[c] \in Messages
      BY DEF ListenerType
    <3>2. received[c].seq \in 0..MaxSeq
      BY <3>1, MessageFields
    <3>. HIDE DEF TypeInv
    <3>3. 1..received[c].seq \subseteq Seqs
      BY <3>2 DEF Seqs
    <3>. QED BY <2>1, <3>3 DEF Events
  <2>3. cursor' \in 0..MaxSeq /\ counted' = counted
    BY DEF SourceType, ApplySnapshot, ResetSource
  <2>4. view' = {} \/ view' = view \union {<<bootOf[c], n>> : n \in 1..received[c].seq}
    BY DEF ApplySnapshot, ResetSource
  <2>5. view' \in SUBSET Events
    BY <2>2, <2>4 DEF SourceType
  <2>. QED BY <2>3, <2>5 DEF SourceType, ApplySnapshot
<1>5. Undialled'
  BY <1>1, <1>2 DEF Undialled, ApplySnapshot, bounds, net
<1>6. ApplyingLive'
  BY <1>1 DEF ApplyingLive, ApplySnapshot, letGo, ListenerType
<1>. QED BY <1>3, <1>4, <1>5, <1>6, Frames DEF ApplySnapshot, probe, dialer, bounds, net, listener, processor

(* CheckDuplicate keeps the type invariant. *)
LEMMA TypeInvCheckDuplicate ==
  ASSUME TypeInv, NEW c \in Conns, CheckDuplicate(c)
  PROVE  TypeInv'
<1>. USE ReplayAssumption DEF TypeInv, TypeOK, Wiring
<1>1. /\ handler' \in [Conns -> Steps] /\ handler'[c] = (IF isDuplicate(c) THEN "read" ELSE "apply")
      /\ \A d \in Conns \ {c} : handler'[d] = handler[d]
  BY GotoType DEF CheckDuplicate, Steps
<1>2. c <= dialled
  BY InUseDialled DEF CheckDuplicate
<1>3. ListenerType'
  <2>1. received' \in [Conns -> Messages]
    BY MessageTypes DEF ListenerType, CheckDuplicate, letGo
  <2>. QED BY <1>1, <2>1 DEF ListenerType, CheckDuplicate
<1>4. Undialled'
  BY <1>1, <1>2 DEF Undialled, CheckDuplicate, bounds, net
<1>5. ApplyingLive'
  BY <1>1 DEF ApplyingLive, CheckDuplicate, letGo, ListenerType
<1>. QED BY <1>3, <1>4, <1>5, Frames DEF CheckDuplicate, probe, dialer, bounds, net, listener, processor

(* ApplyPayload keeps the type invariant. *)
LEMMA TypeInvApplyPayload ==
  ASSUME TypeInv, NEW c \in Conns, ApplyPayload(c)
  PROVE  TypeInv'
<1>. USE ReplayAssumption DEF TypeInv, TypeOK, Wiring
<1>1. /\ handler' \in [Conns -> Steps] /\ handler'[c] = ("cursor")
      /\ \A d \in Conns \ {c} : handler'[d] = handler[d]
  BY GotoType DEF ApplyPayload, Steps
<1>2. c <= dialled
  BY InUseDialled DEF ApplyPayload
<1>3. ListenerType'
  BY <1>1 DEF ListenerType, ApplyPayload
<1>4. SourceType'
  <2>1. bootOf[c] \in Boots /\ received[c].seq \in Seqs
    BY <1>2, MessageFields DEF BootKnown, ApplyPayload, ApplyingLive, ListenerType
  <2>2. <<bootOf[c], received[c].seq>> \in Events
    BY <2>1 DEF Events
  <2>3. view' \in SUBSET Events
    BY <2>2 DEF SourceType, ApplyPayload
  <2>. DEFINE e == <<bootOf[c], received[c].seq>>
  <2>5. /\ e \in Events /\ counted \in [Events -> 0..2]
        /\ counted' = [counted EXCEPT ![e] = IF counted[e] < 2 THEN counted[e] + 1 ELSE counted[e]]
    BY <2>2 DEF SourceType, ApplyPayload
  <2>. HIDE DEF e
  <2>4. counted' \in [Events -> 0..2]
    BY <2>5
  <2>. QED BY <2>3, <2>4 DEF SourceType, ApplyPayload
<1>5. Undialled'
  BY <1>1, <1>2 DEF Undialled, ApplyPayload, bounds, net
<1>6. ApplyingLive'
  BY <1>1 DEF ApplyingLive, ApplyPayload, ListenerType
<1>. QED BY <1>3, <1>4, <1>5, <1>6, Frames DEF ApplyPayload, probe, dialer, bounds, net, listener, processor

(* AdvanceCursor keeps the type invariant. *)
LEMMA TypeInvAdvanceCursor ==
  ASSUME TypeInv, NEW c \in Conns, AdvanceCursor(c)
  PROVE  TypeInv'
<1>. USE ReplayAssumption DEF TypeInv, TypeOK, Wiring
<1>1. /\ handler' \in [Conns -> Steps] /\ handler'[c] = ("read")
      /\ \A d \in Conns \ {c} : handler'[d] = handler[d]
  BY GotoType DEF AdvanceCursor, Steps
<1>2. c <= dialled
  BY InUseDialled DEF AdvanceCursor
<1>3. ListenerType'
  <2>1. received' \in [Conns -> Messages]
    BY MessageTypes DEF ListenerType, AdvanceCursor, letGo
  <2>. QED BY <1>1, <2>1 DEF ListenerType, AdvanceCursor
<1>4. SourceType'
  <2>1. cursor' \in 0..MaxSeq
    BY MessageFields DEF SourceType, AdvanceCursor, ListenerType
  <2>. QED BY <2>1 DEF SourceType, AdvanceCursor
<1>5. Undialled'
  BY <1>1, <1>2 DEF Undialled, AdvanceCursor, bounds, net
<1>6. ApplyingLive'
  BY <1>1 DEF ApplyingLive, AdvanceCursor, letGo, ListenerType
<1>. QED BY <1>3, <1>4, <1>5, <1>6, Frames DEF AdvanceCursor, probe, dialer, bounds, net, listener, processor

(* GiveUp keeps the type invariant. *)
LEMMA TypeInvGiveUp ==
  ASSUME TypeInv, NEW c \in Conns, GiveUp(c)
  PROVE  TypeInv'
<1>. USE ReplayAssumption DEF TypeInv, TypeOK, Wiring
<1>1. /\ handler' \in [Conns -> Steps] /\ handler'[c] = (IF session = c THEN "disconnect" ELSE "done")
      /\ \A d \in Conns \ {c} : handler'[d] = handler[d]
  BY GotoType DEF GiveUp, Steps
<1>2. c <= dialled
  BY InUseDialled DEF GiveUp
<1>3. NetType'
  BY ShutType DEF NetType, GiveUp
<1>4. ListenerType'
  BY <1>1 DEF ListenerType, GiveUp, None
<1>5. Undialled'
  BY <1>1, <1>2 DEF Undialled, GiveUp, bounds, shut, NetType, BoundsType, Conns
<1>6. ApplyingLive'
  BY <1>1 DEF ApplyingLive, GiveUp, ListenerType
<1>7. SessionDialled'
  BY DEF SessionDialled, GiveUp, bounds, None, Conns
<1>. QED BY <1>3, <1>4, <1>5, <1>6, <1>7, Frames DEF GiveUp, probe, dialer, bounds, net, listener, processor

(* SetDisconnected keeps the type invariant. *)
LEMMA TypeInvSetDisconnected ==
  ASSUME TypeInv, NEW c \in Conns, SetDisconnected(c)
  PROVE  TypeInv'
<1>. USE ReplayAssumption DEF TypeInv, TypeOK, Wiring
<1>1. /\ handler' \in [Conns -> Steps] /\ handler'[c] = ("done")
      /\ \A d \in Conns \ {c} : handler'[d] = handler[d]
  BY GotoType DEF SetDisconnected, Steps
<1>2. c <= dialled
  BY InUseDialled DEF SetDisconnected
<1>3. NetType'
  BY ShutType DEF NetType, SetDisconnected
<1>4. ListenerType'
  BY <1>1 DEF ListenerType, SetDisconnected
<1>5. SourceType'
  BY DEF SourceType, SetDisconnected, processor
<1>6. Undialled'
  BY <1>1, <1>2 DEF Undialled, SetDisconnected, bounds, shut, NetType, BoundsType, Conns
<1>7. ApplyingLive'
  BY <1>1 DEF ApplyingLive, SetDisconnected, ListenerType
<1>. QED BY <1>3, <1>4, <1>5, <1>6, <1>7, Frames DEF SetDisconnected, probe, dialer, bounds, net, listener, processor
-----------------------------------------------------------------------------
(* The type invariant is inductive. *)
LEMMA TypeInvNext == TypeInv /\ [Next]_vars => TypeInv'
<1>. SUFFICES ASSUME TypeInv, [Next]_vars PROVE TypeInv'
  OBVIOUS
<1>1. CASE UNCHANGED vars
  BY <1>1, Frames DEF vars, TypeInv, TypeOK, Wiring, dialer, bounds, net, listener
<1>2. CASE ConnectLoop
  BY <1>2, TypeInvDial, TypeInvReadServerHello, TypeInvConnectFails, TypeInvWriteCatchup, TypeInvAttach, TypeInvCatchupFails, TypeInvPump, TypeInvPumpFails, TypeInvStopLoop
     DEF ConnectLoop
<1>3. ASSUME NEW c \in Conns, Handle(c) PROVE TypeInv'
  BY <1>3, TypeInvAccept, TypeInvAcceptFails, TypeInvGetPrior, TypeInvResetForBoot, TypeInvLastAppliedSeq, TypeInvWriteServerHello, TypeInvWriteServerHelloFails, TypeInvRegister, TypeInvWriteSourceMeta, TypeInvReadEnvelope, TypeInvReadFails, TypeInvApplySnapshot, TypeInvCheckDuplicate, TypeInvApplyPayload, TypeInvAdvanceCursor, TypeInvGiveUp, TypeInvSetDisconnected
     DEF Handle
<1>. QED
  BY <1>1, <1>2, <1>3, TypeInvEmit, TypeInvWrite, TypeInvCloseSink, TypeInvReboot, TypeInvBreak,
     TypeInvCloseSession, TypeInvRestartBackend DEF Next

(* Every variable keeps its type for every value of the bounds; in particular
   sendCh never holds more than QueueCap envelopes (Write). *)
THEOREM TypeCorrect == Spec => []TypeOK
<1>1. TypeInv => TypeOK
  BY DEF TypeInv
<1>. QED BY <1>1, TypeInvInit, TypeInvNext, PTL DEF Spec

-----------------------------------------------------------------------------
(* The session's exclusion survives a step that neither takes a session over,
   nor gives one up, nor reopens a connection the backend closed. *)
LEMMA ExclusiveFrame ==
  ASSUME SessionIsExclusive, session' = session,
         \A c \in Conns : serving(c)' => serving(c),
         \A c \in Conns : link[c] = "closed" => link'[c] = "closed"
  PROVE  SessionIsExclusive'
BY DEF SessionIsExclusive

(* Nothing the probe does disturbs the sessions. *)
LEMMA ExclusiveProbe ==
  ASSUME TypeInv, SessionIsExclusive,
         (\E p \in Producers : Emit(p) \/ Write(p)) \/ ConnectLoop \/ CloseSink \/ Reboot
  PROVE  SessionIsExclusive'
<1>1. session' = session /\ handler' = handler
  BY DEF Emit, Write, ConnectLoop, CloseSink, Reboot, listener, Dial, ReadServerHello,
         ConnectFails, WriteCatchup, Attach, CatchupFails, Pump, PumpFails, StopLoop
<1>2. ASSUME NEW c \in Conns, link[c] = "closed" PROVE link'[c] = "closed"
  <2>1. CASE Dial
    <3>1. c <= dialled
      BY <1>2, InUseDialled DEF TypeInv, TypeOK, Wiring
    <3>2. dialled \in Nat /\ c \in Nat
      BY ReplayAssumption DEF TypeInv, TypeOK, BoundsType, Conns
    <3>3. c # dialled + 1
      BY <3>1, <3>2
    <3>. QED BY <1>2, <2>1, <3>3 DEF Dial, TypeInv, TypeOK, NetType
  <2>2. CASE hangUp
    BY <1>2, <2>2 DEF hangUp, TypeInv, TypeOK, NetType
  <2>3. CASE CloseSink \/ StopLoop \/ Reboot
    BY <1>2, <2>3 DEF CloseSink, StopLoop, Reboot, TypeInv, TypeOK, NetType
  <2>4. CASE UNCHANGED link
    BY <1>2, <2>4
  <2>. QED BY <2>1, <2>2, <2>3, <2>4
           DEF Emit, Write, ConnectLoop, net, ReadServerHello, ConnectFails, WriteCatchup,
               Attach, CatchupFails, Pump, PumpFails
<1>. QED BY <1>1, <1>2, ExclusiveFrame DEF serving

(* A takeover closes the connection of the session it replaces. *)
LEMMA ExclusiveAccept ==
  ASSUME TypeInv, SessionIsExclusive, NEW c \in Conns, Accept(c)
  PROVE  SessionIsExclusive'
<1>1. /\ session' = c
      /\ \A d \in Conns \ {c} : handler'[d] = handler[d]
      /\ session \in Conns => link'[session] = "closed"
      /\ \A d \in Conns : link[d] = "closed" => link'[d] = "closed"
  BY ReplayAssumption DEF Accept, goto, TypeInv, TypeOK, ListenerType, NetType, None, Conns
<1>2. ASSUME NEW d \in Conns, serving(d)', link'[d] # "closed" PROVE d = c
  <2>. SUFFICES ASSUME d # c PROVE FALSE
    OBVIOUS
  <2>1. serving(d) /\ link[d] # "closed"
    BY <1>1, <1>2 DEF serving
  <2>. QED BY <1>1, <1>2, <2>1 DEF SessionIsExclusive
<1>. QED BY <1>1, <1>2 DEF SessionIsExclusive

(* A goroutine that gives up the session it holds serves no more, and one that
   was preempted leaves its successor's session alone. *)
LEMMA ExclusiveGiveUp ==
  ASSUME TypeInv, SessionIsExclusive, NEW c \in Conns, GiveUp(c)
  PROVE  SessionIsExclusive'
<1>1. CASE session = c
  <2>1. /\ link' = link /\ handler'[c] = "disconnect"
        /\ \A d \in Conns \ {c} : handler'[d] = handler[d]
    BY <1>1 DEF GiveUp, goto, TypeInv, TypeOK, ListenerType
  <2>. QED BY <1>1, <2>1 DEF SessionIsExclusive, serving
<1>2. CASE session # c
  <2>1. /\ session' = session /\ handler'[c] = "done"
        /\ \A d \in Conns \ {c} : handler'[d] = handler[d]
        /\ \A d \in Conns : link[d] = "closed" => link'[d] = "closed"
    BY <1>2 DEF GiveUp, goto, shut, TypeInv, TypeOK, ListenerType, NetType
  <2>. QED BY <2>1, ExclusiveFrame DEF serving
<1>. QED BY <1>1, <1>2

(* The sessions stay exclusive under every step of handleConnection, *)
LEMMA ExclusiveHandle ==
  ASSUME TypeInv, SessionIsExclusive, NEW c \in Conns, Handle(c)
  PROVE  SessionIsExclusive'
<1>. USE DEF TypeInv, TypeOK
<1>1. CASE AcceptFails(c) \/ SetDisconnected(c)
  <2>1. /\ session' = session /\ handler'[c] = "done"
        /\ \A d \in Conns \ {c} : handler'[d] = handler[d]
        /\ \A d \in Conns : link[d] = "closed" => link'[d] = "closed"
    BY <1>1 DEF AcceptFails, SetDisconnected, shut, goto, ListenerType, NetType
  <2>. QED BY <2>1, ExclusiveFrame DEF serving
<1>2. ASSUME \/ GetPrior(c) \/ ResetForBoot(c) \/ LastAppliedSeq(c) \/ WriteServerHello(c)
             \/ WriteServerHelloFails(c) \/ Register(c) \/ WriteSourceMeta(c)
             \/ ReadEnvelope(c) \/ ReadFails(c) \/ ApplySnapshot(c) \/ CheckDuplicate(c)
             \/ ApplyPayload(c) \/ AdvanceCursor(c)
      PROVE  SessionIsExclusive'
  <2>1. serving(c) /\ session' = session /\ link' = link
    BY <1>2 DEF serving, net, GetPrior, ResetForBoot, LastAppliedSeq, WriteServerHello,
       WriteServerHelloFails, Register, WriteSourceMeta, ReadEnvelope, ReadFails,
       ApplySnapshot, CheckDuplicate, ApplyPayload, AdvanceCursor
  <2>2. \E step : goto(c, step)
    BY <1>2 DEF GetPrior, ResetForBoot, LastAppliedSeq, WriteServerHello,
       WriteServerHelloFails, Register, WriteSourceMeta, ReadEnvelope, ReadFails,
       ApplySnapshot, CheckDuplicate, ApplyPayload, AdvanceCursor
  <2>3. \A d \in Conns \ {c} : handler'[d] = handler[d]
    BY <2>2 DEF goto, ListenerType
  <2>. QED BY <2>1, <2>3, ExclusiveFrame DEF serving
<1>. QED BY <1>1, <1>2, ExclusiveAccept, ExclusiveGiveUp DEF Handle

(* and under every step of the system. *)
LEMMA ExclusiveNext == TypeInv /\ SessionIsExclusive /\ [Next]_vars => SessionIsExclusive'
<1>. SUFFICES ASSUME TypeInv, SessionIsExclusive, [Next]_vars PROVE SessionIsExclusive'
  OBVIOUS
<1>1. CASE UNCHANGED vars
  BY <1>1 DEF SessionIsExclusive, serving, vars, net, listener
<1>2. CASE CloseSession \/ \E c \in Conns : Break(c)
  <2>1. /\ session' = session /\ handler' = handler
        /\ \A d \in Conns : link[d] = "closed" => link'[d] = "closed"
    BY <1>2 DEF CloseSession, Break, shut, listener, TypeInv, TypeOK, NetType
  <2>. QED BY <2>1, ExclusiveFrame DEF serving
<1>3. CASE RestartBackend
  BY <1>3 DEF RestartBackend, SessionIsExclusive, serving
<1>. QED BY <1>1, <1>2, <1>3, ExclusiveProbe, ExclusiveHandle DEF Next

(* However connections overlap, break and are dialled again, whatever the
   order of takeovers and deferred clean-ups in handleConnection, a connection
   that is being served and that the backend has not closed is the one in
   l.sessions; so there is at most one. *)
THEOREM SessionExclusive == Spec => []SessionIsExclusive
<1>1. Init => SessionIsExclusive
  BY DEF Init, SessionIsExclusive, serving
<1>. QED BY <1>1, TypeInvInit, TypeInvNext, ExclusiveNext, PTL DEF Spec

(* The cursor of ApplyForSource goes back to 0 with an empty view, or not at
   all, even with goroutines of several connections between its three critical
   sections. *)
THEOREM CursorNeverRegresses == Spec => CursorMonotone
<1>1. TypeInv /\ [Next]_vars => [cursor' < cursor => cursor' = 0 /\ view' = {}]_vars
  <2>. SUFFICES ASSUME TypeInv, Next PROVE cursor' < cursor => cursor' = 0 /\ view' = {}
    OBVIOUS
  <2>. USE ReplayAssumption DEF TypeInv, TypeOK
  <2>1. cursor \in 0..MaxSeq
    BY DEF SourceType
  <2>2. CASE UNCHANGED cursor
    BY <2>1, <2>2
  <2>3. CASE cursor' = 0 /\ view' = {}
    BY <2>3
  <2>4. ASSUME NEW c \in Conns, AdvanceCursor(c) PROVE ~(cursor' < cursor)
    BY <2>1, <2>4, MessageFields DEF AdvanceCursor, ListenerType
  <2>5. ConnectLoop => UNCHANGED cursor
    BY DEF ConnectLoop, processor, Dial, ReadServerHello, ConnectFails, WriteCatchup, Attach,
           CatchupFails, Pump, PumpFails, StopLoop
  <2>6. ASSUME NEW c \in Conns, Handle(c)
        PROVE  UNCHANGED cursor \/ (cursor' = 0 /\ view' = {}) \/ AdvanceCursor(c)
    BY <2>6 DEF Handle, processor, ResetSource, Accept, AcceptFails, GetPrior, ResetForBoot,
           LastAppliedSeq, WriteServerHello, WriteServerHelloFails, Register, WriteSourceMeta,
           ReadEnvelope, ReadFails, ApplySnapshot, CheckDuplicate, ApplyPayload, GiveUp,
           SetDisconnected
  <2>7. UNCHANGED cursor \/ (cursor' = 0 /\ view' = {}) \/ \E c \in Conns : AdvanceCursor(c)
    BY <2>5, <2>6 DEF Next, processor, Emit, Write, CloseSink, Reboot, Break, CloseSession,
           RestartBackend
  <2>. QED BY <2>1, <2>2, <2>3, <2>4, <2>7
<1>. QED BY <1>1, TypeInvInit, TypeInvNext, PTL DEF Spec, CursorMonotone
=============================================================================
