---------------------------- MODULE IngestReplay ----------------------------
(***************************************************************************)
(* One probe and the backend, joined by the ingest protocol.               *)
(*                                                                         *)
(* Probe: producers call Emit, which numbers an envelope and, after the    *)
(* lock is released, offers it to SinkIngest's bounded sendCh; connectLoop *)
(* dials, shakes hands, catches up and pumps sendCh (probe/sink_ingest.go).*)
(* Backend: every accepted connection runs handleConnection in a goroutine *)
(* of its own (internal/ingest/ingest.go), which applies envelopes to the  *)
(* Processor in several critical sections (ApplyForSource).                *)
(*                                                                         *)
(* An event is the pair <<boot, seq>>.  What the alias maps of the source  *)
(* reflect is the set of events in view; how often an event's payload was  *)
(* added to the slot aggregates is counted.                                *)
(***************************************************************************)
EXTENDS Integers, Sequences, FiniteSets

CONSTANTS Producers,       \* goroutines that call Emit
          QueueCap,        \* capacity of sendCh
          RingSize,        \* capacity of the emitter's ring
          MaxSeq,          \* bound: envelopes emitted per boot
          MaxConns,        \* bound: connections dialled
          MaxBreaks,       \* bound: connections broken, sessions and sinks closed
          MaxBoots,        \* bound: boots of the probe
          MaxRestarts,     \* bound: restarts of the backend
          Overlap          \* may a session be taken over while the goroutine of
                           \* an older one is between two steps on the source's state?

ASSUME ReplayAssumption ==
  /\ QueueCap \in Nat \ {0} /\ RingSize \in Nat \ {0} /\ MaxSeq \in Nat
  /\ MaxConns \in Nat /\ MaxBreaks \in Nat /\ MaxBoots \in Nat \ {0}
  /\ MaxRestarts \in Nat /\ Overlap \in BOOLEAN

VARIABLES boot, last, carrying, sendCh,   \* probe: bootID, nextSeq - 1, Emit past its lock, queue
          closing, loop, conn, todo,      \* SinkIngest: closed, connectLoop's place, conn, catch-up left
          dialled, breaks, restarts,      \* the bounds' counters
          link, toServer, serverHello, bootOf,       \* connections
          session, handler, received, ack,   \* Listener and its goroutines
          registry, stored,               \* sources.Registry, and its copy in SQLite
          cursor, view, counted           \* Processor: lastAppliedSeq, alias maps, slots

probe   == <<boot, last, carrying, sendCh>>
dialer  == <<closing, loop, conn, todo>>
bounds  == <<dialled, breaks, restarts>>
net     == <<link, toServer, serverHello, bootOf>>
listener == <<session, handler, received, ack>>
processor == <<cursor, view, counted>>
vars == <<probe, dialer, bounds, net, listener, registry, stored, processor>>

Seqs  == 1..MaxSeq
Boots == 1..MaxBoots
Conns == 1..MaxConns
Events == Boots \X Seqs

None == 0     \* no boot, no connection, no envelope
NoHello == -1 \* no ServerHello on the wire

(* What travels from the probe to the backend. *)
Hello     == [kind |-> "hello", seq |-> 0]
Start     == [kind |-> "start", seq |-> 0]     \* SnapshotStart
Upserts(n) == [kind |-> "upserts", seq |-> n]  \* snapshot taken when n was the newest event
Live(n)   == [kind |-> "live", seq |-> n]
Messages  == {Hello, Start} \union {Upserts(n) : n \in 0..MaxSeq} \union {Live(n) : n \in Seqs}

Unregistered == [boot |-> None, connected |-> FALSE]

Init ==
  /\ boot = 1 /\ last = 0 /\ sendCh = <<>>
  /\ carrying = [p \in Producers |-> None]
  /\ closing = FALSE /\ loop = "dial" /\ conn = None /\ todo = <<>>
  /\ dialled = 0 /\ breaks = 0 /\ restarts = 0
  /\ link = [c \in Conns |-> "unused"]
  /\ toServer = [c \in Conns |-> <<>>]
  /\ serverHello = [c \in Conns |-> NoHello]
  /\ bootOf = [c \in Conns |-> None]
  /\ session = None
  /\ handler = [c \in Conns |-> "unused"]
  /\ received = [c \in Conns |-> Hello]
  /\ ack = [c \in Conns |-> 0]
  /\ registry = Unregistered /\ stored = Unregistered
  /\ cursor = 0 /\ view = {} /\ counted = [e \in Events |-> 0]

-----------------------------------------------------------------------------
(* The emitter's ring, by what EmitterProofs shows it to do. *)
Ring == INSTANCE EventWindow
          WITH BufferSize <- RingSize, stopped <- closing, request <- 0,
               answer <- [ok |-> TRUE, events |-> {}]

(* Emit up to its unlock: number the envelope and store it in the ring. *)
Emit(p) ==
  /\ carrying[p] = None
  /\ last < MaxSeq
  /\ ~closing
  /\ last' = last + 1
  /\ carrying' = [carrying EXCEPT ![p] = last + 1]
  /\ UNCHANGED <<boot, sendCh, dialer, bounds, net, listener, registry, stored, processor>>

(* Mutant: the queue is not bounded. *)
Write_Unbounded(p) ==
  /\ carrying[p] # None
  /\ sendCh' = IF ~closing THEN Append(sendCh, carrying[p]) ELSE sendCh
  /\ carrying' = [carrying EXCEPT ![p] = None]
  /\ UNCHANGED <<boot, last, dialer, bounds, net, listener, registry, stored, processor>>

(* SinkIngest.Write, called by Emit after the unlock: a full queue and a
   closed sink drop the envelope. *)
Write(p) ==
  /\ carrying[p] # None
  /\ sendCh' = IF ~closing /\ Len(sendCh) < QueueCap
               THEN Append(sendCh, carrying[p]) ELSE sendCh
  /\ carrying' = [carrying EXCEPT ![p] = None]
  /\ UNCHANGED <<boot, last, dialer, bounds, net, listener, registry, stored, processor>>

-----------------------------------------------------------------------------
(* connect: dial and write the ClientHello. *)
Dial ==
  /\ loop = "dial" /\ ~closing /\ dialled < MaxConns
  /\ dialled' = dialled + 1
  /\ conn' = dialled + 1
  /\ link' = [link EXCEPT ![dialled + 1] = "open"]
  /\ bootOf' = [bootOf EXCEPT ![dialled + 1] = boot]
  /\ toServer' = [toServer EXCEPT ![dialled + 1] = <<Hello>>]
  /\ loop' = "hello"
  /\ UNCHANGED <<probe, closing, todo, breaks, restarts, serverHello, listener, registry, stored, processor>>

(* Mutant: the replay starts one event too late. *)
catchup_SkipsOne(lastAcked) ==
  LET read == Ring!WindowRead(lastAcked + 2, last)
  IN  IF lastAcked > 0 /\ read.ok
      THEN [i \in 1..Cardinality(read.events) |-> Live(lastAcked + 1 + i)]
      ELSE <<Start, Upserts(last)>>

(* sendCatchup's choice: what the ring holds after lastAcked, or a snapshot. *)
catchup(lastAcked) ==
  LET read == Ring!WindowRead(lastAcked + 1, last)
  IN  IF lastAcked > 0 /\ read.ok
      THEN [i \in 1..Cardinality(read.events) |-> Live(lastAcked + i)]
      ELSE <<Start, Upserts(last)>>

(* connect reads the ServerHello and sendCatchup starts. *)
ReadServerHello ==
  /\ loop = "hello" /\ serverHello[conn] # NoHello
  /\ todo' = catchup(serverHello[conn])
  /\ serverHello' = [serverHello EXCEPT ![conn] = NoHello]
  /\ loop' = "catchup"
  /\ UNCHANGED <<probe, closing, conn, bounds, link, toServer, bootOf, listener, registry, stored, processor>>

(* Hang up: closeConn, or the conn.Close of a failed connect.  What was written
   before can still be read at the other end. *)
hangUp ==
  /\ link' = IF link[conn] = "open" THEN [link EXCEPT ![conn] = "cut"] ELSE link
  /\ conn' = None /\ todo' = <<>> /\ loop' = "dial"
  /\ UNCHANGED closing

(* Mutant: connectLoop returns on the first error. *)
ConnectFails_Returns ==
  /\ loop = "hello" /\ link[conn] # "open"
  /\ link' = [link EXCEPT ![conn] = "closed"]
  /\ conn' = None /\ todo' = <<>> /\ loop' = "closed" /\ closing' = closing
  /\ UNCHANGED <<probe, bounds, toServer, serverHello, bootOf, listener, registry, stored, processor>>

(* ReadServerHello fails; connectLoop dials again 250 ms later. *)
ConnectFails ==
  /\ loop = "hello" /\ link[conn] # "open"
  /\ hangUp
  /\ UNCHANGED <<probe, bounds, toServer, serverHello, bootOf, listener, registry, stored, processor>>

(* WriteEnvelope.  A write to a connection that is gone either fails or is
   swallowed by the socket's buffer. *)
put(m) ==
  toServer' = IF link[conn] = "open" THEN [toServer EXCEPT ![conn] = Append(@, m)] ELSE toServer

WriteCatchup ==
  /\ loop = "catchup" /\ todo # <<>>
  /\ put(Head(todo))
  /\ todo' = Tail(todo)
  /\ UNCHANGED <<probe, closing, loop, conn, bounds, link, serverHello, bootOf, listener, registry, stored, processor>>

(* sendCatchup returns; the sink counts as attached and writePump starts. *)
Attach ==
  /\ loop = "catchup" /\ todo = <<>>
  /\ loop' = "pump"
  /\ UNCHANGED <<probe, closing, conn, todo, bounds, net, listener, registry, stored, processor>>

CatchupFails ==
  /\ loop = "catchup" /\ todo # <<>> /\ link[conn] # "open"
  /\ hangUp
  /\ UNCHANGED <<probe, bounds, toServer, serverHello, bootOf, listener, registry, stored, processor>>

(* One round of writePump: take an envelope and write it.  A connection that
   is gone is noticed by a failing write only. *)
Pump ==
  /\ loop = "pump" /\ sendCh # <<>>
  /\ sendCh' = Tail(sendCh)
  /\ put(Live(Head(sendCh)))
  /\ UNCHANGED <<boot, last, carrying, dialer, bounds, link, serverHello, bootOf, listener, registry, stored, processor>>

PumpFails ==
  /\ loop = "pump" /\ sendCh # <<>> /\ link[conn] # "open"
  /\ sendCh' = Tail(sendCh)
  /\ hangUp
  /\ UNCHANGED <<boot, last, carrying, bounds, toServer, serverHello, bootOf, listener, registry, stored, processor>>

(* Host.Close stops the emitter and closes the sink, which closes s.conn: the
   connection once the handshake is over. *)
CloseSink ==
  /\ ~closing /\ breaks < MaxBreaks
  /\ closing' = TRUE
  /\ breaks' = breaks + 1
  /\ link' = IF loop \in {"catchup", "pump"} /\ link[conn] = "open"
             THEN [link EXCEPT ![conn] = "cut"] ELSE link
  /\ UNCHANGED <<probe, loop, conn, todo, dialled, restarts, toServer, serverHello, bootOf, listener, registry, stored, processor>>

(* connectLoop and writePump see s.done. *)
StopLoop ==
  /\ closing /\ loop \in {"dial", "pump"}
  /\ link' = IF loop = "pump" /\ link[conn] = "open" THEN [link EXCEPT ![conn] = "cut"] ELSE link
  /\ conn' = None /\ loop' = "closed"
  /\ UNCHANGED <<probe, closing, todo, bounds, toServer, serverHello, bootOf, listener, registry, stored, processor>>

(* The probe's process starts again: a new boot ID, numbers from 1, an empty
   queue.  The connection of the old process is closed by the system. *)
Reboot ==
  /\ boot < MaxBoots
  /\ boot' = boot + 1 /\ last' = 0 /\ sendCh' = <<>>
  /\ carrying' = [p \in Producers |-> None]
  /\ link' = IF conn # None /\ link[conn] = "open" THEN [link EXCEPT ![conn] = "cut"] ELSE link
  /\ closing' = FALSE /\ conn' = None /\ todo' = <<>> /\ loop' = "dial"
  /\ UNCHANGED <<bounds, toServer, serverHello, bootOf, listener, registry, stored, processor>>

(* The network fails: what was under way may be lost from some point on. *)
Break(c) ==
  /\ link[c] = "open" /\ breaks < MaxBreaks
  /\ breaks' = breaks + 1
  /\ link' = [link EXCEPT ![c] = "cut"]
  /\ \E n \in 0..Len(toServer[c]) : toServer' = [toServer EXCEPT ![c] = SubSeq(@, 1, n)]
  /\ serverHello' \in {serverHello, [serverHello EXCEPT ![c] = NoHello]}
  /\ UNCHANGED <<probe, dialer, dialled, restarts, bootOf, listener, registry, stored, processor>>

-----------------------------------------------------------------------------
(* The backend closes connection c: nothing more is read from it. *)
shut(c) ==
  /\ link' = [link EXCEPT ![c] = "closed"]
  /\ toServer' = [toServer EXCEPT ![c] = <<>>]

goto(c, step) == handler' = [handler EXCEPT ![c] = step]

(* c's goroutine is about to change the source's state, or to act on it. *)
busy(c) == handler[c] \in {"get", "reset", "ack", "check", "apply", "cursor"}

(* The envelope just handled is let go of. *)
letGo(c) == received' = [received EXCEPT ![c] = Hello]

(* handleConnection reads the ClientHello and, under l.mu, takes the source's
   session over from an older connection, which it closes. *)
Accept(c) ==
  /\ handler[c] = "unused" /\ toServer[c] # <<>>
  /\ Overlap \/ \A d \in Conns : ~busy(d)
  /\ session' = c
  /\ link' = IF session = None THEN link ELSE [link EXCEPT ![session] = "closed"]
  /\ toServer' = [d \in Conns |-> IF d = c THEN Tail(toServer[c])
                                  ELSE IF d = session THEN <<>> ELSE toServer[d]]
  /\ goto(c, "get")
  /\ UNCHANGED <<probe, dialer, bounds, serverHello, bootOf, received, ack, registry, stored, processor>>

(* The ClientHello cannot be read. *)
AcceptFails(c) ==
  /\ handler[c] = "unused" /\ toServer[c] = <<>> /\ link[c] = "cut"
  /\ shut(c)
  /\ goto(c, "done")
  /\ UNCHANGED <<probe, dialer, bounds, serverHello, bootOf, session, received, ack, registry, stored, processor>>

(* Mutant: the boot ID is not compared. *)
GetPrior_SameBoot(c) ==
  /\ handler[c] = "get"
  /\ goto(c, "ack")
  /\ UNCHANGED <<probe, dialer, bounds, net, session, received, ack, registry, stored, processor>>

(* First attach or a new boot ID: the per-source state is stale. *)
GetPrior(c) ==
  /\ handler[c] = "get"
  /\ goto(c, IF registry.boot # bootOf[c] THEN "reset" ELSE "ack")
  /\ UNCHANGED <<probe, dialer, bounds, net, session, received, ack, registry, stored, processor>>

(* Processor.ResetSource: the alias maps and the cursor, not the slots. *)
ResetSource == cursor' = 0 /\ view' = {} /\ UNCHANGED counted

ResetForBoot(c) ==
  /\ handler[c] = "reset"
  /\ ResetSource
  /\ goto(c, "ack")
  /\ UNCHANGED <<probe, dialer, bounds, net, session, received, ack, registry, stored>>

LastAppliedSeq(c) ==
  /\ handler[c] = "ack"
  /\ ack' = [ack EXCEPT ![c] = cursor]
  /\ goto(c, "hello")
  /\ UNCHANGED <<probe, dialer, bounds, net, session, received, registry, stored, processor>>

(* WriteServerHello fails on a connection the backend closed, and may or may
   not fail on one that is gone. *)
WriteServerHello(c) ==
  /\ handler[c] = "hello" /\ link[c] # "closed"
  /\ serverHello' = IF link[c] = "open" THEN [serverHello EXCEPT ![c] = ack[c]] ELSE serverHello
  /\ ack' = [ack EXCEPT ![c] = 0]
  /\ goto(c, "register")
  /\ UNCHANGED <<probe, dialer, bounds, link, toServer, bootOf, session, received, registry, stored, processor>>

WriteServerHelloFails(c) ==
  /\ handler[c] = "hello" /\ link[c] # "open"
  /\ ack' = [ack EXCEPT ![c] = 0]
  /\ goto(c, "clean")
  /\ UNCHANGED <<probe, dialer, bounds, net, session, received, registry, stored, processor>>

Register(c) ==
  /\ handler[c] = "register"
  /\ registry' = [boot |-> bootOf[c], connected |-> TRUE]
  /\ goto(c, "meta")
  /\ UNCHANGED <<probe, dialer, bounds, net, session, received, ack, stored, processor>>

(* The same SourceInfo goes to SQLite. *)
WriteSourceMeta(c) ==
  /\ handler[c] = "meta"
  /\ stored' = [boot |-> bootOf[c], connected |-> TRUE]
  /\ goto(c, "read")
  /\ UNCHANGED <<probe, dialer, bounds, net, session, received, ack, registry, processor>>

(* The read loop: an envelope, *)
ReadEnvelope(c) ==
  /\ handler[c] = "read" /\ link[c] # "closed" /\ toServer[c] # <<>>
  /\ received' = [received EXCEPT ![c] = Head(toServer[c])]
  /\ toServer' = [toServer EXCEPT ![c] = Tail(@)]
  /\ goto(c, "check")
  /\ UNCHANGED <<probe, dialer, bounds, link, serverHello, bootOf, session, ack, registry, stored, processor>>

(* or a cancelled context, a closed connection, the end of the stream. *)
ReadFails(c) ==
  /\ handler[c] = "read"
  /\ link[c] = "closed" \/ (link[c] = "cut" /\ toServer[c] = <<>>)
  /\ goto(c, "clean")
  /\ UNCHANGED <<probe, dialer, bounds, net, session, received, ack, registry, stored, processor>>

(* ApplyForSource, a snapshot envelope. *)
ApplySnapshot(c) ==
  /\ handler[c] = "check" /\ received[c].kind # "live"
  /\ IF received[c].kind = "start"
     THEN ResetSource
     ELSE view' = view \union {<<bootOf[c], n>> : n \in 1..received[c].seq} /\ UNCHANGED <<cursor, counted>>
  /\ letGo(c)
  /\ goto(c, "read")
  /\ UNCHANGED <<probe, dialer, bounds, net, session, ack, registry, stored>>

(* Mutant: the envelope at the cursor passes. *)
isDuplicate_OffByOne(c) == received[c].seq < cursor

(* ApplyForSource, a live envelope: the comparison with the cursor, *)
isDuplicate(c) == received[c].seq <= cursor

CheckDuplicate(c) ==
  /\ handler[c] = "check" /\ received[c].kind = "live"
  /\ IF isDuplicate(c) THEN goto(c, "read") /\ letGo(c) ELSE goto(c, "apply") /\ UNCHANGED received
  /\ UNCHANGED <<probe, dialer, bounds, net, session, ack, registry, stored, processor>>

(* the payload, under a second lock, *)
ApplyPayload(c) ==
  /\ handler[c] = "apply"
  /\ LET e == <<bootOf[c], received[c].seq>>
     IN  /\ view' = view \union {e}
         /\ counted' = [counted EXCEPT ![e] = IF @ < 2 THEN @ + 1 ELSE @]
  /\ goto(c, "cursor")
  /\ UNCHANGED <<probe, dialer, bounds, net, session, received, ack, registry, stored, cursor>>

(* Mutant: the cursor is overwritten without the comparison. *)
AdvanceCursor_Overwrites(c) ==
  /\ handler[c] = "cursor"
  /\ cursor' = received[c].seq
  /\ letGo(c)
  /\ goto(c, "read")
  /\ UNCHANGED <<probe, dialer, bounds, net, session, ack, registry, stored, view, counted>>

(* and the cursor, under a third. *)
AdvanceCursor(c) ==
  /\ handler[c] = "cursor"
  /\ cursor' = IF received[c].seq > cursor THEN received[c].seq ELSE cursor
  /\ letGo(c)
  /\ goto(c, "read")
  /\ UNCHANGED <<probe, dialer, bounds, net, session, ack, registry, stored, view, counted>>

(* Mutant: the session is given up without asking whose it is. *)
GiveUp_Always(c) ==
  /\ handler[c] = "clean"
  /\ session' = None /\ goto(c, "disconnect")
  /\ UNCHANGED <<probe, dialer, bounds, net, received, ack, registry, stored, processor>>

(* The deferred function: give the session up under l.mu if it is still ours, *)
GiveUp(c) ==
  /\ handler[c] = "clean"
  /\ IF session = c
     THEN session' = None /\ goto(c, "disconnect") /\ UNCHANGED <<link, toServer>>
     ELSE UNCHANGED session /\ goto(c, "done") /\ shut(c)
  /\ UNCHANGED <<probe, dialer, bounds, serverHello, bootOf, received, ack, registry, stored, processor>>

(* then, after the unlock, clear Connected and close the connection. *)
SetDisconnected(c) ==
  /\ handler[c] = "disconnect"
  /\ registry' = [registry EXCEPT !.connected = FALSE]
  /\ shut(c)
  /\ goto(c, "done")
  /\ UNCHANGED <<probe, dialer, bounds, serverHello, bootOf, session, received, ack, stored, processor>>

(* Listener.CloseSession. *)
CloseSession ==
  /\ session # None /\ link[session] # "closed" /\ breaks < MaxBreaks
  /\ breaks' = breaks + 1
  /\ shut(session)
  /\ UNCHANGED <<probe, dialer, dialled, restarts, serverHello, bootOf, listener, registry, stored, processor>>

(* The backend stops and starts again: main loads the stored source into the
   registry; sessions, cursor, alias maps and slots in memory are gone. *)
RestartBackend ==
  /\ restarts < MaxRestarts
  /\ restarts' = restarts + 1
  /\ session' = None
  /\ handler' = [c \in Conns |-> IF link[c] = "unused" THEN "unused" ELSE "done"]
  /\ link' = [c \in Conns |-> IF link[c] = "unused" THEN "unused" ELSE "closed"]
  /\ toServer' = [c \in Conns |-> <<>>]
  /\ registry' = stored
  /\ cursor' = 0 /\ view' = {} /\ counted' = [e \in Events |-> 0]
  /\ UNCHANGED <<probe, dialer, dialled, breaks, serverHello, bootOf, received, ack, stored>>

Handle(c) ==
  \/ Accept(c) \/ AcceptFails(c) \/ GetPrior(c) \/ ResetForBoot(c) \/ LastAppliedSeq(c)
  \/ WriteServerHello(c) \/ WriteServerHelloFails(c) \/ Register(c) \/ WriteSourceMeta(c)
  \/ ReadEnvelope(c) \/ ReadFails(c)
  \/ ApplySnapshot(c) \/ CheckDuplicate(c) \/ ApplyPayload(c) \/ AdvanceCursor(c)
  \/ GiveUp(c) \/ SetDisconnected(c)

ConnectLoop ==
  \/ Dial \/ ReadServerHello \/ ConnectFails \/ WriteCatchup \/ Attach \/ CatchupFails
  \/ Pump \/ PumpFails \/ StopLoop

Next ==
  \/ \E p \in Producers : Emit(p) \/ Write(p)
  \/ ConnectLoop \/ CloseSink \/ Reboot
  \/ \E c \in Conns : Handle(c) \/ Break(c)
  \/ CloseSession \/ RestartBackend

Spec == Init /\ [][Next]_vars

(* Every goroutine that can take a step takes one: a producer past its lock,
   connectLoop, each handleConnection.  Nothing makes a producer emit. *)
Fairness ==
  /\ \A p \in Producers : WF_vars(Write(p))
  /\ WF_vars(ConnectLoop)
  /\ \A c \in Conns : WF_vars(Handle(c))

FairSpec == Spec /\ Fairness
-----------------------------------------------------------------------------
Steps == {"unused", "get", "reset", "ack", "hello", "register", "meta", "read",
          "check", "apply", "cursor", "clean", "disconnect", "done"}

ProbeType ==
  /\ boot \in Boots /\ last \in 0..MaxSeq
  /\ carrying \in [Producers -> 0..MaxSeq]
  /\ sendCh \in Seq(Seqs) /\ Len(sendCh) <= QueueCap

DialerType ==
  /\ closing \in BOOLEAN
  /\ loop \in {"dial", "hello", "catchup", "pump", "closed"}
  /\ conn \in 0..MaxConns /\ todo \in Seq(Messages)

BoundsType ==
  /\ dialled \in 0..MaxConns /\ breaks \in 0..MaxBreaks /\ restarts \in 0..MaxRestarts

NetType ==
  /\ link \in [Conns -> {"unused", "open", "cut", "closed"}]
  /\ toServer \in [Conns -> Seq(Messages)]
  /\ serverHello \in [Conns -> -1..MaxSeq]
  /\ bootOf \in [Conns -> 0..MaxBoots]

ListenerType ==
  /\ session \in 0..MaxConns /\ handler \in [Conns -> Steps]
  /\ received \in [Conns -> Messages] /\ ack \in [Conns -> 0..MaxSeq]

SourceType ==
  /\ registry \in [boot : 0..MaxBoots, connected : BOOLEAN]
  /\ stored \in [boot : 0..MaxBoots, connected : BOOLEAN]
  /\ cursor \in 0..MaxSeq /\ view \in SUBSET Events /\ counted \in [Events -> 0..2]

TypeOK == ProbeType /\ DialerType /\ BoundsType /\ NetType /\ ListenerType /\ SourceType

(* A session past its takeover and not yet on its way out. *)
serving(c) == handler[c] \in {"get", "reset", "ack", "hello", "register", "meta", "read",
                              "check", "apply", "cursor"}

(* At most one active session per source, and it is the registered one: a
   connection the backend has taken over and not closed is the one in
   l.sessions, whatever the order of takeovers and deferred clean-ups. *)
SessionIsExclusive ==
  \A c \in Conns : serving(c) /\ link[c] # "closed" => session = c

(* What a handshake acknowledges is never sent again, so it must be there:
   when the session that holds the source reports last_acked_seq to the probe
   that is running, the alias maps reflect every event of that boot up to it
   (LastAppliedSeq, sendCatchup). *)
AckedIsReflected ==
  \A c \in Conns : handler[c] = "hello" /\ session = c /\ bootOf[c] = boot =>
    {<<boot, n>> : n \in 1..ack[c]} \subseteq view

(* Ring replay and what is left in sendCh overlap, and the overlap is applied
   once: no payload is added twice to the slot aggregates (ApplyForSource). *)
NoDoubleApply == \A e \in Events : counted[e] <= 1

(* The cursor goes back only by a reset, which clears the alias maps with it:
   the three critical sections of ApplyForSource, run by goroutines of two
   connections, never leave an older number in it. *)
CursorMonotone == [][cursor' < cursor => cursor' = 0 /\ view' = {}]_vars

(* connectLoop does not get stuck between connections: from a failed dial,
   handshake or catch-up, and from a takeover by a stale connection's late
   goroutine, it gets to writePump again, unless the sink is closed. *)
ReattachesEventually == (loop # "pump") ~> (loop = "pump" \/ closing)

(* Once the sink stays attached, everything emitted reaches the backend. *)
CatchesUp ==
  <>[](loop = "pump" /\ link[conn] = "open") =>
    <>[](\A n \in 1..last : <<boot, n>> \in view)
=============================================================================
