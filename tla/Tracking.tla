------------------------------ MODULE Tracking ------------------------------
(***************************************************************************)
(* What the probe tracks of libp2p's connections and streams, and what the *)
(* backend makes of the envelopes about them.                              *)
(*                                                                         *)
(* The callbacks Connected, Disconnected and wrapStream run concurrently;  *)
(* each changes the maps of wrappedNetwork under n.mu and emits envelopes  *)
(* after the unlock, so envelopes of two callbacks interleave              *)
(* (probe/host.go, probe/stream.go, probe/intern.go).  SinkFile's snapshot *)
(* loop holds SinkFile.mu while it takes n.mu (probe/sink_file.go).  An    *)
(* envelope reaches the backend's maps in the order of its emission        *)
(* (internal/processor/processor.go, peers.go): IngestReplay is about the  *)
(* delivery, this module is about the order.                               *)
(*                                                                         *)
(* Aliases are numbers that are never reused; here an alias is the name of *)
(* the callback that allocated it.                                         *)
(***************************************************************************)
EXTENDS Integers, Sequences, Functions

CONSTANTS Conns,    \* libp2p connections
          Wraps,    \* calls of wrapStream, one for each stream
          OnConn,   \* Wraps -> Conns
          PeerOf,   \* Conns -> peers
          None,
          MaxSnapshots   \* bound: snapshots of SinkFile

ASSUME TrackingAssumption ==
  /\ OnConn \in [Wraps -> Conns] /\ DOMAIN PeerOf = Conns
  /\ Conns \intersect Wraps = {} /\ None \notin Conns \union Wraps
  /\ MaxSnapshots \in Nat

VARIABLES pc,             \* Connected (of a connection) and wrapStream
          down,           \* Disconnected, for each connection
          snapshotLoop,   \* "idle", or "locked": it holds SinkFile.mu
          snapshots,      \* counts to MaxSnapshots
          nmu,            \* the holder of n.mu across several steps
          conns,          \* n.conns, connByID, connectionUpserts: conn -> alias
          streamUpserts,  \* stream -> alias of its connection
          wconn,          \* wrapStream's wc: the alias it found or made
          leaving,        \* Disconnected's wc and streams still to be closed
          stringIDs,      \* the interner
          strings,        \* backend: strings defined
          peers,          \* backend: peer -> aliases of its connections
          connPeer,       \* backend: PeerMap.conns: alias -> peer
          streams,        \* backend: stream -> has a protocol
          raced           \* history: see Raced

probe == <<conns, streamUpserts, stringIDs>>
backend == <<strings, peers, connPeer, streams>>
local == <<wconn, leaving>>
file == <<snapshotLoop, snapshots>>
vars == <<pc, down, file, nmu, probe, local, backend, raced>>

Callbacks == Conns \union Wraps
ConnOf(a) == IF a \in Conns THEN a ELSE OnConn[a]
Peer(a) == PeerOf[ConnOf(a)]
Peers == {PeerOf[k] : k \in Conns}
Strings == {"transport", "protocol"}
Gone == [alias |-> None, streams |-> {}]

Init ==
  /\ pc = [a \in Callbacks |-> "start"] /\ down = [k \in Conns |-> "up"]
  /\ snapshotLoop = "idle" /\ snapshots = 0 /\ nmu = None
  /\ conns = <<>> /\ streamUpserts = <<>> /\ stringIDs = {}
  /\ wconn = [w \in Wraps |-> None] /\ leaving = [k \in Conns |-> Gone]
  /\ strings = {} /\ peers = <<>> /\ connPeer = <<>> /\ streams = <<>>
  /\ raced = FALSE

Put(f, k, v) == [x \in DOMAIN f \union {k} |-> IF x = k THEN v ELSE f[x]]
Drop(f, S) == Restrict(f, DOMAIN f \ S)
Goto(a, from, to) == pc[a] = from /\ pc' = [pc EXCEPT ![a] = to]
-----------------------------------------------------------------------------
(* The backend: what ApplyForSource does with each kind of envelope. *)

StringDef(s) ==
  /\ strings' = strings \union {s}
  /\ UNCHANGED <<peers, connPeer, streams>>

PeerUpsert(p) ==
  /\ peers' = IF p \in DOMAIN peers THEN peers ELSE Put(peers, p, {})
  /\ UNCHANGED <<strings, connPeer, streams>>

(* UpsertConnection ignores a connection of a peer it does not know. *)
UpsertConnection(a) ==
  /\ IF Peer(a) \in DOMAIN peers
     THEN /\ peers' = [peers EXCEPT ![Peer(a)] = @ \union {a}]
          /\ connPeer' = Put(connPeer, a, Peer(a))
     ELSE UNCHANGED <<peers, connPeer>>
  /\ UNCHANGED <<strings, streams>>

(* CloseConnection forgets a peer with its last connection. *)
CloseConnection_KeepsPeer(a) ==
  /\ connPeer' = Drop(connPeer, {a})
  /\ UNCHANGED <<strings, peers, streams>>
CloseConnection(a) ==
  /\ connPeer' = Drop(connPeer, {a})
  /\ IF a \in DOMAIN connPeer /\ connPeer[a] \in DOMAIN peers
     THEN LET p == connPeer[a]  rest == peers[p] \ {a} IN
          peers' = IF rest = {} THEN Drop(peers, {p}) ELSE [peers EXCEPT ![p] = rest]
     ELSE UNCHANGED peers
  /\ UNCHANGED <<strings, streams>>

(* handleStreamUpsert: without the string of its protocol, the stream has  *)
(* no decoder for good.                                                    *)
StreamUpsert(w) ==
  /\ streams' = Put(streams, w, "protocol" \in strings)
  /\ UNCHANGED <<strings, peers, connPeer>>

StreamClosed(w) ==
  /\ streams' = Drop(streams, {w})
  /\ UNCHANGED <<strings, peers, connPeer>>

(* Emit hands the envelope to SinkFile.Write first, which needs            *)
(* SinkFile.mu.                                                            *)
emits == snapshotLoop # "locked"
-----------------------------------------------------------------------------
(* Two callbacks overlap in a way the locks do not protect against:        *)
(* wrapStream and the Disconnected of its connection; the two emits of one *)
(* connection and the Disconnected of another one of the same peer; or two *)
(* calls of Intern for a new protocol.  A callback that begins after the   *)
(* other one has returned races with nothing.                              *)
started(a) == pc[a] # "start"
ended(w) == pc[w] \in {"open", "closing", "closed"}
Raced ==
  \/ \E k \in Conns :
       /\ down[k] \in {"removed", "closing"}
       /\ \/ \E w \in Wraps : OnConn[w] = k /\ started(w) /\ ~ended(w)
          \/ \E a \in Callbacks :
               ConnOf(a) # k /\ Peer(a) = PeerOf[k] /\ pc[a] = "connUpsert"
  \/ \E w \in Wraps :
       pc[w] \in {"add", "streamUpsert"} /\ "protocol" \notin strings

(* stringInterner.Intern: the new id is visible to other callers before    *)
(* its StringDef is emitted.                                               *)
Intern(a, s, from, def, to) ==
  /\ pc[a] = from
  /\ pc' = [pc EXCEPT ![a] = IF s \in stringIDs THEN to ELSE def]
  /\ stringIDs' = stringIDs \union {s}
  /\ UNCHANGED <<down, file, nmu, conns, streamUpserts, local, backend>>

EmitStringDef(a, s, def, to) ==
  /\ emits /\ Goto(a, def, to)
  /\ StringDef(s)
  /\ UNCHANGED <<down, file, nmu, probe, local>>

(* The order of connectionUpsertFor: it interns its strings before it      *)
(* takes n.mu.                                                             *)
upsertSteps_LockFirst == <<"lock", "intern", "track">>
upsertSteps == <<"intern", "lock", "track">>
firstStep == upsertSteps[1]
after(step) == upsertSteps[1 + CHOOSE i \in 1..2 : upsertSteps[i] = step]

Lock(a) ==
  /\ nmu = None /\ nmu' = a
  /\ Goto(a, "lock", after("lock"))
  /\ UNCHANGED <<down, file, probe, local, backend>>

(* Under n.mu: a connection that is tracked keeps its alias. *)
existing_Ignored(a) == None
existing(a) ==
  IF ConnOf(a) \in DOMAIN conns THEN conns[ConnOf(a)] ELSE None

(* What the caller gets: the tracked connection, or its own. *)
obtained_OnlyCreated(a, wc) == IF wc = None THEN a ELSE None
obtained(a, wc) == IF wc = None THEN a ELSE wc

Track(a) == LET wc == existing(a) IN
  /\ nmu = a /\ nmu' = None
  /\ conns' = IF wc = None THEN Put(conns, ConnOf(a), a) ELSE conns
  /\ wconn' = IF a \in Wraps
              THEN [wconn EXCEPT ![a] = obtained(a, wc)] ELSE wconn
  /\ Goto(a, "track", IF wc = None THEN "peerUpsert"
                      ELSE IF a \in Wraps THEN "internProtocol" ELSE "done")
  /\ UNCHANGED <<down, file, leaving, streamUpserts, stringIDs, backend>>

EmitPeerUpsert(a) ==
  /\ emits /\ Goto(a, "peerUpsert", "connUpsert")
  /\ PeerUpsert(Peer(a))
  /\ UNCHANGED <<down, file, nmu, probe, local>>

EmitConnectionUpsert(a) ==
  /\ emits /\ Goto(a, "connUpsert", IF a \in Wraps THEN "internProtocol" ELSE "done")
  /\ UpsertConnection(a)
  /\ UNCHANGED <<down, file, nmu, probe, local>>

(* notifiee.Connected *)
Connected(k) ==
  /\ Goto(k, "start", firstStep)
  /\ UNCHANGED <<down, file, nmu, probe, local, backend>>

upsertConn(a) ==
  \/ Intern(a, "transport", "intern", "def", after("intern"))
  \/ EmitStringDef(a, "transport", "def", after("intern"))
  \/ Lock(a) \/ Track(a) \/ EmitPeerUpsert(a) \/ EmitConnectionUpsert(a)
-----------------------------------------------------------------------------
(* wrapStream: getConn, and connectionUpsertFor when there is none. *)
WrapStream(w) == LET k == OnConn[w] IN
  /\ nmu = None
  /\ IF k \in DOMAIN conns
     THEN /\ wconn' = [wconn EXCEPT ![w] = conns[k]]
          /\ Goto(w, "start", "internProtocol")
     ELSE /\ Goto(w, "start", firstStep)
          /\ UNCHANGED wconn
  /\ UNCHANGED <<down, file, nmu, probe, leaving, backend>>

AddStreamUpsert(w) ==
  /\ nmu = None /\ Goto(w, "add", "streamUpsert")
  /\ streamUpserts' = Put(streamUpserts, w, wconn[w])
  /\ UNCHANGED <<down, file, nmu, conns, stringIDs, local, backend>>

(* The stream is handed to the application after this step. *)
EmitStreamUpsert_Late(w) ==
  /\ Goto(w, "streamUpsert", "open")
  /\ UNCHANGED <<down, file, nmu, probe, local, backend>>
EmitStreamUpsert(w) ==
  /\ emits /\ Goto(w, "streamUpsert", "open")
  /\ StreamUpsert(w)
  /\ UNCHANGED <<down, file, nmu, probe, local>>

(* wrappedStream.Close and Reset: removeStream, then StreamClosed. *)
CloseStream(w) ==
  /\ nmu = None /\ Goto(w, "open", "closing")
  /\ streamUpserts' = Drop(streamUpserts, {w})
  /\ UNCHANGED <<down, file, nmu, conns, stringIDs, local, backend>>

EmitClosed(w) ==
  /\ emits /\ Goto(w, "closing", "closed")
  /\ StreamClosed(w)
  /\ UNCHANGED <<down, file, nmu, probe, local>>

wrap(w) ==
  \/ upsertConn(w)
  \/ Intern(w, "protocol", "internProtocol", "defProtocol", "add")
  \/ EmitStringDef(w, "protocol", "defProtocol", "add")
  \/ AddStreamUpsert(w) \/ EmitStreamUpsert(w) \/ EmitClosed(w)
-----------------------------------------------------------------------------
Down(k, from, to) == down[k] = from /\ down' = [down EXCEPT ![k] = to]

(* notifiee.Disconnected: libp2p calls it after Connected has returned. *)
Disconnected(k) ==
  /\ nmu = None /\ pc[k] = "done"
  /\ IF k \in DOMAIN conns
     THEN /\ Down(k, "up", "removed")
          /\ leaving' = [leaving EXCEPT ![k].alias = conns[k]]
     ELSE Down(k, "up", "done") /\ UNCHANGED leaving
  /\ conns' = Drop(conns, {k})
  /\ UNCHANGED <<pc, file, nmu, streamUpserts, stringIDs, wconn, backend>>

streamsOf(alias) == {w \in DOMAIN streamUpserts : streamUpserts[w] = alias}

RemoveStreamsForConn_Forgets(k) ==
  /\ nmu = None /\ Down(k, "removed", "closing")
  /\ streamUpserts' = Drop(streamUpserts, streamsOf(leaving[k].alias))
  /\ UNCHANGED <<pc, file, nmu, conns, stringIDs, local, backend>>
RemoveStreamsForConn(k) == LET S == streamsOf(leaving[k].alias) IN
  /\ nmu = None /\ Down(k, "removed", "closing")
  /\ leaving' = [leaving EXCEPT ![k].streams = S]
  /\ streamUpserts' = Drop(streamUpserts, S)
  /\ UNCHANGED <<pc, file, nmu, conns, stringIDs, wconn, backend>>

EmitConnStreamClosed(k, w) ==
  /\ emits /\ down[k] = "closing" /\ w \in leaving[k].streams
  /\ leaving' = [leaving EXCEPT ![k].streams = @ \ {w}]
  /\ StreamClosed(w)
  /\ UNCHANGED <<pc, down, file, nmu, probe, wconn>>

EmitConnectionClosed(k) ==
  /\ emits /\ leaving[k].streams = {} /\ Down(k, "closing", "done")
  /\ CloseConnection(leaving[k].alias)
  /\ leaving' = [leaving EXCEPT ![k] = Gone]
  /\ UNCHANGED <<pc, file, nmu, probe, wconn>>

disconnect(k) ==
  \/ RemoveStreamsForConn(k) \/ EmitConnectionClosed(k)
  \/ \E w \in Wraps : EmitConnStreamClosed(k, w)

(* SinkFile.snapshotLoop: writeSnapshotLocked takes n.mu in                *)
(* Emitter.snapshot while it holds SinkFile.mu.                            *)
SnapshotLock ==
  /\ snapshotLoop = "idle" /\ snapshotLoop' = "locked"
  /\ snapshots < MaxSnapshots /\ snapshots' = snapshots + 1
  /\ UNCHANGED <<pc, down, nmu, probe, local, backend>>

WriteSnapshotLocked ==
  /\ snapshotLoop = "locked" /\ nmu = None
  /\ snapshotLoop' = "idle"
  /\ UNCHANGED <<pc, down, snapshots, nmu, probe, local, backend>>
-----------------------------------------------------------------------------
Step ==
  \/ \E k \in Conns : Connected(k) \/ upsertConn(k) \/ Disconnected(k) \/ disconnect(k)
  \/ \E w \in Wraps : WrapStream(w) \/ wrap(w) \/ CloseStream(w)
  \/ SnapshotLock \/ WriteSnapshotLocked

Next == Step /\ raced' = (raced \/ Raced')

Spec == Init /\ [][Next]_vars

(* While a callback that has begun, or the snapshot loop, can take a step, *)
(* some goroutine does.  Nothing forces libp2p to call another callback,   *)
(* or the application to close a stream.                                   *)
progress ==
  \/ \E k \in Conns : upsertConn(k) \/ disconnect(k)
  \/ \E w \in Wraps : wrap(w)
  \/ WriteSnapshotLocked

FairSpec == Spec /\ WF_vars(progress /\ raced' = (raced \/ Raced'))
-----------------------------------------------------------------------------
Steps == {"start", "intern", "def", "lock", "track", "peerUpsert", "connUpsert",
          "internProtocol", "defProtocol", "add", "streamUpsert", "open",
          "closing", "closed", "done"}

TypeOK ==
  /\ pc \in [Callbacks -> Steps]
  /\ down \in [Conns -> {"up", "removed", "closing", "done"}]
  /\ snapshotLoop \in {"idle", "locked"} /\ snapshots \in 0..MaxSnapshots
  /\ nmu \in Callbacks \union {None}
  /\ DOMAIN conns \subseteq Conns
  /\ \A k \in DOMAIN conns : conns[k] \in {a \in Callbacks : ConnOf(a) = k}
  /\ DOMAIN streamUpserts \subseteq Wraps
  /\ \A w \in DOMAIN streamUpserts :
       streamUpserts[w] \in {a \in Callbacks : ConnOf(a) = OnConn[w]}
  /\ wconn \in [Wraps -> Callbacks \union {None}]
  /\ leaving \in [Conns -> [alias : Callbacks \union {None}, streams : SUBSET Wraps]]
  /\ stringIDs \subseteq Strings /\ strings \subseteq stringIDs
  /\ DOMAIN peers \subseteq Peers /\ DOMAIN connPeer \subseteq Callbacks
  /\ DOMAIN streams \subseteq Wraps /\ raced \in BOOLEAN

(* The backend's two maps of PeerMap describe the same connections,        *)
(* whatever the order of the envelopes.                                    *)
PeerMapAgrees ==
  /\ \A a \in DOMAIN connPeer : connPeer[a] \in DOMAIN peers /\ a \in peers[connPeer[a]]
  /\ \A p \in DOMAIN peers : \A a \in peers[p] : a \in DOMAIN connPeer

(* A connection that is up is known to the backend under one alias, though *)
(* Connected and several wrapStream calls may all find it untracked        *)
(* (connectionUpsertFor looks again under n.mu).                           *)
OneAlias ==
  \A a, b \in DOMAIN connPeer :
    ConnOf(a) = ConnOf(b) /\ down[ConnOf(a)] = "up" => a = b

(* Chunks of a stream are not dropped: while the application holds a       *)
(* stream of a connection that is up, the backend knows it (wrapStream     *)
(* emits the StreamUpsert before it returns).                              *)
OpenIsKnown ==
  \A w \in Wraps : pc[w] = "open" /\ down[OnConn[w]] = "up" => w \in DOMAIN streams

quiet ==
  /\ \A k \in Conns : pc[k] \in {"start", "done"} /\ down[k] \in {"up", "done"}
  /\ \A w \in Wraps : pc[w] \in {"start", "open", "closed"}

(* When no callback runs, and no two have run into each other (Raced), the *)
(* backend has exactly the peers, connections and streams that the probe   *)
(* tracks, and a decoder for each stream.                                  *)
BackendAgrees ==
  quiet /\ ~raced =>
    /\ DOMAIN connPeer = {conns[k] : k \in DOMAIN conns}
    /\ DOMAIN streams = DOMAIN streamUpserts /\ \A w \in DOMAIN streams : streams[w]
    /\ DOMAIN peers = {PeerOf[k] : k \in DOMAIN conns}

(* Every callback ends: no cycle of SinkFile.mu and n.mu (the comment of   *)
(* connectionUpsertFor).                                                   *)
CallbacksEnd == []<>quiet
=============================================================================
