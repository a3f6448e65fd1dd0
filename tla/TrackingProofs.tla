--------------------------- MODULE TrackingProofs ---------------------------
(***************************************************************************)
(* What the callbacks keep, and what the backend learns of it, for any     *)
(* connections, streams and peers.                                         *)
(*                                                                         *)
(* MapsMirror, Named and OpenIsKnown are inductive relative to BInv, the   *)
(* invariant of TrackingTypes; Clean is what holds as long as no two       *)
(* callbacks have raced.                                                   *)
(***************************************************************************)
EXTENDS TrackingTypes

(* The two maps of PeerMap mirror each other, and a peer without a         *)
(* connection is about to get one.                                         *)
MapsMirror ==
  /\ \A a \in DOMAIN connPeer :
       connPeer[a] = Peer(a) /\ Peer(a) \in DOMAIN peers /\ a \in peers[Peer(a)]
  /\ \A p \in DOMAIN peers : \A a \in peers[p] : a \in DOMAIN connPeer /\ Peer(a) = p
  /\ \A p \in DOMAIN peers : peers[p] = {} =>
       \E a \in Callbacks : pc[a] = "connUpsert" /\ Peer(a) = p

(* While a connection is up, the alias the backend knows or is about to    *)
(* know is the one the probe tracks.                                       *)
Named ==
  /\ \A a \in Callbacks :
       down[ConnOf(a)] = "up" /\ (pc[a] \in Emitting \/ a \in DOMAIN connPeer) =>
         ConnOf(a) \in DOMAIN conns /\ conns[ConnOf(a)] = a
  /\ \A k \in Conns : down[k] = "up" /\ pc[k] \notin Early => k \in DOMAIN conns

(* The aliases of connections that are tracked or on their way out. *)
tracked == {conns[k] : k \in DOMAIN conns}
           \union {leaving[k].alias : k \in {j \in Conns : down[j] \in Leaving}}

CleanConns ==
  /\ \A a \in Callbacks : pc[a] \in Emitting =>
       ConnOf(a) \in DOMAIN conns /\ conns[ConnOf(a)] = a
  /\ \A k \in Conns : down[k] \in Leaving => k \notin DOMAIN conns
  /\ DOMAIN connPeer = {a \in tracked : pc[a] \notin Emitting}
  /\ \A a \in Callbacks : pc[a] = "connUpsert" => Peer(a) \in DOMAIN peers

CleanStreams ==
  /\ \A w \in Wraps : pc[w] = "streamUpsert" => w \in DOMAIN streamUpserts
  /\ \A w \in DOMAIN streams :
       /\ streams[w]
       /\ \/ w \in DOMAIN streamUpserts \/ pc[w] = "closing"
          \/ w \in leaving[OnConn[w]].streams
  /\ \A w \in DOMAIN streamUpserts : pc[w] = "open" => w \in DOMAIN streams

Clean == ~raced => ~Raced /\ CleanConns /\ CleanStreams
-----------------------------------------------------------------------------
(* The types that the steps of the callbacks rely on. *)
LEMMA MapTypes ==
  BInv => /\ pc \in [Callbacks -> Steps]
          /\ down \in [Conns -> {"up", "removed", "closing", "done"}]
          /\ leaving \in [Conns -> [alias : Callbacks \union {None}, streams : SUBSET Wraps]]
          /\ DOMAIN streamUpserts \subseteq Wraps /\ DOMAIN streams \subseteq Wraps
BY DEF BInv, TypeOK

LEMMA TrackedAlias ==
  ASSUME BInv, NEW k \in DOMAIN conns
  PROVE  k \in Conns /\ conns[k] \in Callbacks /\ ConnOf(conns[k]) = k
BY DEF BInv, TypeOK

(* Only the peer and connection envelopes change the PeerMap. *)
LEMMA MapsMirrorFrame ==
  ASSUME MapsMirror, UNCHANGED <<peers, connPeer>>,
         \A a \in Callbacks : pc[a] = "connUpsert" => pc'[a] = "connUpsert"
  PROVE  MapsMirror'
BY DEF MapsMirror

LEMMA MapsMirrorPeerUpsert ==
  ASSUME BInv, MapsMirror, NEW a \in Callbacks, EmitPeerUpsert(a)
  PROVE  MapsMirror'
<1>1. /\ DOMAIN peers' = DOMAIN peers \union {Peer(a)}
      /\ \A p \in DOMAIN peers : peers'[p] = peers[p]
      /\ Peer(a) \notin DOMAIN peers => peers'[Peer(a)] = {}
      /\ connPeer' = connPeer
      /\ pc[a] = "peerUpsert" /\ pc'[a] = "connUpsert"
      /\ \A b \in Callbacks : b # a => pc'[b] = pc[b]
  BY MapTypes DEF EmitPeerUpsert, PeerUpsert, Put, Goto
<1> QED
  BY <1>1 DEF MapsMirror

LEMMA MapsMirrorConnectionUpsert ==
  ASSUME BInv, MapsMirror, NEW a \in Callbacks, EmitConnectionUpsert(a)
  PROVE  MapsMirror'
<1>1. pc'[a] # "connUpsert" /\ \A b \in Callbacks : b # a => pc'[b] = pc[b]
  BY MapTypes DEF EmitConnectionUpsert, Goto
<1>2. CASE Peer(a) \notin DOMAIN peers
  <2>1. UNCHANGED <<peers, connPeer>>
    BY <1>2 DEF EmitConnectionUpsert, UpsertConnection
  <2> QED
    BY <1>1, <1>2, <2>1 DEF MapsMirror
<1>3. CASE Peer(a) \in DOMAIN peers
  <2>1. /\ DOMAIN peers' = DOMAIN peers /\ peers'[Peer(a)] = peers[Peer(a)] \union {a}
        /\ \A p \in DOMAIN peers : p # Peer(a) => peers'[p] = peers[p]
        /\ DOMAIN connPeer' = DOMAIN connPeer \union {a} /\ connPeer'[a] = Peer(a)
        /\ \A b \in DOMAIN connPeer : b # a => connPeer'[b] = connPeer[b]
    BY <1>3 DEF EmitConnectionUpsert, UpsertConnection, Put
  <2> QED
    BY <1>1, <1>3, <2>1 DEF MapsMirror
<1> QED
  BY <1>2, <1>3

LEMMA MapsMirrorConnectionClosed ==
  ASSUME BInv, MapsMirror, NEW k \in Conns, EmitConnectionClosed(k)
  PROVE  MapsMirror'
<1> DEFINE a == leaving[k].alias
<1>1. pc' = pc /\ DOMAIN connPeer' = DOMAIN connPeer \ {a}
      /\ \A b \in DOMAIN connPeer' : connPeer'[b] = connPeer[b]
  BY DEF EmitConnectionClosed, CloseConnection, Drop, Restrict
<1>2. CASE a \notin DOMAIN connPeer
  <2>1. peers' = peers
    BY <1>2 DEF EmitConnectionClosed, CloseConnection
  <2> QED
    BY <1>1, <1>2, <2>1 DEF MapsMirror
<1>3. CASE a \in DOMAIN connPeer
  <2>1. connPeer[a] = Peer(a) /\ Peer(a) \in DOMAIN peers
    BY <1>3 DEF MapsMirror
  <2>2. CASE peers[Peer(a)] \ {a} = {}
    <3>1. /\ DOMAIN peers' = DOMAIN peers \ {Peer(a)}
          /\ \A p \in DOMAIN peers' : peers'[p] = peers[p]
      BY <1>3, <2>1, <2>2 DEF EmitConnectionClosed, CloseConnection, Drop, Restrict
    <3> QED
      BY <1>1, <2>1, <2>2, <3>1 DEF MapsMirror
  <2>3. CASE peers[Peer(a)] \ {a} # {}
    <3>1. /\ DOMAIN peers' = DOMAIN peers /\ peers'[Peer(a)] = peers[Peer(a)] \ {a}
          /\ \A p \in DOMAIN peers : p # Peer(a) => peers'[p] = peers[p]
      BY <1>3, <2>1, <2>3 DEF EmitConnectionClosed, CloseConnection
    <3> QED
      BY <1>1, <2>1, <2>3, <3>1 DEF MapsMirror
  <2> QED
    BY <2>2, <2>3
<1> QED
  BY <1>2, <1>3

LEMMA MapsMirrorNext ==
  ASSUME BInv, MapsMirror, [Next]_vars
  PROVE  MapsMirror'
<1>1. CASE UNCHANGED vars
  BY <1>1, MapsMirrorFrame DEF vars, backend
<1>2. ASSUME NEW k \in Conns, Connected(k) \/ Disconnected(k)
      PROVE  MapsMirror'
  BY <1>2, MapsMirrorFrame, Callback, MapTypes DEF Connected, Disconnected, Goto, backend
<1>3. ASSUME NEW k \in Conns, RemoveStreamsForConn(k)
      PROVE  MapsMirror'
  BY <1>3, MapsMirrorFrame DEF RemoveStreamsForConn, backend
<1>4. ASSUME NEW k \in Conns, NEW w \in Wraps, EmitConnStreamClosed(k, w)
      PROVE  MapsMirror'
  BY <1>4, MapsMirrorFrame DEF EmitConnStreamClosed, StreamClosed
<1>5. ASSUME NEW a \in Callbacks, Interning(a)
      PROVE  MapsMirror'
  BY <1>5, MapsMirrorFrame, MapTypes DEF Interning, Intern, EmitStringDef, StringDef, Goto, backend
<1>6. ASSUME NEW a \in Callbacks, Lock(a) \/ Track(a)
      PROVE  MapsMirror'
  BY <1>6, MapsMirrorFrame, MapTypes DEF Lock, Track, Goto, backend
<1>7. ASSUME NEW w \in Wraps, WrapStream(w) \/ AddStreamUpsert(w) \/ CloseStream(w)
      PROVE  MapsMirror'
  BY <1>7, MapsMirrorFrame, Callback, MapTypes DEF WrapStream, AddStreamUpsert, CloseStream, Goto, backend
<1>8. ASSUME NEW w \in Wraps, EmitStreamUpsert(w) \/ EmitClosed(w)
      PROVE  MapsMirror'
  BY <1>8, MapsMirrorFrame, Callback, MapTypes DEF EmitStreamUpsert, StreamUpsert, EmitClosed, StreamClosed, Goto
<1>9. ASSUME SnapshotLock \/ WriteSnapshotLocked
      PROVE  MapsMirror'
  BY <1>9, MapsMirrorFrame DEF SnapshotLock, WriteSnapshotLocked, backend
<1> QED
  BY <1>1, <1>2, <1>3, <1>4, <1>5, <1>6, <1>7, <1>8, <1>9, Actions,
     MapsMirrorPeerUpsert, MapsMirrorConnectionUpsert, MapsMirrorConnectionClosed DEF Next

LEMMA MapsMirrorHolds == Spec => []MapsMirror
<1>1. Init => MapsMirror
  <2>1. Init => DOMAIN connPeer = {} /\ DOMAIN peers = {}
    BY DEF Init
  <2> QED
    BY <2>1 DEF MapsMirror
<1>2. BInv /\ MapsMirror /\ [Next]_vars => MapsMirror'
  BY MapsMirrorNext
<1> QED
  BY <1>1, <1>2, BInvHolds, PTL DEF Spec

(* UpsertConnection and CloseConnection keep the two maps of PeerMap in    *)
(* step: every connection is in the set of a peer that is in the map, and  *)
(* every member of such a set is a connection, whatever the interleaving   *)
(* of the callbacks whose envelopes arrive.                                *)
THEOREM PeerMapsAgree == Spec => []PeerMapAgrees
<1>1. MapsMirror => PeerMapAgrees
  BY DEF MapsMirror, PeerMapAgrees
<1> QED
  BY <1>1, MapsMirrorHolds, PTL
-----------------------------------------------------------------------------
(* A step that gives no alias, and takes none away. *)
LEMMA NamedFrame ==
  ASSUME BInv, Named, conns' = conns,
         \A k \in Conns : down'[k] = "up" => down[k] = "up",
         \A k \in Conns : pc'[k] \notin Early => pc[k] \notin Early,
         \A a \in Callbacks : pc'[a] \in Emitting \/ a \in DOMAIN connPeer' =>
                                pc[a] \in Emitting \/ a \in DOMAIN connPeer
  PROVE  Named'
BY Callback DEF Named

LEMMA NamedTrack ==
  ASSUME BInv, Named, NEW a \in Callbacks, Track(a)
  PROVE  Named'
<1>1. UNCHANGED <<down, connPeer>> /\ pc[a] = "track" /\ \A b \in Callbacks : b # a => pc'[b] = pc[b]
  BY DEF Track, Goto, backend, BInv, TypeOK
<1>2. existing(a) = None <=> ConnOf(a) \notin DOMAIN conns
  BY Callback DEF existing, BInv, TypeOK
<1>3. CASE ConnOf(a) \in DOMAIN conns
  <2>1. conns' = conns /\ pc'[a] \notin Emitting
    BY <1>2, <1>3 DEF Track, Goto, BInv, TypeOK, Emitting
  <2> QED
    BY <1>1, <1>3, <2>1, Callback DEF Named, Early
<1>4. CASE ConnOf(a) \notin DOMAIN conns
  <2>1. /\ DOMAIN conns' = DOMAIN conns \union {ConnOf(a)} /\ conns'[ConnOf(a)] = a
        /\ \A k \in DOMAIN conns : conns'[k] = conns[k]
    BY <1>2, <1>4 DEF Track, Put
  <2> QED
    BY <1>1, <1>4, <2>1, Callback DEF Named, Early, Emitting
<1> QED
  BY <1>3, <1>4

LEMMA NamedDisconnected ==
  ASSUME BInv, Named, NEW k \in Conns, Disconnected(k)
  PROVE  Named'
<1>1. /\ UNCHANGED <<pc, connPeer>> /\ down'[k] # "up"
      /\ \A j \in Conns : j # k => down'[j] = down[j]
      /\ DOMAIN conns' = DOMAIN conns \ {k} /\ \A j \in DOMAIN conns' : conns'[j] = conns[j]
  BY MapTypes DEF Disconnected, Down, Drop, Restrict, backend
<1> QED
  BY <1>1, Callback DEF Named

LEMMA NamedNext ==
  ASSUME BInv, Named, [Next]_vars
  PROVE  Named'
<1> USE Callback, MapTypes DEF Early, Emitting
<1>1. CASE UNCHANGED vars
  BY <1>1, NamedFrame DEF vars, probe, backend
<1>2. ASSUME NEW k \in Conns, Connected(k)
      PROVE  Named'
  BY <1>2, NamedFrame, StepOrder DEF Connected, Goto, probe, backend
<1>3. ASSUME NEW k \in Conns, RemoveStreamsForConn(k) \/ EmitConnectionClosed(k)
      PROVE  Named'
  BY <1>3, NamedFrame DEF RemoveStreamsForConn, EmitConnectionClosed, CloseConnection, Drop, Restrict, Down, probe, backend
<1>4. ASSUME NEW k \in Conns, NEW w \in Wraps, EmitConnStreamClosed(k, w)
      PROVE  Named'
  BY <1>4, NamedFrame DEF EmitConnStreamClosed, StreamClosed, probe
<1>5. ASSUME NEW a \in Callbacks, Interning(a)
      PROVE  Named'
  BY <1>5, NamedFrame DEF Interning, Intern, EmitStringDef, StringDef, Goto, probe, backend
<1>6. ASSUME NEW a \in Callbacks, Lock(a) \/ EmitPeerUpsert(a)
      PROVE  Named'
  BY <1>6, NamedFrame, StepOrder DEF Lock, EmitPeerUpsert, PeerUpsert, Goto, probe, backend
<1>7. ASSUME NEW a \in Callbacks, EmitConnectionUpsert(a)
      PROVE  Named'
  <2>1. DOMAIN connPeer' \subseteq DOMAIN connPeer \union {a} /\ conns' = conns /\ down' = down
    BY <1>7 DEF EmitConnectionUpsert, UpsertConnection, Put, probe
  <2>2. pc[a] = "connUpsert" /\ pc'[a] \notin Emitting /\ \A b \in Callbacks : b # a => pc'[b] = pc[b]
    BY <1>7 DEF EmitConnectionUpsert, Goto
  <2> QED
    BY <2>1, <2>2, NamedFrame
<1>8. ASSUME NEW w \in Wraps, WrapStream(w) \/ AddStreamUpsert(w) \/ CloseStream(w)
      PROVE  Named'
  BY <1>8, NamedFrame, StepOrder DEF WrapStream, AddStreamUpsert, CloseStream, Goto, probe, backend
<1>9. ASSUME NEW w \in Wraps, EmitStreamUpsert(w) \/ EmitClosed(w)
      PROVE  Named'
  BY <1>9, NamedFrame DEF EmitStreamUpsert, StreamUpsert, EmitClosed, StreamClosed, Goto, probe
<1>10. ASSUME SnapshotLock \/ WriteSnapshotLocked
       PROVE  Named'
  BY <1>10, NamedFrame DEF SnapshotLock, WriteSnapshotLocked, probe, backend
<1> QED
  BY <1>1, <1>2, <1>3, <1>4, <1>5, <1>6, <1>7, <1>8, <1>9, <1>10, Actions,
     NamedTrack, NamedDisconnected DEF Next

LEMMA NamedHolds == Spec => []Named
<1>1. Init => Named
  BY Callback DEF Init, Named, Early, Emitting
<1>2. BInv /\ Named /\ [Next]_vars => Named'
  BY NamedNext
<1> QED
  BY <1>1, <1>2, BInvHolds, PTL DEF Spec

(* connectionUpsertFor makes one alias for a connection, however many      *)
(* callbacks find it untracked: it looks again under n.mu, and the backend *)
(* is told of no other alias while the connection is up.                   *)
THEOREM OneAliasEach == Spec => []OneAlias
<1>1. BInv /\ Named => OneAlias
  BY DEF BInv, TypeOK, Named, OneAlias
<1> QED
  BY <1>1, BInvHolds, NamedHolds, PTL
-----------------------------------------------------------------------------
(* Only four actions change the backend's streams; the others do not hand  *)
(* a stream out or bring a connection up again.                            *)
LEMMA OpenIsKnownFrame ==
  ASSUME OpenIsKnown, DOMAIN streams \subseteq DOMAIN streams',
         \A w \in Wraps : pc'[w] = "open" => pc[w] = "open" \/ w \in DOMAIN streams',
         \A k \in Conns : down'[k] = "up" => down[k] = "up"
  PROVE  OpenIsKnown'
BY Callback DEF OpenIsKnown

LEMMA OpenIsKnownNext ==
  ASSUME BInv, OpenIsKnown, [Next]_vars
  PROVE  OpenIsKnown'
<1> USE Callback, MapTypes
<1>1. CASE UNCHANGED vars
  BY <1>1, OpenIsKnownFrame DEF vars, backend
<1>2. ASSUME NEW k \in Conns, Connected(k)
      PROVE  OpenIsKnown'
  BY <1>2, OpenIsKnownFrame, StepOrder DEF Connected, Goto, backend
<1>3. ASSUME NEW k \in Conns, Disconnected(k) \/ RemoveStreamsForConn(k) \/ EmitConnectionClosed(k)
      PROVE  OpenIsKnown'
  BY <1>3, OpenIsKnownFrame DEF Disconnected, RemoveStreamsForConn, EmitConnectionClosed, CloseConnection, Down, backend
<1>4. ASSUME NEW k \in Conns, NEW w \in Wraps, EmitConnStreamClosed(k, w)
      PROVE  OpenIsKnown'
  <2>1. OnConn[w] = k /\ down'[k] = "closing" /\ UNCHANGED <<pc, down>>
    BY <1>4 DEF EmitConnStreamClosed, BInv, Departing
  <2>2. DOMAIN streams' = DOMAIN streams \ {w}
    BY <1>4 DEF EmitConnStreamClosed, StreamClosed, Drop, Restrict
  <2> QED
    BY <2>1, <2>2 DEF OpenIsKnown
<1>5. ASSUME NEW a \in Callbacks, Interning(a)
      PROVE  OpenIsKnown'
  BY <1>5, OpenIsKnownFrame DEF Interning, Intern, EmitStringDef, StringDef, Goto, backend
<1>6. ASSUME NEW a \in Callbacks, Lock(a) \/ Track(a)
      PROVE  OpenIsKnown'
  BY <1>6, OpenIsKnownFrame, StepOrder DEF Lock, Track, Goto, backend
<1>7. ASSUME NEW a \in Callbacks, EmitPeerUpsert(a) \/ EmitConnectionUpsert(a)
      PROVE  OpenIsKnown'
  BY <1>7, OpenIsKnownFrame DEF EmitPeerUpsert, PeerUpsert, EmitConnectionUpsert, UpsertConnection, Goto
<1>8. ASSUME NEW w \in Wraps, WrapStream(w) \/ AddStreamUpsert(w) \/ CloseStream(w)
      PROVE  OpenIsKnown'
  BY <1>8, OpenIsKnownFrame, StepOrder DEF WrapStream, AddStreamUpsert, CloseStream, Goto, backend
<1>9. ASSUME NEW w \in Wraps, EmitStreamUpsert(w)
      PROVE  OpenIsKnown'
  BY <1>9, OpenIsKnownFrame DEF EmitStreamUpsert, StreamUpsert, Put, Goto
<1>10. ASSUME NEW w \in Wraps, EmitClosed(w)
       PROVE  OpenIsKnown'
  <2>1. DOMAIN streams' = DOMAIN streams \ {w} /\ down' = down
    BY <1>10 DEF EmitClosed, StreamClosed, Drop, Restrict
  <2>2. pc'[w] = "closed" /\ \A v \in Wraps : v # w => pc'[v] = pc[v]
    BY <1>10 DEF EmitClosed, Goto
  <2> QED
    BY <2>1, <2>2 DEF OpenIsKnown
<1>11. ASSUME SnapshotLock \/ WriteSnapshotLocked
       PROVE  OpenIsKnown'
  BY <1>11, OpenIsKnownFrame DEF SnapshotLock, WriteSnapshotLocked, backend
<1> QED
  BY <1>1, <1>2, <1>3, <1>4, <1>5, <1>6, <1>7, <1>8, <1>9, <1>10, <1>11, Actions DEF Next

(* wrapStream emits the StreamUpsert before it returns, so the backend     *)
(* knows every stream that the application can write to, as long as the    *)
(* connection of the stream is up.                                         *)
THEOREM OpenStreamsAreKnown == Spec => []OpenIsKnown
<1>1. Init => OpenIsKnown
  BY Callback DEF Init, OpenIsKnown
<1>2. BInv /\ OpenIsKnown /\ [Next]_vars => OpenIsKnown'
  BY OpenIsKnownNext
<1> QED
  BY <1>1, <1>2, BInvHolds, PTL DEF Spec
-----------------------------------------------------------------------------
(* A step that neither changes who is tracked nor begins or ends the emits *)
(* of a connection.                                                        *)
LEMMA CleanConnsFrame ==
  ASSUME CleanConns, UNCHANGED <<down, conns, connPeer>>, DOMAIN peers \subseteq DOMAIN peers',
         \A k \in Conns : leaving'[k].alias = leaving[k].alias,
         \A a \in Callbacks : pc'[a] \in Emitting <=> pc[a] \in Emitting,
         \A a \in Callbacks : pc'[a] = "connUpsert" => pc[a] = "connUpsert" \/ Peer(a) \in DOMAIN peers',
         BInv
  PROVE  CleanConns'
<1>1. tracked' = tracked
  BY DEF tracked
<1>2. tracked \subseteq Callbacks
  BY DEF tracked, BInv, TypeOK, Departing, aliases
<1>3. DOMAIN connPeer' = {a \in tracked' : pc'[a] \notin Emitting}
  BY <1>1, <1>2 DEF CleanConns
<1> QED
  BY <1>3 DEF CleanConns

LEMMA CleanConnsTrack ==
  ASSUME BInv, ~Raced, CleanConns, NEW a \in Callbacks, Track(a)
  PROVE  CleanConns'
<1>1. /\ UNCHANGED <<down, leaving, peers, connPeer>> /\ pc[a] = "track"
      /\ \A b \in Callbacks : b # a => pc'[b] = pc[b]
  BY DEF Track, Goto, backend, BInv, TypeOK
<1>2. existing(a) = None <=> ConnOf(a) \notin DOMAIN conns
  BY Callback DEF existing, BInv, TypeOK
<1>3. CASE ConnOf(a) \in DOMAIN conns
  <2>1. conns' = conns /\ pc'[a] \notin Emitting /\ pc[a] \notin Emitting
    BY <1>1, <1>2, <1>3 DEF Track, Goto, BInv, TypeOK, Emitting
  <2> QED
    BY <1>1, <1>3, <2>1, CleanConnsFrame DEF Emitting
<1>4. CASE ConnOf(a) \notin DOMAIN conns
  <2>1. /\ DOMAIN conns' = DOMAIN conns \union {ConnOf(a)} /\ conns'[ConnOf(a)] = a
        /\ \A k \in DOMAIN conns : conns'[k] = conns[k]
        /\ pc'[a] = "peerUpsert"
    BY <1>2, <1>4 DEF Track, Put, Goto, BInv, TypeOK
  <2>2. down[ConnOf(a)] \notin Leaving
    <3>1. CASE a \in Conns
      BY <1>1, <3>1, Callback DEF BInv, Departing, Leaving
    <3>2. CASE a \in Wraps
      BY <1>1, <3>2, Callback DEF Raced, started, ended, Leaving
    <3> QED
      BY <3>1, <3>2 DEF Callbacks
  <2>3. tracked' = tracked \union {a}
    BY <1>1, <1>4, <2>1 DEF tracked
  <2>4. a \notin tracked /\ tracked \subseteq Callbacks
    BY <1>1 DEF tracked, BInv, TypeOK, Placed, Departing, aliases, Early
  <2>5. DOMAIN connPeer' = {b \in tracked' : pc'[b] \notin Emitting}
    BY <1>1, <2>1, <2>3, <2>4 DEF CleanConns, Emitting
  <2>6. \A b \in Callbacks : pc'[b] \in Emitting => ConnOf(b) \in DOMAIN conns' /\ conns'[ConnOf(b)] = b
    BY <1>1, <1>4, <2>1 DEF CleanConns
  <2>7. \A k \in Conns : down'[k] \in Leaving => k \notin DOMAIN conns'
    BY <1>1, <2>1, <2>2 DEF CleanConns
  <2>8. \A b \in Callbacks : pc'[b] = "connUpsert" => Peer(b) \in DOMAIN peers'
    BY <1>1, <2>1 DEF CleanConns
  <2> QED
    BY <2>5, <2>6, <2>7, <2>8 DEF CleanConns
<1> QED
  BY <1>3, <1>4

LEMMA CleanConnsConnectionUpsert ==
  ASSUME BInv, CleanConns, NEW a \in Callbacks, EmitConnectionUpsert(a)
  PROVE  CleanConns'
<1>1. /\ UNCHANGED <<down, leaving, conns>> /\ pc[a] = "connUpsert" /\ pc'[a] \notin Emitting
      /\ \A b \in Callbacks : b # a => pc'[b] = pc[b]
  BY MapTypes DEF EmitConnectionUpsert, Goto, probe, local, Emitting
<1>2. Peer(a) \in DOMAIN peers /\ conns[ConnOf(a)] = a /\ ConnOf(a) \in DOMAIN conns
  BY <1>1 DEF CleanConns, Emitting
<1>3. DOMAIN connPeer' = DOMAIN connPeer \union {a} /\ DOMAIN peers' = DOMAIN peers
  BY <1>2 DEF EmitConnectionUpsert, UpsertConnection, Put
<1>4. tracked' = tracked /\ a \in tracked /\ tracked \subseteq Callbacks
  BY <1>1, <1>2 DEF tracked, BInv, TypeOK, Departing, aliases
<1>5. DOMAIN connPeer' = {b \in tracked' : pc'[b] \notin Emitting}
  BY <1>1, <1>3, <1>4 DEF CleanConns
<1> QED
  BY <1>1, <1>3, <1>5 DEF CleanConns, Emitting

LEMMA CleanConnsDisconnected ==
  ASSUME BInv, ~Raced', CleanConns, NEW k \in Conns, Disconnected(k)
  PROVE  CleanConns'
<1>1. /\ UNCHANGED <<pc, peers, connPeer>> /\ pc[k] = "done" /\ down[k] = "up"
      /\ \A j \in Conns : j # k => down'[j] = down[j] /\ leaving'[j] = leaving[j]
      /\ DOMAIN conns' = DOMAIN conns \ {k} /\ \A j \in DOMAIN conns' : conns'[j] = conns[j]
  BY MapTypes DEF Disconnected, Down, Drop, Restrict, backend
<1>2. CASE k \in DOMAIN conns
  <2>1. down'[k] = "removed" /\ leaving'[k].alias = conns[k]
    BY <1>2, MapTypes DEF Disconnected, Down
  <2>2. tracked' = tracked
    BY <1>1, <1>2, <2>1, MapTypes DEF tracked, Leaving
  <2>3. \A a \in Callbacks : pc[a] \in Emitting => ConnOf(a) # k
    BY <1>1, <2>1, Callback DEF Raced, started, ended, Emitting, Callbacks
  <2> QED
    BY <1>1, <2>1, <2>2, <2>3, Callback DEF CleanConns
<1>3. CASE k \notin DOMAIN conns
  <2>1. down'[k] = "done" /\ leaving' = leaving
    BY <1>3, MapTypes DEF Disconnected, Down
  <2>2. tracked' = tracked
    BY <1>1, <1>3, <2>1, MapTypes DEF tracked, Leaving
  <2>3. \A j \in Conns : down'[j] \in Leaving => down[j] \in Leaving
    BY <1>1, <2>1 DEF Leaving
  <2>4. DOMAIN conns' = DOMAIN conns /\ \A j \in DOMAIN conns : conns'[j] = conns[j]
    BY <1>1, <1>3
  <2>5. \A a \in Callbacks : pc[a] \in Emitting => ConnOf(a) \in DOMAIN conns' /\ conns'[ConnOf(a)] = a
    BY <2>4 DEF CleanConns
  <2>6. \A j \in Conns : down'[j] \in Leaving => j \notin DOMAIN conns'
    BY <2>3, <2>4 DEF CleanConns
  <2>7. DOMAIN connPeer' = {a \in tracked' : pc'[a] \notin Emitting}
    BY <1>1, <2>2 DEF CleanConns
  <2>8. \A a \in Callbacks : pc'[a] = "connUpsert" => Peer(a) \in DOMAIN peers'
    BY <1>1 DEF CleanConns
  <2> QED
    BY <1>1, <2>5, <2>6, <2>7, <2>8 DEF CleanConns
<1> QED
  BY <1>2, <1>3

LEMMA CleanConnsRemove ==
  ASSUME BInv, CleanConns, NEW k \in Conns, RemoveStreamsForConn(k)
  PROVE  CleanConns'
<1>1. /\ UNCHANGED <<pc, conns, peers, connPeer>>
      /\ \A j \in Conns : leaving'[j].alias = leaving[j].alias
      /\ \A j \in Conns : down'[j] \in Leaving <=> down[j] \in Leaving
  BY MapTypes DEF RemoveStreamsForConn, Down, Leaving, backend
<1>2. {j \in Conns : down'[j] \in Leaving} = {j \in Conns : down[j] \in Leaving}
  BY <1>1
<1>3. tracked' = tracked
  <2>1. \A b \in tracked' : b \in tracked
    BY <1>1, <1>2 DEF tracked
  <2>2. \A b \in tracked : b \in tracked'
    BY <1>1, <1>2 DEF tracked
  <2> QED
    BY <2>1, <2>2
<1> QED
  BY <1>1, <1>3 DEF CleanConns

LEMMA CleanConnsConnectionClosed ==
  ASSUME BInv, MapsMirror, ~Raced, CleanConns, NEW k \in Conns, EmitConnectionClosed(k)
  PROVE  CleanConns'
<1> DEFINE a == leaving[k].alias
<1>1. /\ UNCHANGED <<pc, conns>> /\ down[k] = "closing" /\ down'[k] = "done"
      /\ \A j \in Conns : j # k => down'[j] = down[j] /\ leaving'[j] = leaving[j]
      /\ DOMAIN connPeer' = DOMAIN connPeer \ {a}
  BY DEF EmitConnectionClosed, CloseConnection, Drop, Restrict, Down, probe, BInv, TypeOK
<1>2. a \in Callbacks /\ ConnOf(a) = k /\ k \notin DOMAIN conns
  BY <1>1 DEF BInv, Departing, Leaving, aliases, CleanConns
<1>3. tracked' = tracked \ {a}
  <2>1. \A j \in DOMAIN conns : conns[j] # a
    BY <1>2 DEF BInv, TypeOK
  <2>2. \A j \in Conns : down[j] \in Leaving /\ j # k => leaving[j].alias # a
    BY <1>2 DEF BInv, Departing, aliases
  <2>3. {j \in Conns : down'[j] \in Leaving} = {j \in Conns : down[j] \in Leaving} \ {k}
    BY <1>1 DEF Leaving
  <2>4. \A b \in tracked' : b \in tracked /\ b # a
    BY <1>1, <2>1, <2>2, <2>3 DEF tracked
  <2>5. \A b \in tracked : b # a => b \in tracked'
    BY <1>1, <2>3 DEF tracked
  <2> QED
    BY <2>4, <2>5
<1>4. DOMAIN connPeer' = {b \in tracked' : pc'[b] \notin Emitting}
  BY <1>1, <1>3 DEF CleanConns
<1>5. \A p \in DOMAIN peers : p # Peer(a) => p \in DOMAIN peers'
  <2>1. a \in DOMAIN connPeer => connPeer[a] = Peer(a)
    BY DEF MapsMirror
  <2> QED
    BY <2>1 DEF EmitConnectionClosed, CloseConnection, Drop, Restrict
<1>6. ASSUME NEW b \in Callbacks, pc[b] = "connUpsert" PROVE Peer(b) # Peer(a)
  <2>1. ConnOf(b) # k
    BY <1>2, <1>6 DEF CleanConns, Emitting
  <2>2. Peer(b) # PeerOf[k]
    BY <1>1, <1>6, <2>1 DEF Raced
  <2> QED
    BY <1>2, <2>2, Callback
<1> QED
  BY <1>1, <1>4, <1>5, <1>6 DEF CleanConns, Leaving
-----------------------------------------------------------------------------
(* A step of no stream. *)
LEMMA CleanStreamsFrame ==
  ASSUME BInv, CleanStreams, UNCHANGED <<streamUpserts, streams>>,
         \A k \in Conns : leaving'[k].streams = leaving[k].streams,
         \A w \in Wraps : pc'[w] = "streamUpsert" => pc[w] = "streamUpsert",
         \A w \in Wraps : pc'[w] = "open" => pc[w] = "open",
         \A w \in Wraps : pc[w] = "closing" => pc'[w] = "closing"
  PROVE  CleanStreams'
BY Callback, MapTypes DEF CleanStreams

LEMMA CleanStreamsAdd ==
  ASSUME BInv, CleanStreams, NEW w \in Wraps, AddStreamUpsert(w)
  PROVE  CleanStreams'
<1>1. /\ UNCHANGED <<leaving, streams>> /\ pc[w] = "add" /\ pc'[w] = "streamUpsert"
      /\ \A v \in Wraps : v # w => pc'[v] = pc[v]
      /\ DOMAIN streamUpserts' = DOMAIN streamUpserts \union {w}
  BY Callback, MapTypes DEF AddStreamUpsert, Goto, Put, local, backend
<1> QED
  BY <1>1, MapTypes DEF CleanStreams

LEMMA CleanStreamsUpsert ==
  ASSUME BInv, ~Raced, CleanStreams, NEW w \in Wraps, EmitStreamUpsert(w)
  PROVE  CleanStreams'
<1>1. /\ UNCHANGED <<leaving, streamUpserts>> /\ pc[w] = "streamUpsert" /\ pc'[w] = "open"
      /\ \A v \in Wraps : v # w => pc'[v] = pc[v]
  BY Callback, MapTypes DEF EmitStreamUpsert, Goto, probe, local
<1>2. "protocol" \in strings
  BY <1>1 DEF Raced
<1>3. DOMAIN streams' = DOMAIN streams \union {w} /\ streams'[w]
      /\ \A v \in DOMAIN streams : v # w => streams'[v] = streams[v]
  BY <1>2 DEF EmitStreamUpsert, StreamUpsert, Put
<1> QED
  BY <1>1, <1>3, MapTypes DEF CleanStreams

LEMMA CleanStreamsClose ==
  ASSUME BInv, CleanStreams, NEW w \in Wraps, CloseStream(w)
  PROVE  CleanStreams'
<1>1. /\ UNCHANGED <<leaving, streams>> /\ pc[w] = "open" /\ pc'[w] = "closing"
      /\ \A v \in Wraps : v # w => pc'[v] = pc[v]
      /\ DOMAIN streamUpserts' = DOMAIN streamUpserts \ {w}
  BY Callback, MapTypes DEF CloseStream, Goto, Drop, Restrict, local, backend
<1> QED
  BY <1>1, MapTypes DEF CleanStreams

LEMMA CleanStreamsClosed ==
  ASSUME BInv, CleanStreams, NEW w \in Wraps, EmitClosed(w)
  PROVE  CleanStreams'
<1>1. /\ UNCHANGED <<leaving, streamUpserts>> /\ pc[w] = "closing" /\ pc'[w] = "closed"
      /\ \A v \in Wraps : v # w => pc'[v] = pc[v]
      /\ DOMAIN streams' = DOMAIN streams \ {w} /\ \A v \in DOMAIN streams' : streams'[v] = streams[v]
  BY Callback, MapTypes DEF EmitClosed, StreamClosed, Goto, Drop, Restrict, probe, local
<1> QED
  BY <1>1, MapTypes DEF CleanStreams

LEMMA CleanStreamsRemove ==
  ASSUME BInv, ~Raced, CleanStreams, NEW k \in Conns, RemoveStreamsForConn(k)
  PROVE  CleanStreams'
<1>1. /\ UNCHANGED <<pc, streams>> /\ down[k] = "removed"
      /\ \A j \in Conns : j # k => leaving'[j] = leaving[j]
      /\ leaving'[k].streams = streamsOf(leaving[k].alias)
      /\ DOMAIN streamUpserts' = DOMAIN streamUpserts \ streamsOf(leaving[k].alias)
  BY DEF RemoveStreamsForConn, Down, Drop, Restrict, backend, BInv, TypeOK
<1>2. leaving[k].streams = {} /\ ConnOf(leaving[k].alias) = k
  BY <1>1 DEF BInv, Departing, Leaving, aliases
<1>3. \A w \in streamsOf(leaving[k].alias) : w \in Wraps /\ OnConn[w] = k
  BY <1>2 DEF streamsOf, BInv, TypeOK
<1>4. \A w \in streamsOf(leaving[k].alias) : pc[w] # "streamUpsert"
  BY <1>1, <1>3 DEF Raced, started, ended
<1>5. \A w \in Wraps : pc'[w] = "streamUpsert" => w \in DOMAIN streamUpserts'
  BY <1>1, <1>4 DEF CleanStreams
<1>6. \A w \in DOMAIN streamUpserts' : pc'[w] = "open" => w \in DOMAIN streams'
  BY <1>1 DEF CleanStreams
<1>7. ASSUME NEW w \in DOMAIN streams
      PROVE  \/ w \in DOMAIN streamUpserts' \/ pc[w] = "closing"
             \/ w \in leaving'[OnConn[w]].streams
  <2>1. \/ w \in DOMAIN streamUpserts \/ pc[w] = "closing"
        \/ w \in leaving[OnConn[w]].streams
    BY DEF CleanStreams
  <2>2. OnConn[w] \in Conns
    BY MapTypes, Callback
  <2> QED
    BY <1>1, <1>2, <1>3, <2>1, <2>2
<1>8. \A w \in DOMAIN streams : streams[w]
  BY DEF CleanStreams
<1> QED
  BY <1>1, <1>5, <1>6, <1>7, <1>8 DEF CleanStreams

LEMMA CleanStreamsConnStreamClosed ==
  ASSUME BInv, CleanStreams, NEW k \in Conns, NEW w \in Wraps, EmitConnStreamClosed(k, w)
  PROVE  CleanStreams'
<1>1. /\ UNCHANGED <<pc, streamUpserts>> /\ w \in leaving[k].streams
      /\ \A j \in Conns : j # k => leaving'[j] = leaving[j]
      /\ leaving'[k].streams = leaving[k].streams \ {w}
      /\ DOMAIN streams' = DOMAIN streams \ {w} /\ \A v \in DOMAIN streams' : streams'[v] = streams[v]
  BY MapTypes DEF EmitConnStreamClosed, StreamClosed, Drop, Restrict, probe
<1>2. w \notin DOMAIN streamUpserts
  BY <1>1 DEF BInv, Departing
<1> QED
  BY <1>1, <1>2, Callback, MapTypes DEF CleanStreams

LEMMA CleanStreamsConnectionClosed ==
  ASSUME BInv, CleanStreams, NEW k \in Conns, EmitConnectionClosed(k)
  PROVE  CleanStreams'
<1>1. UNCHANGED <<pc, streamUpserts, streams>> /\ leaving[k].streams = {}
  BY DEF EmitConnectionClosed, CloseConnection, probe
<1>2. \A j \in Conns : leaving'[j].streams = leaving[j].streams
  <2>1. leaving' = [leaving EXCEPT ![k] = Gone] /\ leaving \in [Conns -> [alias : Callbacks \union {None}, streams : SUBSET Wraps]]
    BY MapTypes DEF EmitConnectionClosed
  <2>2. Gone.streams = {}
    BY DEF Gone
  <2> QED
    BY <1>1, <2>1, <2>2
<1> QED
  BY <1>1, <1>2, CleanStreamsFrame
(* A step that only moves a callback on between two places that neither    *)
(* the connections nor the streams depend on.                              *)
LEMMA CleanConnsMove ==
  ASSUME BInv, CleanConns, UNCHANGED <<down, conns, leaving, peers, connPeer>>, NEW a \in Callbacks,
         pc[a] \notin Emitting, pc'[a] \notin Emitting,
         \A b \in Callbacks : b # a => pc'[b] = pc[b]
  PROVE  CleanConns'
<1>1. \A b \in Callbacks : pc'[b] \in Emitting <=> pc[b] \in Emitting
  OBVIOUS
<1>2. \A b \in Callbacks : pc'[b] = "connUpsert" => pc[b] = "connUpsert"
  BY DEF Emitting
<1> QED
  BY <1>1, <1>2, CleanConnsFrame

LEMMA CleanStreamsMove ==
  ASSUME BInv, CleanStreams, UNCHANGED <<streamUpserts, leaving, streams>>, NEW a \in Callbacks,
         pc[a] # "closing", pc'[a] \notin {"streamUpsert", "open"},
         \A b \in Callbacks : b # a => pc'[b] = pc[b]
  PROVE  CleanStreams'
<1>1. \A w \in Wraps : /\ pc'[w] = "streamUpsert" => pc[w] = "streamUpsert"
                       /\ pc'[w] = "open" => pc[w] = "open"
                       /\ pc[w] = "closing" => pc'[w] = "closing"
  BY Callback
<1> QED
  BY <1>1, CleanStreamsFrame

-----------------------------------------------------------------------------
LEMMA CleanNext ==
  ASSUME BInv, MapsMirror, Clean, [Next]_vars
  PROVE  Clean'
<1> SUFFICES ASSUME ~raced'
             PROVE  ~Raced' /\ CleanConns' /\ CleanStreams'
  BY DEF Clean
<1>1. CASE UNCHANGED vars
  <2>1. UNCHANGED <<pc, down, conns, streamUpserts, leaving, strings, peers, connPeer, streams, raced>>
    BY <1>1 DEF vars, probe, local, backend
  <2>2. ~Raced'
    BY <2>1 DEF Clean, Raced, started, ended
  <2>3. CleanConns'
    BY <2>1, CleanConnsFrame DEF Clean
  <2>4. CleanStreams'
    BY <2>1, CleanStreamsFrame DEF Clean
  <2> QED
    BY <2>2, <2>3, <2>4
<1>2. CASE Next
  <2>1. ~raced /\ ~Raced'
    BY <1>2 DEF Next
  <2>2. ~Raced /\ CleanConns /\ CleanStreams
    BY <2>1 DEF Clean
  <2> USE Callback, MapTypes
  <2>3. ASSUME NEW k \in Conns, Connected(k)
        PROVE  CleanConns' /\ CleanStreams'
    <3>1. /\ UNCHANGED <<down, conns, streamUpserts, leaving, peers, connPeer, streams>>
          /\ pc[k] = "start" /\ pc'[k] = "intern" /\ \A b \in Callbacks : b # k => pc'[b] = pc[b]
      BY <2>3, StepOrder DEF Connected, Goto, probe, local, backend
    <3>2. CleanConns'
      BY <2>2, <3>1, CleanConnsMove DEF Emitting
    <3>3. CleanStreams'
      BY <2>2, <3>1, CleanStreamsMove
    <3> QED
      BY <3>2, <3>3
  <2>4. ASSUME NEW k \in Conns, Disconnected(k)
        PROVE  CleanConns' /\ CleanStreams'
    <3>1. UNCHANGED <<pc, streamUpserts, streams>>
      BY <2>4 DEF Disconnected, backend
    <3>2. \A j \in Conns : leaving'[j].streams = leaving[j].streams
      BY <2>4 DEF Disconnected
    <3>3. CleanStreams'
      BY <2>2, <3>1, <3>2, CleanStreamsFrame
    <3> QED
      BY <2>1, <2>2, <2>4, <3>3, CleanConnsDisconnected
  <2>5. ASSUME NEW k \in Conns, RemoveStreamsForConn(k)
        PROVE  CleanConns' /\ CleanStreams'
    BY <2>2, <2>5, CleanConnsRemove, CleanStreamsRemove
  <2>6. ASSUME NEW k \in Conns, EmitConnectionClosed(k)
        PROVE  CleanConns' /\ CleanStreams'
    BY <2>2, <2>6, CleanConnsConnectionClosed, CleanStreamsConnectionClosed
  <2>7. ASSUME NEW k \in Conns, NEW w \in Wraps, EmitConnStreamClosed(k, w)
        PROVE  CleanConns' /\ CleanStreams'
    <3>1. CleanConns'
      BY <2>2, <2>7, CleanConnsFrame DEF EmitConnStreamClosed, StreamClosed, probe
    <3> QED
      BY <2>2, <2>7, <3>1, CleanStreamsConnStreamClosed
  <2>8. ASSUME NEW a \in Callbacks, Interning(a)
        PROVE  CleanConns' /\ CleanStreams'
    <3>1. /\ UNCHANGED <<down, conns, streamUpserts, leaving, peers, connPeer, streams>>
          /\ pc[a] \in {"intern", "def", "internProtocol", "defProtocol"}
          /\ pc'[a] \in {"def", "lock", "defProtocol", "add"}
          /\ \A b \in Callbacks : b # a => pc'[b] = pc[b]
      BY <2>8 DEF Interning, Intern, EmitStringDef, StringDef, Goto, probe, local, backend
    <3>2. CleanConns'
      BY <2>2, <3>1, CleanConnsMove DEF Emitting
    <3>3. CleanStreams'
      BY <2>2, <3>1, CleanStreamsMove
    <3> QED
      BY <3>2, <3>3
  <2>9. ASSUME NEW a \in Callbacks, Lock(a)
        PROVE  CleanConns' /\ CleanStreams'
    <3>1. /\ UNCHANGED <<down, conns, streamUpserts, leaving, peers, connPeer, streams>>
          /\ pc[a] = "lock" /\ pc'[a] = "track" /\ \A b \in Callbacks : b # a => pc'[b] = pc[b]
      BY <2>9, StepOrder DEF Lock, Goto, probe, local, backend
    <3>2. CleanConns'
      BY <2>2, <3>1, CleanConnsMove DEF Emitting
    <3>3. CleanStreams'
      BY <2>2, <3>1, CleanStreamsMove
    <3> QED
      BY <3>2, <3>3
  <2>10. ASSUME NEW a \in Callbacks, Track(a)
         PROVE  CleanConns' /\ CleanStreams'
    <3>1. CleanStreams'
      <4>1. /\ UNCHANGED <<streamUpserts, leaving, streams>> /\ pc[a] = "track"
            /\ pc'[a] \in {"peerUpsert", "internProtocol", "done"}
            /\ \A b \in Callbacks : b # a => pc'[b] = pc[b]
        BY <2>10 DEF Track, Goto, backend
      <4> QED
        BY <2>2, <4>1, CleanStreamsMove
    <3> QED
      BY <2>2, <2>10, <3>1, CleanConnsTrack
  <2>11. ASSUME NEW a \in Callbacks, EmitPeerUpsert(a)
         PROVE  CleanConns' /\ CleanStreams'
    <3>1. /\ UNCHANGED <<down, conns, streamUpserts, leaving, connPeer, streams>>
          /\ pc[a] = "peerUpsert" /\ pc'[a] = "connUpsert" /\ \A b \in Callbacks : b # a => pc'[b] = pc[b]
          /\ DOMAIN peers' = DOMAIN peers \union {Peer(a)}
      BY <2>11 DEF EmitPeerUpsert, PeerUpsert, Put, Goto, probe, local
    <3>2. \A b \in Callbacks : pc'[b] \in Emitting <=> pc[b] \in Emitting
      BY <3>1 DEF Emitting
    <3>3. \A b \in Callbacks : pc'[b] = "connUpsert" => pc[b] = "connUpsert" \/ Peer(b) \in DOMAIN peers'
      BY <3>1
    <3>4. /\ UNCHANGED <<down, conns, connPeer>> /\ DOMAIN peers \subseteq DOMAIN peers'
          /\ \A k \in Conns : leaving'[k].alias = leaving[k].alias
      BY <3>1
    <3>5. CleanConns'
      BY <2>2, <3>2, <3>3, <3>4, CleanConnsFrame
    <3>6. CleanStreams'
      BY <2>2, <3>1, CleanStreamsMove
    <3> QED
      BY <3>5, <3>6
  <2>12. ASSUME NEW a \in Callbacks, EmitConnectionUpsert(a)
         PROVE  CleanConns' /\ CleanStreams'
    <3>1. CleanStreams'
      <4>1. /\ UNCHANGED <<streamUpserts, leaving, streams>> /\ pc[a] = "connUpsert"
            /\ pc'[a] \in {"internProtocol", "done"}
            /\ \A b \in Callbacks : b # a => pc'[b] = pc[b]
        BY <2>12 DEF EmitConnectionUpsert, UpsertConnection, Goto, probe, local
      <4> QED
        BY <2>2, <4>1, CleanStreamsMove
    <3>2. CleanConns'
      BY <2>2, <2>12, CleanConnsConnectionUpsert
    <3> QED
      BY <3>1, <3>2
  <2>13. ASSUME NEW w \in Wraps, WrapStream(w)
         PROVE  CleanConns' /\ CleanStreams'
    <3>1. /\ UNCHANGED <<down, conns, streamUpserts, leaving, peers, connPeer, streams>>
          /\ pc[w] = "start" /\ pc'[w] \in {"intern", "internProtocol"}
          /\ \A b \in Callbacks : b # w => pc'[b] = pc[b]
      BY <2>13, StepOrder DEF WrapStream, Goto, probe, backend
    <3>2. CleanConns'
      BY <2>2, <3>1, CleanConnsMove DEF Emitting
    <3>3. CleanStreams'
      BY <2>2, <3>1, CleanStreamsMove
    <3> QED
      BY <3>2, <3>3
  <2>14. ASSUME NEW w \in Wraps, AddStreamUpsert(w) \/ CloseStream(w)
         PROVE  CleanConns' /\ CleanStreams'
    <3>1. CleanConns'
      <4>1. /\ UNCHANGED <<down, conns, leaving, peers, connPeer>>
            /\ pc[w] \in {"add", "open"} /\ pc'[w] \in {"streamUpsert", "closing"}
            /\ \A b \in Callbacks : b # w => pc'[b] = pc[b]
        BY <2>14 DEF AddStreamUpsert, CloseStream, Goto, local, backend
      <4> QED
        BY <2>2, <4>1, CleanConnsMove DEF Emitting
    <3> QED
      BY <2>2, <2>14, <3>1, CleanStreamsAdd, CleanStreamsClose
  <2>15. ASSUME NEW w \in Wraps, EmitStreamUpsert(w) \/ EmitClosed(w)
         PROVE  CleanConns' /\ CleanStreams'
    <3>1. CleanConns'
      <4>1. /\ UNCHANGED <<down, conns, leaving, peers, connPeer>>
            /\ pc[w] \in {"streamUpsert", "closing"} /\ pc'[w] \in {"open", "closed"}
            /\ \A b \in Callbacks : b # w => pc'[b] = pc[b]
        BY <2>15 DEF EmitStreamUpsert, StreamUpsert, EmitClosed, StreamClosed, Goto, probe, local
      <4> QED
        BY <2>2, <4>1, CleanConnsMove DEF Emitting
    <3> QED
      BY <2>2, <2>15, <3>1, CleanStreamsUpsert, CleanStreamsClosed
  <2>16. ASSUME SnapshotLock \/ WriteSnapshotLocked
         PROVE  CleanConns' /\ CleanStreams'
    <3>1. UNCHANGED <<pc, down, conns, streamUpserts, leaving, peers, connPeer, streams>>
      BY <2>16 DEF SnapshotLock, WriteSnapshotLocked, probe, local, backend
    <3>2. CleanConns'
      BY <2>2, <3>1, CleanConnsFrame
    <3>3. CleanStreams'
      BY <2>2, <3>1, CleanStreamsFrame
    <3> QED
      BY <3>2, <3>3
  <2> QED
    BY <1>2, <2>1, <2>3, <2>4, <2>5, <2>6, <2>7, <2>8, <2>9, <2>10, <2>11, <2>12, <2>13, <2>14,
       <2>15, <2>16, Actions DEF Next
<1> QED
  BY <1>1, <1>2

LEMMA CleanHolds == Spec => []Clean
<1>1. Init => Clean
  <2> SUFFICES ASSUME Init
               PROVE  ~Raced /\ CleanConns /\ CleanStreams
    BY DEF Clean
  <2> USE Callback DEF Init
  <2>1. tracked = {}
    BY DEF tracked, Leaving
  <2>2. ~Raced
    BY DEF Raced, started
  <2>3. CleanConns
    BY <2>1 DEF CleanConns, Emitting, Leaving
  <2>4. CleanStreams
    BY DEF CleanStreams
  <2> QED
    BY <2>2, <2>3, <2>4
<1>2. BInv /\ MapsMirror /\ Clean /\ [Next]_vars => Clean'
  BY CleanNext
<1> QED
  BY <1>1, <1>2, BInvHolds, MapsMirrorHolds, PTL DEF Spec

(* When no callback runs and none has raced with another, the backend's    *)
(* peers, connections and streams are exactly those of the probe, and each *)
(* stream got its protocol: the envelopes that the callbacks emit after    *)
(* their unlocks add up to the maps.                                       *)
THEOREM BackendsAgree == Spec => []BackendAgrees
<1>1. ASSUME BInv, MapsMirror, Clean PROVE BackendAgrees
  <2> SUFFICES ASSUME quiet, ~raced
               PROVE  /\ DOMAIN connPeer = {conns[k] : k \in DOMAIN conns}
                      /\ DOMAIN streams = DOMAIN streamUpserts /\ \A w \in DOMAIN streams : streams[w]
                      /\ DOMAIN peers = {PeerOf[k] : k \in DOMAIN conns}
    BY DEF BackendAgrees
  <2>1. CleanConns /\ CleanStreams
    BY <1>1 DEF Clean
  <2>2. /\ \A a \in Callbacks : pc[a] \notin Emitting \union {"streamUpsert", "closing"}
        /\ \A k \in Conns : down[k] \notin Leaving
    BY Callback DEF quiet, Callbacks, Emitting, Leaving
  <2>3. DOMAIN connPeer = {conns[k] : k \in DOMAIN conns}
    <3>1. tracked = {conns[k] : k \in DOMAIN conns}
      BY <2>2 DEF tracked
    <3>2. tracked \subseteq Callbacks
      BY <1>1, <3>1 DEF BInv, TypeOK
    <3> QED
      BY <2>1, <2>2, <3>1, <3>2 DEF CleanConns
  <2>4. DOMAIN streams = DOMAIN streamUpserts /\ \A w \in DOMAIN streams : streams[w]
    <3>1. \A k \in Conns : leaving[k].streams = {}
      BY <1>1, <2>2 DEF BInv, Departing, Leaving
    <3>2. \A w \in DOMAIN streams : streams[w] /\ w \in DOMAIN streamUpserts
      BY <1>1, <2>1, <2>2, <3>1, Callback DEF BInv, TypeOK, CleanStreams
    <3>3. \A w \in DOMAIN streamUpserts : w \in DOMAIN streams
      BY <1>1, <2>1, <2>2, Callback DEF BInv, TypeOK, Placed, CleanStreams
    <3> QED
      BY <3>2, <3>3
  <2>5. ASSUME NEW p \in DOMAIN peers
        PROVE  p \in {PeerOf[k] : k \in DOMAIN conns}
    <3>1. \A a \in Callbacks : pc[a] # "connUpsert"
      BY <2>2 DEF Emitting
    <3>2. peers[p] # {}
      BY <1>1, <2>5, <3>1 DEF MapsMirror
    <3>3. PICK a \in peers[p] : a \in DOMAIN connPeer /\ Peer(a) = p
      BY <1>1, <2>5, <3>2 DEF MapsMirror
    <3>4. PICK k \in DOMAIN conns : a = conns[k]
      BY <2>3, <3>3
    <3>5. a \in Callbacks /\ ConnOf(a) = k
      BY <1>1, <3>4, TrackedAlias
    <3> QED
      BY <3>3, <3>5, Callback
  <2>6. ASSUME NEW k \in DOMAIN conns
        PROVE  PeerOf[k] \in DOMAIN peers
    BY <1>1, <2>3, <2>6, Callback DEF BInv, TypeOK, MapsMirror
  <2> QED
    BY <2>3, <2>4, <2>5, <2>6
<1> QED
  BY <1>1, BInvHolds, MapsMirrorHolds, CleanHolds, PTL
=============================================================================
