--------------------------- MODULE TrackingTypes ----------------------------
(***************************************************************************)
(* The type invariant of Tracking, for any number of connections, streams  *)
(* and peers, any assignment of streams to connections and of connections  *)
(* to peers, and any number of snapshots.                                  *)
(*                                                                         *)
(* TypeOK is not inductive.  Placed says where a callback is when it holds *)
(* n.mu, has an alias or has a string to define, and Departing what        *)
(* Disconnected has taken with it.                                         *)
(***************************************************************************)
EXTENDS Tracking, TLAPS

(* Before it has an alias, and between the alias and its ConnectionUpsert. *)
Early == {"start", "intern", "def", "lock", "track"}
Emitting == {"peerUpsert", "connUpsert"}
Leaving == {"removed", "closing"}

(* The aliases that a connection may have. *)
aliases(k) == {a \in Callbacks : ConnOf(a) = k}

Placed ==
  /\ \A k \in Conns : pc[k] \in Early \union Emitting \union {"done"}
  /\ \A w \in Wraps : pc[w] # "done"
  /\ \A a \in Callbacks : pc[a] = "track" <=> nmu = a
  /\ \A a \in Callbacks : pc[a] = "def" => "transport" \in stringIDs
  /\ \A a \in Callbacks : pc[a] = "defProtocol" => "protocol" \in stringIDs
  /\ \A w \in Wraps : pc[w] \notin Early => wconn[w] \in aliases(OnConn[w])
  /\ \A k \in DOMAIN conns : pc[conns[k]] \notin Early
  /\ \A w \in DOMAIN streamUpserts : pc[w] \in {"streamUpsert", "open"}

Departing ==
  /\ \A k \in Conns : down[k] # "up" => pc[k] = "done"
  /\ \A k \in Conns : down[k] \in Leaving =>
       leaving[k].alias \in aliases(k) /\ pc[leaving[k].alias] \notin Early
  /\ \A k \in Conns : down[k] \notin Leaving => leaving[k] = Gone
  /\ \A k \in Conns : down[k] # "closing" => leaving[k].streams = {}
  /\ \A k \in Conns : \A w \in leaving[k].streams :
       /\ OnConn[w] = k /\ w \notin DOMAIN streamUpserts
       /\ pc[w] \in {"streamUpsert", "open", "closing", "closed"}

BInv == TypeOK /\ Placed /\ Departing

-----------------------------------------------------------------------------
(* The order of connectionUpsertFor's steps. *)
LEMMA StepOrder == firstStep = "intern" /\ after("intern") = "lock" /\ after("lock") = "track"
<1>1. upsertSteps[1] = "intern" /\ upsertSteps[2] = "lock" /\ upsertSteps[3] = "track"
  BY DEF upsertSteps
<1>2. (CHOOSE i \in 1..2 : upsertSteps[i] = "intern") = 1
  BY <1>1
<1>3. (CHOOSE i \in 1..2 : upsertSteps[i] = "lock") = 2
  BY <1>1
<1> QED
  BY <1>1, <1>2, <1>3 DEF firstStep, after

(* Connections, streams and the callbacks about them. *)
LEMMA Callback ==
  /\ \A k \in Conns : k \in Callbacks /\ k \notin Wraps /\ ConnOf(k) = k
  /\ \A w \in Wraps : w \in Callbacks /\ w \notin Conns /\ ConnOf(w) = OnConn[w] /\ OnConn[w] \in Conns
  /\ \A a \in Callbacks : ConnOf(a) \in Conns /\ Peer(a) = PeerOf[ConnOf(a)] /\ Peer(a) \in Peers
  /\ None \notin Callbacks
BY TrackingAssumption DEF Callbacks, ConnOf, Peer, Peers

LEMMA BInvInit == Init => BInv
<1> SUFFICES ASSUME Init PROVE BInv
  OBVIOUS
<1> USE DEF Init
<1>1. DOMAIN conns = {} /\ DOMAIN streamUpserts = {} /\ DOMAIN peers = {}
      /\ DOMAIN connPeer = {} /\ DOMAIN streams = {}
  OBVIOUS
<1>2. TypeOK
  <2>0. raced \in BOOLEAN
    OBVIOUS
  <2>1. snapshots \in 0..MaxSnapshots
    BY TrackingAssumption
  <2>2. leaving \in [Conns -> [alias : Callbacks \union {None}, streams : SUBSET Wraps]]
    BY DEF Gone
  <2> QED
    BY <1>1, <2>0, <2>1, <2>2 DEF TypeOK, Steps
<1>3. Placed
  BY <1>1, Callback DEF Placed, Early
<1>4. Departing
  BY <1>1 DEF Departing, Leaving, Gone
<1> QED
  BY <1>2, <1>3, <1>4 DEF BInv

LEMMA BInvConnected ==
  ASSUME BInv, raced' \in BOOLEAN, NEW k \in Conns, Connected(k)
  PROVE  BInv'
<1> USE DEF BInv
<1>1. /\ pc[k] = "start" /\ pc' = [pc EXCEPT ![k] = "intern"]
      /\ UNCHANGED <<down, snapshotLoop, snapshots, nmu, conns, streamUpserts, stringIDs, wconn, leaving,
                     strings, peers, connPeer, streams>>
  BY StepOrder DEF Connected, Goto, file, probe, local, backend
<1>2. TypeOK'
  BY <1>1 DEF TypeOK, Steps
<1>3. Placed'
  BY <1>1, Callback DEF Placed, Early, TypeOK
<1>4. Departing'
  BY <1>1, Callback DEF Departing, Early, TypeOK, aliases
<1> QED
  BY <1>2, <1>3, <1>4
LEMMA BInvIntern ==
  ASSUME BInv, raced' \in BOOLEAN, NEW a \in Callbacks, NEW s \in Strings,
         NEW from, NEW def \in Steps, NEW to \in Steps,
         Intern(a, s, from, def, to),
         \/ s = "transport" /\ from = "intern" /\ def = "def" /\ to = "lock"
         \/ s = "protocol" /\ from = "internProtocol" /\ def = "defProtocol" /\ to = "add" /\ a \in Wraps
  PROVE  BInv'
<1> USE DEF BInv
<1>1. /\ pc[a] = from /\ pc' = [pc EXCEPT ![a] = IF s \in stringIDs THEN to ELSE def]
      /\ stringIDs' = stringIDs \union {s}
      /\ UNCHANGED <<down, snapshotLoop, snapshots, nmu, conns, streamUpserts, wconn, leaving, strings, peers, connPeer, streams>>
  BY StepOrder, Callback DEF Intern, Goto, file, probe, local, backend
<1>2. TypeOK'
  BY <1>1, Callback DEF TypeOK, Placed, Steps, aliases
<1>3. Placed'
  BY <1>1, Callback DEF Placed, Early, TypeOK, aliases
<1>4. Departing'
  BY <1>1, Callback DEF Departing, Placed, Early, Leaving, TypeOK, aliases
<1> QED
  BY <1>2, <1>3, <1>4

LEMMA BInvStringDef ==
  ASSUME BInv, raced' \in BOOLEAN, NEW a \in Callbacks, NEW s \in Strings,
         NEW def, NEW to \in Steps,
         EmitStringDef(a, s, def, to),
         \/ s = "transport" /\ def = "def" /\ to = "lock"
         \/ s = "protocol" /\ def = "defProtocol" /\ to = "add" /\ a \in Wraps
  PROVE  BInv'
<1> USE DEF BInv
<1>1. /\ pc[a] = def /\ pc' = [pc EXCEPT ![a] = to]
      /\ strings' = strings \union {s}
      /\ UNCHANGED <<down, snapshotLoop, snapshots, nmu, conns, streamUpserts, wconn, leaving, stringIDs, peers, connPeer, streams>>
  BY StepOrder, Callback DEF EmitStringDef, StringDef, Goto, file, probe, local, backend
<1>2. TypeOK'
  BY <1>1, Callback DEF TypeOK, Placed, Steps, aliases
<1>3. Placed'
  BY <1>1, Callback DEF Placed, Early, TypeOK, aliases
<1>4. Departing'
  BY <1>1, Callback DEF Departing, Placed, Early, Leaving, TypeOK, aliases
<1> QED
  BY <1>2, <1>3, <1>4

LEMMA BInvLock ==
  ASSUME BInv, raced' \in BOOLEAN, NEW a \in Callbacks, Lock(a)
  PROVE  BInv'
<1> USE DEF BInv
<1>1. /\ nmu = None /\ nmu' = a
      /\ pc[a] = "lock" /\ pc' = [pc EXCEPT ![a] = "track"]
      /\ UNCHANGED <<down, snapshotLoop, snapshots, conns, streamUpserts, wconn, leaving, stringIDs, strings, peers, connPeer, streams>>
  BY StepOrder, Callback DEF Lock, Goto, file, probe, local, backend
<1>2. TypeOK'
  BY <1>1, Callback DEF TypeOK, Placed, Steps, aliases
<1>3. Placed'
  BY <1>1, Callback DEF Placed, Early, TypeOK, aliases
<1>4. Departing'
  BY <1>1, Callback DEF Departing, Placed, Early, Leaving, TypeOK, aliases
<1> QED
  BY <1>2, <1>3, <1>4

LEMMA BInvTrack ==
  ASSUME BInv, raced' \in BOOLEAN, NEW a \in Callbacks, Track(a)
  PROVE  BInv'
<1> USE DEF BInv
<1>0. existing(a) = None <=> ConnOf(a) \notin DOMAIN conns
  BY Callback DEF existing, TypeOK
<1>1. /\ nmu = a /\ nmu' = None /\ pc[a] = "track"
      /\ DOMAIN conns' = DOMAIN conns \union {ConnOf(a)}
      /\ conns'[ConnOf(a)] = IF ConnOf(a) \in DOMAIN conns THEN conns[ConnOf(a)] ELSE a
      /\ \A x \in DOMAIN conns : conns'[x] = conns[x]
      /\ wconn' = IF a \in Wraps
                  THEN [wconn EXCEPT ![a] = IF ConnOf(a) \in DOMAIN conns THEN conns[ConnOf(a)] ELSE a]
                  ELSE wconn
      /\ pc' = [pc EXCEPT ![a] = IF ConnOf(a) \notin DOMAIN conns THEN "peerUpsert"
                                 ELSE IF a \in Wraps THEN "internProtocol" ELSE "done"]
      /\ UNCHANGED <<down, snapshotLoop, snapshots, streamUpserts, leaving, stringIDs, strings, peers, connPeer, streams>>
  <2>1. CASE ConnOf(a) \in DOMAIN conns
    BY <1>0, <2>1 DEF Track, existing, obtained, Goto, file, probe, local, backend
  <2>2. CASE ConnOf(a) \notin DOMAIN conns
    BY <1>0, <2>2 DEF Track, obtained, Put, Goto, file, probe, local, backend
  <2> QED
    BY <2>1, <2>2
<1>2. TypeOK'
  BY <1>1, Callback DEF TypeOK, Placed, Steps, aliases
<1>3. Placed'
  <2>1. /\ pc[a] = "track" /\ pc'[a] \notin Early \union {"def", "defProtocol", "streamUpsert", "open"}
        /\ pc'[a] \in {"peerUpsert", "internProtocol", "done"}
        /\ a \in Conns => pc'[a] \in {"peerUpsert", "done"}
        /\ a \in Wraps => pc'[a] # "done"
        /\ \A b \in Callbacks : b # a => pc'[b] = pc[b]
    BY <1>1, Callback DEF TypeOK, Early
  <2>2. \A b \in Callbacks : pc'[b] = "track" <=> nmu' = b
    BY <1>1, <2>1, Callback DEF Placed, Early
  <2>3. \A w \in Wraps : pc'[w] \notin Early => wconn'[w] \in aliases(OnConn[w])
    BY <1>1, <2>1, Callback DEF Placed, TypeOK, aliases
  <2>4. \A k \in DOMAIN conns' : pc'[conns'[k]] \notin Early
    BY <1>1, <2>1, Callback DEF Placed, TypeOK, aliases
  <2>5. \A k \in Conns : pc'[k] \in Early \union Emitting \union {"done"}
    BY <2>1, Callback DEF Placed, Early, Emitting
  <2>6. \A w \in Wraps : pc'[w] # "done"
    BY <2>1, Callback DEF Placed
  <2>7. \A b \in Callbacks : (pc'[b] = "def" => "transport" \in stringIDs') /\ (pc'[b] = "defProtocol" => "protocol" \in stringIDs')
    BY <1>1, <2>1 DEF Placed
  <2>8. \A w \in DOMAIN streamUpserts' : pc'[w] \in {"streamUpsert", "open"}
    BY <1>1, <2>1, Callback DEF Placed, TypeOK
  <2> QED
    BY <2>2, <2>3, <2>4, <2>5, <2>6, <2>7, <2>8 DEF Placed
<1>4. Departing'
  BY <1>1, Callback DEF Departing, Placed, Early, Leaving, TypeOK, aliases
<1> QED
  BY <1>2, <1>3, <1>4

LEMMA BInvPeerUpsert ==
  ASSUME BInv, raced' \in BOOLEAN, NEW a \in Callbacks, EmitPeerUpsert(a)
  PROVE  BInv'
<1> USE DEF BInv
<1>1. /\ pc[a] = "peerUpsert" /\ pc' = [pc EXCEPT ![a] = "connUpsert"]
      /\ DOMAIN peers' = DOMAIN peers \union {Peer(a)}
      /\ UNCHANGED <<down, snapshotLoop, snapshots, nmu, conns, streamUpserts, wconn, leaving, stringIDs, strings, connPeer, streams>>
  BY StepOrder, Callback DEF EmitPeerUpsert, PeerUpsert, Put, Goto, file, probe, local, backend
<1>2. TypeOK'
  BY <1>1, Callback DEF TypeOK, Placed, Steps, aliases
<1>3. Placed'
  <2>1. pc[a] = "peerUpsert" /\ pc'[a] = "connUpsert" /\ \A b \in Callbacks : b # a => pc'[b] = pc[b]
    BY <1>1 DEF TypeOK
  <2>2. \A b \in Callbacks : pc'[b] = "track" <=> nmu' = b
    BY <1>1, <2>1 DEF Placed
  <2>3. \A w \in Wraps : pc'[w] \notin Early => wconn'[w] \in aliases(OnConn[w])
    BY <1>1, <2>1, Callback DEF Placed, Early
  <2>4. \A k \in DOMAIN conns' : pc'[conns'[k]] \notin Early
    BY <1>1, <2>1, Callback DEF Placed, TypeOK, Early
  <2>5. \A k \in Conns : pc'[k] \in Early \union Emitting \union {"done"}
    BY <2>1, Callback DEF Placed, Early, Emitting
  <2>6. \A w \in Wraps : pc'[w] # "done"
    BY <2>1, Callback DEF Placed
  <2>7. \A b \in Callbacks : (pc'[b] = "def" => "transport" \in stringIDs') /\ (pc'[b] = "defProtocol" => "protocol" \in stringIDs')
    BY <1>1, <2>1 DEF Placed
  <2>8. \A w \in DOMAIN streamUpserts' : pc'[w] \in {"streamUpsert", "open"}
    BY <1>1, <2>1, Callback DEF Placed, TypeOK
  <2> QED
    BY <2>2, <2>3, <2>4, <2>5, <2>6, <2>7, <2>8 DEF Placed
<1>4. Departing'
  BY <1>1, Callback DEF Departing, Placed, Early, Leaving, TypeOK, aliases
<1> QED
  BY <1>2, <1>3, <1>4

LEMMA BInvConnectionUpsert ==
  ASSUME BInv, raced' \in BOOLEAN, NEW a \in Callbacks, EmitConnectionUpsert(a)
  PROVE  BInv'
<1> USE DEF BInv
<1>1. /\ pc[a] = "connUpsert"
      /\ pc' = [pc EXCEPT ![a] = IF a \in Wraps THEN "internProtocol" ELSE "done"]
      /\ DOMAIN peers' = DOMAIN peers
      /\ DOMAIN connPeer' \subseteq DOMAIN connPeer \union {a}
      /\ UNCHANGED <<down, snapshotLoop, snapshots, nmu, conns, streamUpserts, wconn, leaving, stringIDs, strings, streams>>
  BY StepOrder, Callback DEF EmitConnectionUpsert, UpsertConnection, Put, Goto, file, probe, local, backend
<1>2. TypeOK'
  BY <1>1, Callback DEF TypeOK, Placed, Steps, aliases
<1>3. Placed'
  BY <1>1, Callback DEF Placed, Early, TypeOK, aliases
<1>4. Departing'
  BY <1>1, Callback DEF Departing, Placed, Early, Leaving, TypeOK, aliases
<1> QED
  BY <1>2, <1>3, <1>4

LEMMA BInvWrapStream ==
  ASSUME BInv, raced' \in BOOLEAN, NEW w \in Wraps, WrapStream(w)
  PROVE  BInv'
<1> USE DEF BInv
<1>1. /\ nmu = None /\ pc[w] = "start"
      /\ wconn' = IF OnConn[w] \in DOMAIN conns THEN [wconn EXCEPT ![w] = conns[OnConn[w]]] ELSE wconn
      /\ pc' = [pc EXCEPT ![w] = IF OnConn[w] \in DOMAIN conns THEN "internProtocol" ELSE "intern"]
      /\ UNCHANGED <<down, snapshotLoop, snapshots, nmu, conns, streamUpserts, leaving, stringIDs, strings, peers, connPeer, streams>>
  BY StepOrder, Callback DEF WrapStream, Goto, file, probe, local, backend
<1>2. TypeOK'
  BY <1>1, Callback DEF TypeOK, Placed, Steps, aliases
<1>3. Placed'
  BY <1>1, Callback DEF Placed, Early, TypeOK, aliases
<1>4. Departing'
  BY <1>1, Callback DEF Departing, Placed, Early, Leaving, TypeOK, aliases
<1> QED
  BY <1>2, <1>3, <1>4

LEMMA BInvAddStream ==
  ASSUME BInv, raced' \in BOOLEAN, NEW w \in Wraps, AddStreamUpsert(w)
  PROVE  BInv'
<1> USE DEF BInv
<1>1. /\ nmu = None /\ pc[w] = "add" /\ pc' = [pc EXCEPT ![w] = "streamUpsert"]
      /\ DOMAIN streamUpserts' = DOMAIN streamUpserts \union {w} /\ streamUpserts'[w] = wconn[w]
      /\ \A x \in DOMAIN streamUpserts : x # w => streamUpserts'[x] = streamUpserts[x]
      /\ UNCHANGED <<down, snapshotLoop, snapshots, nmu, conns, wconn, leaving, stringIDs, strings, peers, connPeer, streams>>
  BY StepOrder, Callback DEF AddStreamUpsert, Put, Goto, file, probe, local, backend
<1>2. TypeOK'
  <2>1. pc' \in [Callbacks -> Steps]
    BY <1>1 DEF TypeOK, Steps
  <2>2. wconn[w] \in {a \in Callbacks : ConnOf(a) = OnConn[w]}
    BY <1>1 DEF Placed, Early, aliases
  <2> QED
    BY <1>1, <2>1, <2>2 DEF TypeOK
<1>3. Placed'
  BY <1>1, Callback DEF Placed, Early, TypeOK, aliases
<1>4. Departing'
  <2>1. /\ pc'[w] = "streamUpsert" /\ \A b \in Callbacks : b # w => pc'[b] = pc[b]
        /\ w \notin Conns
    BY <1>1, Callback DEF TypeOK
  <2>2. \A j \in Conns : w \notin leaving[j].streams
    BY <1>1 DEF Departing
  <2>3. \A j \in Conns : down[j] # "up" => pc'[j] = "done"
    BY <2>1, Callback DEF Departing
  <2>4. \A j \in Conns : down[j] \in Leaving =>
          leaving[j].alias \in aliases(j) /\ pc'[leaving[j].alias] \notin Early
    BY <2>1 DEF Departing, Early, aliases
  <2>5. \A j \in Conns : \A v \in leaving[j].streams :
          /\ OnConn[v] = j /\ v \notin DOMAIN streamUpserts'
          /\ pc'[v] \in {"streamUpsert", "open", "closing", "closed"}
    <3>1. \A j \in Conns : leaving[j].streams \subseteq Callbacks
      BY Callback DEF TypeOK
    <3> QED
      BY <1>1, <2>1, <2>2, <3>1 DEF Departing
  <2> QED
    BY <1>1, <2>3, <2>4, <2>5 DEF Departing
<1> QED
  BY <1>2, <1>3, <1>4

LEMMA BInvStreamUpsert ==
  ASSUME BInv, raced' \in BOOLEAN, NEW w \in Wraps, EmitStreamUpsert(w)
  PROVE  BInv'
<1> USE DEF BInv
<1>1. /\ pc[w] = "streamUpsert" /\ pc' = [pc EXCEPT ![w] = "open"]
      /\ DOMAIN streams' = DOMAIN streams \union {w}
      /\ UNCHANGED <<down, snapshotLoop, snapshots, nmu, conns, streamUpserts, wconn, leaving, stringIDs, strings, peers, connPeer>>
  BY StepOrder, Callback DEF EmitStreamUpsert, StreamUpsert, Put, Goto, file, probe, local, backend
<1>2. TypeOK'
  BY <1>1, Callback DEF TypeOK, Placed, Steps, aliases
<1>3. Placed'
  BY <1>1, Callback DEF Placed, Early, TypeOK, aliases
<1>4. Departing'
  BY <1>1, Callback DEF Departing, Placed, Early, Leaving, TypeOK, aliases
<1> QED
  BY <1>2, <1>3, <1>4

LEMMA BInvCloseStream ==
  ASSUME BInv, raced' \in BOOLEAN, NEW w \in Wraps, CloseStream(w)
  PROVE  BInv'
<1> USE DEF BInv
<1>1. /\ pc[w] = "open" /\ pc' = [pc EXCEPT ![w] = "closing"]
      /\ DOMAIN streamUpserts' = DOMAIN streamUpserts \ {w} /\ \A x \in DOMAIN streamUpserts' : streamUpserts'[x] = streamUpserts[x]
      /\ UNCHANGED <<down, snapshotLoop, snapshots, nmu, conns, wconn, leaving, stringIDs, strings, peers, connPeer, streams>>
  BY StepOrder, Callback DEF CloseStream, Drop, Restrict, Goto, file, probe, local, backend
<1>2. TypeOK'
  BY <1>1, Callback DEF TypeOK, Placed, Steps, aliases
<1>3. Placed'
  BY <1>1, Callback DEF Placed, Early, TypeOK, aliases
<1>4. Departing'
  BY <1>1, Callback DEF Departing, Placed, Early, Leaving, TypeOK, aliases
<1> QED
  BY <1>2, <1>3, <1>4

LEMMA BInvClosed ==
  ASSUME BInv, raced' \in BOOLEAN, NEW w \in Wraps, EmitClosed(w)
  PROVE  BInv'
<1> USE DEF BInv
<1>1. /\ pc[w] = "closing" /\ pc' = [pc EXCEPT ![w] = "closed"]
      /\ DOMAIN streams' = DOMAIN streams \ {w}
      /\ UNCHANGED <<down, snapshotLoop, snapshots, nmu, conns, streamUpserts, wconn, leaving, stringIDs, strings, peers, connPeer>>
  BY StepOrder, Callback DEF EmitClosed, StreamClosed, Drop, Restrict, Goto, file, probe, local, backend
<1>2. TypeOK'
  BY <1>1, Callback DEF TypeOK, Placed, Steps, aliases
<1>3. Placed'
  BY <1>1, Callback DEF Placed, Early, TypeOK, aliases
<1>4. Departing'
  BY <1>1, Callback DEF Departing, Placed, Early, Leaving, TypeOK, aliases
<1> QED
  BY <1>2, <1>3, <1>4

LEMMA BInvDisconnected ==
  ASSUME BInv, raced' \in BOOLEAN, NEW k \in Conns, Disconnected(k)
  PROVE  BInv'
<1> USE DEF BInv
<1>1. /\ down[k] = "up" /\ pc[k] = "done"
      /\ DOMAIN conns' = DOMAIN conns \ {k} /\ \A x \in DOMAIN conns' : conns'[x] = conns[x]
      /\ down' = [down EXCEPT ![k] = IF k \in DOMAIN conns THEN "removed" ELSE "done"]
      /\ leaving' = IF k \in DOMAIN conns THEN [leaving EXCEPT ![k].alias = conns[k]] ELSE leaving
      /\ UNCHANGED <<pc, snapshotLoop, snapshots, nmu, streamUpserts, wconn, stringIDs, strings, peers, connPeer, streams>>
  BY StepOrder, Callback DEF Disconnected, Down, Drop, Restrict, Goto, file, probe, local, backend
<1>2. TypeOK'
  <2>1. /\ DOMAIN conns' \subseteq Conns
        /\ \A x \in DOMAIN conns' : conns'[x] \in {a \in Callbacks : ConnOf(a) = x}
    BY <1>1 DEF TypeOK
  <2>2. down' \in [Conns -> {"up", "removed", "closing", "done"}]
    BY <1>1 DEF TypeOK
  <2>3. leaving' \in [Conns -> [alias : Callbacks \union {None}, streams : SUBSET Wraps]]
    BY <1>1 DEF TypeOK
  <2> QED
    BY <1>1, <2>1, <2>2, <2>3 DEF TypeOK
<1>3. Placed'
  BY <1>1, Callback DEF Placed, Early, TypeOK, aliases
<1>4. Departing'
  BY <1>1, Callback DEF Departing, Placed, Early, Leaving, TypeOK, aliases
<1> QED
  BY <1>2, <1>3, <1>4

LEMMA BInvRemoveStreams ==
  ASSUME BInv, raced' \in BOOLEAN, NEW k \in Conns, RemoveStreamsForConn(k)
  PROVE  BInv'
<1> USE DEF BInv
<1>1. /\ down[k] = "removed" /\ down' = [down EXCEPT ![k] = "closing"]
      /\ leaving' = [leaving EXCEPT ![k].streams = {w \in DOMAIN streamUpserts : streamUpserts[w] = leaving[k].alias}]
      /\ DOMAIN streamUpserts' = DOMAIN streamUpserts \ leaving'[k].streams /\ \A x \in DOMAIN streamUpserts' : streamUpserts'[x] = streamUpserts[x]
      /\ UNCHANGED <<pc, snapshotLoop, snapshots, nmu, conns, wconn, stringIDs, strings, peers, connPeer, streams>>
  BY StepOrder, Callback DEF RemoveStreamsForConn, streamsOf, Down, Drop, Restrict, TypeOK, Goto, file, probe, local, backend
<1>2. TypeOK'
  BY <1>1, Callback DEF TypeOK, Placed, Steps, aliases
<1>3. Placed'
  BY <1>1, Callback DEF Placed, Early, TypeOK, aliases
<1>4. Departing'
  BY <1>1, Callback DEF Departing, Placed, Early, Leaving, TypeOK, aliases
<1> QED
  BY <1>2, <1>3, <1>4

LEMMA BInvConnStreamClosed ==
  ASSUME BInv, raced' \in BOOLEAN, NEW k \in Conns, NEW w \in Wraps, EmitConnStreamClosed(k, w)
  PROVE  BInv'
<1> USE DEF BInv
<1>1. /\ down[k] = "closing" /\ w \in leaving[k].streams
      /\ leaving' = [leaving EXCEPT ![k].streams = @ \ {w}]
      /\ DOMAIN streams' = DOMAIN streams \ {w}
      /\ UNCHANGED <<pc, down, snapshotLoop, snapshots, nmu, conns, streamUpserts, wconn, stringIDs, strings, peers, connPeer>>
  BY StepOrder, Callback DEF EmitConnStreamClosed, StreamClosed, Drop, Restrict, Goto, file, probe, local, backend
<1>2. TypeOK'
  BY <1>1, Callback DEF TypeOK, Placed, Steps, aliases
<1>3. Placed'
  BY <1>1, Callback DEF Placed, Early, TypeOK, aliases
<1>4. Departing'
  BY <1>1, Callback DEF Departing, Placed, Early, Leaving, TypeOK, aliases
<1> QED
  BY <1>2, <1>3, <1>4

LEMMA BInvConnectionClosed ==
  ASSUME BInv, raced' \in BOOLEAN, NEW k \in Conns, EmitConnectionClosed(k)
  PROVE  BInv'
<1> USE DEF BInv
<1>1. /\ down[k] = "closing" /\ down' = [down EXCEPT ![k] = "done"]
      /\ leaving' = [leaving EXCEPT ![k] = Gone]
      /\ DOMAIN peers' \subseteq DOMAIN peers
      /\ DOMAIN connPeer' \subseteq DOMAIN connPeer
      /\ UNCHANGED <<pc, snapshotLoop, snapshots, nmu, conns, streamUpserts, wconn, stringIDs, strings, streams>>
  BY StepOrder, Callback DEF EmitConnectionClosed, CloseConnection, Drop, Restrict, Down, Goto, file, probe, local, backend
<1>2. TypeOK'
  BY <1>1, Callback DEF Gone, TypeOK, Placed, Steps, aliases
<1>3. Placed'
  BY <1>1, Callback DEF Placed, Early, TypeOK, aliases
<1>4. Departing'
  <2>1. /\ down'[k] = "done" /\ leaving'[k] = Gone /\ Gone.streams = {}
        /\ \A j \in Conns : j # k => down'[j] = down[j] /\ leaving'[j] = leaving[j]
    BY <1>1 DEF TypeOK, Gone
  <2>2. \A j \in Conns : down'[j] # "up" => pc'[j] = "done"
    <3>1. pc' = pc /\ pc[k] = "done"
      BY <1>1 DEF Departing
    <3>2. \A j \in Conns : down[j] # "up" => pc[j] = "done"
      BY DEF Departing
    <3> QED
      BY <2>1, <3>1, <3>2
  <2>3. \A j \in Conns : down'[j] # "closing" => leaving'[j].streams = {}
    BY <2>1 DEF Departing
  <2>4. \A j \in Conns : down'[j] \notin Leaving => leaving'[j] = Gone
    BY <2>1 DEF Departing
  <2>5. \A j \in Conns : down'[j] \in Leaving =>
          leaving'[j].alias \in aliases(j) /\ pc'[leaving'[j].alias] \notin Early
    BY <1>1, <2>1 DEF Departing, Leaving
  <2>6. \A j \in Conns : \A w \in leaving'[j].streams :
          /\ OnConn[w] = j /\ w \notin DOMAIN streamUpserts'
          /\ pc'[w] \in {"streamUpsert", "open", "closing", "closed"}
    BY <1>1, <2>1 DEF Departing
  <2> QED
    BY <2>2, <2>3, <2>4, <2>5, <2>6 DEF Departing
<1> QED
  BY <1>2, <1>3, <1>4

LEMMA BInvSnapshot ==
  ASSUME BInv, raced' \in BOOLEAN, SnapshotLock \/ WriteSnapshotLocked
  PROVE  BInv'
<1> USE DEF BInv
<1>1. /\ snapshotLoop' \in {"idle", "locked"} /\ snapshots' \in 0..MaxSnapshots
      /\ UNCHANGED <<pc, down, nmu, conns, streamUpserts, wconn, leaving, stringIDs, strings, peers, connPeer, streams>>
  BY TrackingAssumption DEF SnapshotLock, WriteSnapshotLocked, TypeOK, file, probe, local, backend
<1>2. TypeOK'
  BY <1>1 DEF TypeOK
<1>3. Placed'
  BY <1>1 DEF Placed
<1>4. Departing'
  BY <1>1 DEF Departing
<1> QED
  BY <1>2, <1>3, <1>4

(* The two calls of Intern and the emits of their StringDefs. *)
Interning(a) ==
  \/ Intern(a, "transport", "intern", "def", "lock")
  \/ EmitStringDef(a, "transport", "def", "lock")
  \/ a \in Wraps /\ Intern(a, "protocol", "internProtocol", "defProtocol", "add")
  \/ a \in Wraps /\ EmitStringDef(a, "protocol", "defProtocol", "add")

(* The steps one by one. *)
LEMMA Actions ==
  ASSUME Step
  PROVE  \/ \E k \in Conns : Connected(k) \/ Disconnected(k)
         \/ \E k \in Conns : RemoveStreamsForConn(k) \/ EmitConnectionClosed(k)
         \/ \E k \in Conns : \E w \in Wraps : EmitConnStreamClosed(k, w)
         \/ \E a \in Callbacks : Interning(a) \/ Lock(a) \/ Track(a)
         \/ \E a \in Callbacks : EmitPeerUpsert(a) \/ EmitConnectionUpsert(a)
         \/ \E w \in Wraps : WrapStream(w) \/ AddStreamUpsert(w) \/ EmitStreamUpsert(w)
         \/ \E w \in Wraps : CloseStream(w) \/ EmitClosed(w)
         \/ SnapshotLock \/ WriteSnapshotLocked
<1>1. \A a \in Callbacks : upsertConn(a) =>
        Interning(a) \/ Lock(a) \/ Track(a) \/ EmitPeerUpsert(a) \/ EmitConnectionUpsert(a)
  BY StepOrder DEF upsertConn, Interning
<1>2. CASE \E k \in Conns : Connected(k) \/ upsertConn(k) \/ Disconnected(k) \/ disconnect(k)
  BY <1>1, <1>2, Callback DEF disconnect
<1>3. CASE \E w \in Wraps : WrapStream(w) \/ wrap(w) \/ CloseStream(w)
  <2>1. \A w \in Wraps : wrap(w) =>
          upsertConn(w) \/ Interning(w) \/ AddStreamUpsert(w) \/ EmitStreamUpsert(w) \/ EmitClosed(w)
    BY DEF wrap, Interning
  <2> QED
    BY <1>1, <1>3, <2>1, Callback
<1> QED
  BY <1>2, <1>3 DEF Step

LEMMA BInvNext ==
  ASSUME BInv, [Next]_vars
  PROVE  BInv'
<1>1. CASE UNCHANGED vars
  <2>1. UNCHANGED <<pc, down, snapshotLoop, snapshots, nmu, conns, streamUpserts, wconn, leaving, stringIDs, strings, peers, connPeer, streams, raced>>
    BY <1>1 DEF vars, file, probe, local, backend
  <2> QED
    BY <2>1 DEF BInv, TypeOK, Placed, Departing, aliases
<1>2. CASE Next
  <2>1. raced' \in BOOLEAN
    BY <1>2, Zenon DEF Next
  <2>2. ASSUME NEW k \in Conns, Connected(k) \/ Disconnected(k)
        PROVE  BInv'
    BY <2>1, <2>2, BInvConnected, BInvDisconnected
  <2>3. ASSUME NEW k \in Conns, RemoveStreamsForConn(k) \/ EmitConnectionClosed(k)
        PROVE  BInv'
    BY <2>1, <2>3, BInvRemoveStreams, BInvConnectionClosed
  <2>4. ASSUME NEW k \in Conns, NEW w \in Wraps, EmitConnStreamClosed(k, w)
        PROVE  BInv'
    BY <2>1, <2>4, BInvConnStreamClosed
  <2>5. ASSUME NEW a \in Callbacks, Interning(a)
        PROVE  BInv'
    <3>1. /\ "transport" \in Strings /\ "protocol" \in Strings
          /\ "def" \in Steps /\ "lock" \in Steps /\ "defProtocol" \in Steps /\ "add" \in Steps
      BY DEF Strings, Steps
    <3>2. CASE Intern(a, "transport", "intern", "def", "lock")
      BY <2>1, <3>1, <3>2, BInvIntern
    <3>3. CASE EmitStringDef(a, "transport", "def", "lock")
      BY <2>1, <3>1, <3>3, BInvStringDef
    <3>4. CASE a \in Wraps /\ Intern(a, "protocol", "internProtocol", "defProtocol", "add")
      BY <2>1, <3>1, <3>4, BInvIntern
    <3>5. CASE a \in Wraps /\ EmitStringDef(a, "protocol", "defProtocol", "add")
      BY <2>1, <3>1, <3>5, BInvStringDef
    <3> QED
      BY <2>5, <3>2, <3>3, <3>4, <3>5 DEF Interning
  <2>6. ASSUME NEW a \in Callbacks, Lock(a) \/ Track(a)
        PROVE  BInv'
    BY <2>1, <2>6, BInvLock, BInvTrack
  <2>7. ASSUME NEW a \in Callbacks, EmitPeerUpsert(a) \/ EmitConnectionUpsert(a)
        PROVE  BInv'
    BY <2>1, <2>7, BInvPeerUpsert, BInvConnectionUpsert
  <2>8. ASSUME NEW w \in Wraps, WrapStream(w) \/ AddStreamUpsert(w) \/ EmitStreamUpsert(w)
        PROVE  BInv'
    BY <2>1, <2>8, BInvWrapStream, BInvAddStream, BInvStreamUpsert
  <2>9. ASSUME NEW w \in Wraps, CloseStream(w) \/ EmitClosed(w)
        PROVE  BInv'
    BY <2>1, <2>9, BInvCloseStream, BInvClosed
  <2>10. ASSUME SnapshotLock \/ WriteSnapshotLocked
         PROVE  BInv'
    BY <2>1, <2>10, BInvSnapshot
  <2> QED
    BY <1>2, <2>2, <2>3, <2>4, <2>5, <2>6, <2>7, <2>8, <2>9, <2>10, Actions DEF Next
<1> QED
  BY <1>1, <1>2

LEMMA BInvHolds == Spec => []BInv
<1>1. Init => BInv
  BY BInvInit
<1>2. BInv /\ [Next]_vars => BInv'
  BY BInvNext
<1> QED
  BY <1>1, <1>2, PTL DEF Spec

(* The maps of the probe and of the backend have their types: an alias of  *)
(* the maps is one of a callback about the connection it stands for, and   *)
(* the backend has no string that the probe has not interned.              *)
THEOREM TrackingTypeCorrect == Spec => []TypeOK
<1>1. BInv => TypeOK
  BY DEF BInv
<1> QED
  BY <1>1, BInvHolds, PTL
=============================================================================
