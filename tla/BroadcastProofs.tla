-------------------------- MODULE BroadcastProofs ---------------------------
(***************************************************************************)
(* Proofs about Broadcast, for any number of workers, slots, connections   *)
(* and updates (NewestIsKept: for one worker).                             *)
(*                                                                         *)
(* GreetingIsAlone is not inductive: a flush writes to the clients it took *)
(* earlier, so Unregistered follows a connection from s.clients into the   *)
(* targets of every flush that is under way.                               *)
(***************************************************************************)
EXTENDS Broadcast, TLAPS

(* A flush writes to one of its targets. *)
Targeted == \A f \in Flights : flights[f].at \in flights[f].targets \union {None}

Unregistered ==
  \A c \in Conns : phase[c] \in {"new", "upgraded", "greeting", "greeted"} =>
    c \notin clients /\ \A f \in Flights : c \notin flights[f].targets

(* A worker holds one summary at most, and it is the newest of its slot. *)
HeldIsNewest ==
  \A w \in Workers : held[w] = {} \/ \E s \in Slots : held[w] = {<<s, version[s]>>}

IInv == TypeOK /\ Targeted /\ Unregistered /\ PendingIsScheduled
NInv == IInv /\ HeldIsNewest /\ NewestIsKept

LEMMA EmptyBatch == <<>> \in Batches /\ DOMAIN <<>> = {}
<1>1. <<>> = [x \in {} |-> 0]
  OBVIOUS
<1>2. [x \in {} |-> 0] \in [{} -> Nat]
  OBVIOUS
<1> QED
  BY <1>1, <1>2 DEF Batches

LEMMA IdleFacts ==
  Idle \in Flight /\ Idle.targets = {} /\ Idle.at = None /\ Idle.batch = <<>>
BY EmptyBatch DEF Idle, Flight

LEMMA InitIInv == Init => IInv
<1> SUFFICES ASSUME Init PROVE IInv
  OBVIOUS
<1>1. TypeOK
  BY EmptyBatch, IdleFacts DEF Init, TypeOK, Phases
<1>2. Targeted /\ Unregistered
  BY IdleFacts DEF Init, Targeted, Unregistered
<1>3. PendingIsScheduled
  BY DEF Init, PendingIsScheduled
<1> QED
  BY <1>1, <1>2, <1>3 DEF IInv

LEMMA UpdateIInv ==
  ASSUME IInv, NEW w \in Workers, NEW s \in Slots, Update(w, s)
  PROVE  IInv'
<1> USE DEF IInv
<1>1. /\ version' = [version EXCEPT ![s] = @ + 1]
      /\ held' = [held EXCEPT ![w] = {<<s, version'[s]>>}]
      /\ UNCHANGED <<pendingUpdates, flushScheduled, timer, flights, phase, clients, taken>>
      /\ UNCHANGED <<open, panicked, sent>>
  BY DEF Update, pending, sockets
<1>2. version' \in [Slots -> Nat] /\ version'[s] \in Nat
  BY <1>1 DEF TypeOK
<1>3. held' \in [Workers -> SUBSET (Slots \X Nat)]
  BY <1>1, <1>2 DEF TypeOK
<1>4. TypeOK'
  BY <1>1, <1>2, <1>3 DEF TypeOK
<1> QED
  BY <1>1, <1>4 DEF Targeted, Unregistered, PendingIsScheduled

(* Put keeps a batch a batch. *)
LEMMA PutBatch ==
  ASSUME NEW b \in Batches, NEW s \in Slots, NEW v \in Nat
  PROVE  Put(b, s, v) \in Batches
<1>1. PICK S \in SUBSET Slots : b \in [S -> Nat]
  BY DEF Batches
<1>2. Put(b, s, v) \in [S \union {s} -> Nat]
  BY <1>1 DEF Put
<1>3. S \union {s} \in SUBSET Slots
  OBVIOUS
<1> QED
  BY <1>2, <1>3 DEF Batches

LEMMA BroadcastIInv ==
  ASSUME IInv, NEW w \in Workers, broadcastUpdate(w)
  PROVE  IInv'
<1> USE DEF IInv
<1>1. PICK u \in held[w] :
      /\ pendingUpdates' = Put(pendingUpdates, u[1], u[2])
      /\ flushScheduled' = TRUE
      /\ timer' = (timer \/ ~flushScheduled)
      /\ held' = [held EXCEPT ![w] = {}]
      /\ UNCHANGED <<version, flights, phase, clients, taken, open, panicked, sent>>
  BY DEF broadcastUpdate, sockets
<1>2. u[1] \in Slots /\ u[2] \in Nat
  BY DEF TypeOK
<1>3. pendingUpdates' \in Batches
  BY <1>1, <1>2, PutBatch DEF TypeOK
<1>4. timer' = TRUE
  BY <1>1 DEF PendingIsScheduled, TypeOK
<1>5. TypeOK'
  BY <1>1, <1>3, <1>4 DEF TypeOK
<1> QED
  BY <1>1, <1>4, <1>5 DEF Targeted, Unregistered, PendingIsScheduled

LEMMA FlushIInv ==
  ASSUME IInv, NEW f \in Flights, flushPendingUpdates(f)
  PROVE  IInv'
<1> USE DEF IInv
<1> DEFINE new == [batch |-> pendingUpdates, targets |-> clients, at |-> None]
<1>1. /\ flights' = [flights EXCEPT ![f] = new]
      /\ taken' = [s \in Slots |-> IF s \in DOMAIN pendingUpdates
                                   THEN pendingUpdates[s] ELSE taken[s]]
      /\ pendingUpdates' = <<>> /\ flushScheduled' = FALSE /\ timer' = FALSE
      /\ UNCHANGED <<version, held, phase, clients, open, panicked, sent>>
  BY DEF flushPendingUpdates, sockets
<1>2. new \in Flight /\ new.targets = clients /\ new.at = None
  BY DEF Flight, TypeOK
<1>3. taken' \in [Slots -> Nat]
  <2>1. \A s \in DOMAIN pendingUpdates : pendingUpdates[s] \in Nat
    BY DEF TypeOK, Batches
  <2> QED
    BY <1>1, <2>1 DEF TypeOK
<1> HIDE DEF new
<1>4. flights' \in [Flights -> Flight]
  BY <1>1, <1>2 DEF TypeOK
<1>5. TypeOK'
  BY <1>1, <1>3, <1>4, EmptyBatch DEF TypeOK
<1>6. Targeted' /\ Unregistered'
  BY <1>1, <1>2 DEF TypeOK, Targeted, Unregistered
<1>7. PendingIsScheduled'
  BY <1>1 DEF PendingIsScheduled
<1> QED
  BY <1>5, <1>6, <1>7

(* The steps of a flush keep to the targets it took, and add none. *)
LEMMA WriteFacts ==
  ASSUME IInv, NEW f \in Flights, Write(f)
  PROVE  \E n \in Flight :
           /\ flights' = [flights EXCEPT ![f] = n]
           /\ n.targets \subseteq flights[f].targets
           /\ n.at \in n.targets \union {None}
<1> USE DEF IInv
<1>1. flights[f] \in Flight
  BY DEF TypeOK
<1>2. CASE EndWrite(f)
  <2> DEFINE c == flights[f].at
             t == flights[f].targets \ {c}
             n == IF t = {} THEN Idle ELSE [flights[f] EXCEPT !.targets = t, !.at = None]
  <2>1. flights' = [flights EXCEPT ![f] = n]
    BY <1>2 DEF EndWrite
  <2>2. t \subseteq Conns
    BY <1>1 DEF Flight
  <2>3. n \in Flight /\ n.targets \subseteq flights[f].targets /\ n.at = None
    BY <1>1, <2>2, IdleFacts DEF Flight
  <2> QED
    BY <2>1, <2>3
<1>3. CASE EndFlush(f)
  BY <1>3, IdleFacts DEF EndFlush
<1>4. ASSUME NEW c \in Conns, BeginWrite(f, c)
      PROVE  \E n \in Flight :
               /\ flights' = [flights EXCEPT ![f] = n]
               /\ n.targets \subseteq flights[f].targets
               /\ n.at \in n.targets \union {None}
  <2> DEFINE n == [flights[f] EXCEPT !.at = c]
  <2>1. flights' = [flights EXCEPT ![f] = n] /\ c \in flights[f].targets
    BY <1>4 DEF BeginWrite
  <2>2. n \in Flight /\ n.targets = flights[f].targets /\ n.at = c
    BY <1>1 DEF Flight
  <2> QED
    BY <2>1, <2>2
<1> QED
  BY <1>2, <1>3, <1>4 DEF Write

LEMMA WriteIInv ==
  ASSUME IInv, NEW f \in Flights, Write(f)
  PROVE  IInv'
<1> USE DEF IInv
<1>1. PICK n \in Flight :
        /\ flights' = [flights EXCEPT ![f] = n]
        /\ n.targets \subseteq flights[f].targets
        /\ n.at \in n.targets \union {None}
  BY WriteFacts
<1>2. /\ UNCHANGED <<version, held, pendingUpdates, flushScheduled, timer, phase, taken>>
      /\ clients' \subseteq clients
  BY DEF Write, EndWrite, EndFlush, BeginWrite, pending, sockets
<1>3. flights' \in [Flights -> Flight]
  BY <1>1 DEF TypeOK
<1>4. open' = open /\ panicked' \in BOOLEAN
  BY DEF Write, EndWrite, EndFlush, BeginWrite, sockets, TypeOK
<1>5. sent' \in [Conns -> [Slots -> Nat]]
  <2>1. CASE sent' = sent
    BY <2>1 DEF TypeOK
  <2>2. CASE EndWrite(f) /\ sent' # sent
    <3> DEFINE b == flights[f].batch
               c == flights[f].at
    <3>1. c \in open /\ sent' = [sent EXCEPT ![c] = [s \in Slots |->
            IF s \in DOMAIN b THEN Larger(@[s], b[s]) ELSE @[s]]]
      BY <2>2 DEF EndWrite
    <3>2. b \in Batches
      BY DEF TypeOK, Flight
    <3>3. \A s \in DOMAIN b : b[s] \in Nat
      BY <3>2 DEF Batches
    <3> HIDE DEF b, c
    <3>4. c \in Conns /\ sent[c] \in [Slots -> Nat]
      BY <3>1 DEF TypeOK
    <3>5. [s \in Slots |-> IF s \in DOMAIN b THEN Larger(sent[c][s], b[s]) ELSE sent[c][s]]
            \in [Slots -> Nat]
      BY <3>3, <3>4 DEF Larger
    <3> QED
      BY <3>1, <3>4, <3>5 DEF TypeOK
  <2> QED
    BY <2>1, <2>2 DEF Write, EndFlush, BeginWrite
<1>6. TypeOK'
  BY <1>2, <1>3, <1>4, <1>5 DEF TypeOK
<1>7. Targeted' /\ Unregistered'
  BY <1>1, <1>2 DEF TypeOK, Targeted, Unregistered
<1> QED
  BY <1>2, <1>6, <1>7 DEF PendingIsScheduled

(* A connection enters s.clients only in the step that ends its greeting   *)
(* phase.                                                                  *)
LEMMA ServeIInv ==
  ASSUME IInv, NEW c \in Conns, Serve(c) \/ Cut(c)
  PROVE  IInv'
<1> USE DEF IInv
<1>1. /\ UNCHANGED <<version, held, pendingUpdates, flushScheduled, timer, flights, taken>>
      /\ sent' = sent
  BY DEF Serve, Upgrade, BeginGreeting, EndGreeting, Register, ReadFails, Cut, vars, pending
<1>2. \/ \E p \in {"upgraded", "greeting", "greeted"} :
           /\ phase[c] \in {"new", "upgraded", "greeting"}
           /\ phase' = [phase EXCEPT ![c] = p] /\ clients' = clients
      \/ /\ phase' = [phase EXCEPT ![c] = "serving"]
         /\ clients' = clients \union {c}
      \/ /\ phase' = [phase EXCEPT ![c] = "done"]
         /\ clients' = clients \ {c}
      \/ phase' = phase /\ clients' = clients
  BY DEF Serve, Step, Upgrade, BeginGreeting, EndGreeting, Register, ReadFails, Cut, vars, sockets
<1>3. open' \subseteq Conns /\ panicked' \in BOOLEAN
  BY DEF Serve, Upgrade, BeginGreeting, EndGreeting, Register, ReadFails, Cut, vars, sockets,
     TypeOK
<1>4. phase' \in [Conns -> Phases] /\ clients' \subseteq Conns
  BY <1>2 DEF TypeOK, Phases
<1>5. TypeOK'
  BY <1>1, <1>3, <1>4 DEF TypeOK
<1>6. Unregistered'
  BY <1>1, <1>2 DEF TypeOK, Unregistered
<1> QED
  BY <1>1, <1>5, <1>6 DEF Targeted, PendingIsScheduled

LEMMA StutterIInv == ASSUME IInv, UNCHANGED vars PROVE IInv'
BY DEF IInv, TypeOK, Targeted, Unregistered, PendingIsScheduled, vars, pending, sockets

LEMMA StepIInv == IInv /\ [Next]_vars => IInv'
BY UpdateIInv, BroadcastIInv, FlushIInv, WriteIInv, ServeIInv, StutterIInv DEF Next

(* The state of the server stays well formed, whatever the goroutines of   *)
(* the flushes, of handleWS and of the processor do.                       *)
THEOREM BroadcastTypes == Spec => []TypeOK
<1>1. IInv => TypeOK
  BY DEF IInv
<1> QED
  BY InitIInv, StepIInv, <1>1, PTL DEF Spec

(* No update waits for a flush that nobody has scheduled, for any number   *)
(* of workers calling broadcastUpdate while the timer fires.               *)
THEOREM NoLostWakeup == Spec => []PendingIsScheduled
<1>1. IInv => PendingIsScheduled
  BY DEF IInv
<1> QED
  BY InitIInv, StepIInv, <1>1, PTL DEF Spec

(* No flush ever writes to a connection whose snapshot handleWS is still   *)
(* writing, however many flushes are under way.                            *)
THEOREM SnapshotHasNoRival == Spec => []GreetingIsAlone
<1>1. IInv => GreetingIsAlone
  <2> SUFFICES ASSUME IInv, NEW c \in Conns, NEW f \in Flights, phase[c] = "greeting"
               PROVE  flights[f].at # c
    BY DEF GreetingIsAlone
  <2>1. c \notin flights[f].targets
    BY DEF IInv, Unregistered
  <2>2. flights[f].at \in flights[f].targets \union {None}
    BY DEF IInv, Targeted
  <2> QED
    BY <2>1, <2>2, BroadcastAssumption DEF None
<1> QED
  BY InitIInv, StepIInv, <1>1, PTL DEF Spec

(* With one worker per source, the newest summary of a slot is never       *)
(* replaced by an older one before a flush takes it.                       *)
THEOREM OneWorkerKeepsNewest ==
  ASSUME NEW only, Workers = {only}
  PROVE  Spec => []NewestIsKept
<1>1. Init => NInv
  <2> SUFFICES ASSUME Init PROVE HeldIsNewest /\ NewestIsKept
    BY InitIInv DEF NInv
  <2> QED
    BY DEF Init, HeldIsNewest, NewestIsKept
<1>2. ASSUME NInv, [Next]_vars PROVE NInv'
  <2>1. IInv' /\ IInv
    BY <1>2, StepIInv DEF NInv
  <2>2. ASSUME NEW w \in Workers, NEW s \in Slots, Update(w, s)
        PROVE  HeldIsNewest' /\ NewestIsKept'
    <3>1. /\ held[w] = {} /\ version' = [version EXCEPT ![s] = @ + 1]
          /\ held' = [held EXCEPT ![w] = {<<s, version'[s]>>}]
          /\ UNCHANGED <<pendingUpdates, taken>>
      BY <2>2 DEF Update, pending
    <3>2. held'[w] = {<<s, version'[s]>>} /\ \A x \in Slots : x # s => version'[x] = version[x]
      BY <2>1, <3>1 DEF IInv, TypeOK
    <3>3. HeldIsNewest'
      BY <3>2 DEF HeldIsNewest
    <3>4. NewestIsKept'
      <4> SUFFICES ASSUME NEW x \in Slots, version'[x] > 0
                   PROVE  \/ \E v \in Workers : <<x, version'[x]>> \in held'[v]
                          \/ x \in DOMAIN pendingUpdates /\ pendingUpdates[x] = version'[x]
                          \/ x \notin DOMAIN pendingUpdates /\ taken[x] = version'[x]
        BY <3>1 DEF NewestIsKept
      <4>1. CASE x = s
        BY <3>2, <4>1
      <4>2. CASE x # s
        BY <1>2, <3>1, <3>2, <4>2 DEF NInv, NewestIsKept
      <4> QED
        BY <4>1, <4>2
    <3> QED
      BY <3>3, <3>4
  <2>3. ASSUME NEW w \in Workers, broadcastUpdate(w)
        PROVE  HeldIsNewest' /\ NewestIsKept'
    <3>1. PICK u \in held[w] :
            /\ pendingUpdates' = Put(pendingUpdates, u[1], u[2])
            /\ held' = [held EXCEPT ![w] = {}]
            /\ UNCHANGED <<version, taken>>
      BY <2>3 DEF broadcastUpdate
    <3>2. \A v \in Workers : held'[v] = {}
      BY <2>1, <3>1 DEF IInv, TypeOK
    <3>3. PICK s \in Slots : held[w] = {<<s, version[s]>>}
      BY <1>2 DEF NInv, HeldIsNewest
    <3>4. /\ DOMAIN pendingUpdates' = DOMAIN pendingUpdates \union {s}
          /\ pendingUpdates'[s] = version[s]
          /\ \A x \in DOMAIN pendingUpdates : x # s => pendingUpdates'[x] = pendingUpdates[x]
      <4>1. u[1] = s /\ u[2] = version[s]
        BY <3>3
      <4> QED
        BY <3>1, <4>1 DEF Put
    <3>5. \A x \in Slots : x # s => \A v \in Workers : <<x, version[x]>> \notin held[v]
      BY <3>3
    <3>6. NewestIsKept'
      BY <1>2, <3>1, <3>4, <3>5 DEF NInv, NewestIsKept
    <3> QED
      BY <3>2, <3>6 DEF HeldIsNewest
  <2>4. ASSUME NEW f \in Flights, flushPendingUpdates(f)
        PROVE  HeldIsNewest' /\ NewestIsKept'
    <3>1. /\ taken' = [s \in Slots |-> IF s \in DOMAIN pendingUpdates
                                       THEN pendingUpdates[s] ELSE taken[s]]
          /\ pendingUpdates' = <<>> /\ UNCHANGED <<version, held>>
      BY <2>4 DEF flushPendingUpdates
    <3>2. NewestIsKept'
      BY <1>2, <3>1, EmptyBatch DEF NInv, NewestIsKept
    <3> QED
      BY <1>2, <3>1, <3>2 DEF NInv, HeldIsNewest
  <2>5. ASSUME UNCHANGED <<version, held, pendingUpdates, taken>>
        PROVE  HeldIsNewest' /\ NewestIsKept'
    BY <1>2, <2>5 DEF NInv, HeldIsNewest, NewestIsKept
  <2>6. ASSUME NEW f \in Flights, Write(f)
        PROVE  UNCHANGED <<version, held, pendingUpdates, taken>>
    BY <2>6 DEF Write, EndWrite, EndFlush, BeginWrite, pending
  <2>7. ASSUME NEW c \in Conns, Serve(c) \/ Cut(c)
        PROVE  UNCHANGED <<version, held, pendingUpdates, taken>>
    BY <2>7 DEF Serve, Upgrade, BeginGreeting, EndGreeting, Register, ReadFails, Cut, pending
  <2>8. ASSUME UNCHANGED vars
        PROVE  UNCHANGED <<version, held, pendingUpdates, taken>>
    BY <2>8 DEF vars, pending
  <2> QED
    BY <1>2, <2>1, <2>2, <2>3, <2>4, <2>5, <2>6, <2>7, <2>8 DEF Next, NInv
<1>3. NInv => NewestIsKept
  BY DEF NInv
<1> QED
  BY <1>1, <1>2, <1>3, PTL DEF Spec
=============================================================================
