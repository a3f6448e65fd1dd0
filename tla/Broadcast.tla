----------------------------- MODULE Broadcast ------------------------------
(***************************************************************************)
(* The live updates of one source: from the processor's onUpdate callback, *)
(* through the batches that the server collects for 100 ms, to the         *)
(* websockets (internal/server/server.go).                                 *)
(*                                                                         *)
(* A summary is its slot and a version, the number of chunks in it.  A     *)
(* write to a websocket takes two steps, so that two of them can overlap.  *)
(***************************************************************************)
EXTENDS Integers, FiniteSets, Functions

CONSTANTS Workers,      \* goroutines that apply chunks of the source
          Slots,
          Conns,        \* websocket connections, each used once
          MaxUpdates    \* bound: updates of a behaviour

None == 0

ASSUME BroadcastAssumption == MaxUpdates \in Nat \ {0} /\ None \notin Conns

VARIABLES version,          \* the processor's summaries: slot -> version
          held,             \* per worker: the summary onUpdate is called with
          pendingUpdates,   \* slot -> version
          flushScheduled,
          timer,            \* the AfterFunc has been set and has not run
          flights,          \* the flushes that have taken a batch
          phase,            \* per connection: how far handleWS is
          open,             \* connections that are up
          clients,          \* s.clients
          panicked,         \* two writers met in one connection
          taken,            \* history: slot -> newest version in a batch
          sent              \* history: connection -> slot -> newest sent

pending == <<pendingUpdates, flushScheduled, timer>>
sockets == <<phase, open, clients>>
vars == <<version, held, pending, flights, sockets, panicked, taken, sent>>

Flights == 1..MaxUpdates
Idle == [batch |-> <<>>, targets |-> {}, at |-> None]
Phases == {"new", "upgraded", "greeting", "greeted", "serving", "done"}

Init ==
  /\ version = [s \in Slots |-> 0] /\ taken = version
  /\ held = [w \in Workers |-> {}]
  /\ pendingUpdates = <<>> /\ flushScheduled = FALSE /\ timer = FALSE
  /\ flights = [f \in Flights |-> Idle]
  /\ phase = [c \in Conns |-> "new"] /\ open = {} /\ clients = {}
  /\ panicked = FALSE
  /\ sent = [c \in Conns |-> version]
-----------------------------------------------------------------------------
Put(f, k, v) == [x \in DOMAIN f \union {k} |-> IF x = k THEN v ELSE f[x]]
Larger(a, b) == IF a > b THEN a ELSE b
updates == SumFunction(version)

(* handleStreamChunk: the summary is copied under p.mu and handed to       *)
(* onUpdate after the unlock.                                              *)
Update(w, s) ==
  /\ held[w] = {} /\ updates < MaxUpdates
  /\ version' = [version EXCEPT ![s] = @ + 1]
  /\ held' = [held EXCEPT ![w] = {<<s, version'[s]>>}]
  /\ UNCHANGED <<pending, flights, sockets, panicked, taken, sent>>

(* broadcastUpdate, under s.mu. *)
broadcastUpdate_KeepsFirst(w) == \E u \in held[w] :
  /\ pendingUpdates' = IF u[1] \in DOMAIN pendingUpdates THEN pendingUpdates
                       ELSE Put(pendingUpdates, u[1], u[2])
  /\ flushScheduled' = TRUE
  /\ timer' = (timer \/ ~flushScheduled)
  /\ held' = [held EXCEPT ![w] = {}]
  /\ UNCHANGED <<version, flights, sockets, panicked, taken, sent>>
broadcastUpdate(w) == \E u \in held[w] :
  /\ pendingUpdates' = Put(pendingUpdates, u[1], u[2])
  /\ flushScheduled' = TRUE
  /\ timer' = (timer \/ ~flushScheduled)
  /\ held' = [held EXCEPT ![w] = {}]
  /\ UNCHANGED <<version, flights, sockets, panicked, taken, sent>>

(* A free number for a flush. *)
free(f) == flights[f] = Idle /\ \A g \in Flights : g < f => flights[g] # Idle

(* flushPendingUpdates, under s.mu: it takes the batch and the clients,    *)
(* and clears flushScheduled before it has written anything.               *)
flushPendingUpdates_StaysScheduled(f) ==
  /\ timer /\ free(f)
  /\ flights' = [flights EXCEPT ![f] =
       [batch |-> pendingUpdates, targets |-> clients, at |-> None]]
  /\ taken' = [s \in Slots |-> IF s \in DOMAIN pendingUpdates
                               THEN pendingUpdates[s] ELSE taken[s]]
  /\ pendingUpdates' = <<>> /\ timer' = FALSE
  /\ UNCHANGED <<version, held, flushScheduled, sockets, panicked, sent>>
flushPendingUpdates(f) ==
  /\ timer /\ free(f)
  /\ flights' = [flights EXCEPT ![f] =
       [batch |-> pendingUpdates, targets |-> clients, at |-> None]]
  /\ taken' = [s \in Slots |-> IF s \in DOMAIN pendingUpdates
                               THEN pendingUpdates[s] ELSE taken[s]]
  /\ pendingUpdates' = <<>> /\ flushScheduled' = FALSE /\ timer' = FALSE
  /\ UNCHANGED <<version, held, sockets, panicked, sent>>

writing(c) == phase[c] = "greeting" \/ \E f \in Flights : flights[f].at = c

(* writeToClients starts a WriteJSON; with another one under way on the    *)
(* same connection the library panics, or does not notice.                 *)
BeginWrite(f, c) ==
  /\ flights[f].at = None /\ c \in flights[f].targets
  /\ flights' = [flights EXCEPT ![f].at = c]
  /\ panicked' \in IF writing(c) THEN BOOLEAN ELSE {FALSE}
  /\ UNCHANGED <<version, held, pending, sockets, taken, sent>>

(* The write ends.  If the connection is down it fails, and the client is  *)
(* dropped; after the last target the flush is over.                       *)
EndWrite(f) == LET c == flights[f].at  t == flights[f].targets \ {c} IN
  /\ c # None
  /\ flights' = [flights EXCEPT ![f] =
       IF t = {} THEN Idle ELSE [@ EXCEPT !.targets = t, !.at = None]]
  /\ IF c \in open
     THEN /\ sent' = [sent EXCEPT ![c] = [s \in Slots |->
               IF s \in DOMAIN flights[f].batch
               THEN Larger(@[s], flights[f].batch[s]) ELSE @[s]]]
          /\ UNCHANGED clients
     ELSE /\ clients' = clients \ {c}
          /\ UNCHANGED sent
  /\ UNCHANGED <<version, held, pending, phase, open, panicked, taken>>

(* A flush that found no client. *)
EndFlush(f) ==
  /\ flights[f] # Idle /\ flights[f].targets = {}
  /\ flights' = [flights EXCEPT ![f] = Idle]
  /\ UNCHANGED <<version, held, pending, sockets, panicked, taken, sent>>
-----------------------------------------------------------------------------
Step(c, from, to) == phase[c] = from /\ phase' = [phase EXCEPT ![c] = to]

(* handleWS: upgrade, write the snapshot, register. *)
Upgrade(c) ==
  /\ Step(c, "new", "upgraded")
  /\ open' = open \union {c}
  /\ UNCHANGED <<version, held, pending, flights, clients, panicked, taken, sent>>

BeginGreeting(c) ==
  /\ Step(c, "upgraded", "greeting")
  /\ panicked' \in IF writing(c) THEN BOOLEAN ELSE {FALSE}
  /\ UNCHANGED <<version, held, pending, flights, open, clients, taken, sent>>

EndGreeting(c) ==
  /\ Step(c, "greeting", "greeted")
  /\ UNCHANGED <<version, held, pending, flights, open, clients, panicked, taken, sent>>

Register_BeforeGreeting(c) ==
  /\ phase[c] \in {"upgraded", "greeting", "greeted"} /\ c \notin clients
  /\ clients' = clients \union {c}
  /\ phase' = [phase EXCEPT ![c] = IF @ = "greeted" THEN "serving" ELSE @]
  /\ UNCHANGED <<version, held, pending, flights, open, panicked, taken, sent>>
Register(c) ==
  /\ Step(c, "greeted", "serving")
  /\ clients' = clients \union {c}
  /\ UNCHANGED <<version, held, pending, flights, open, panicked, taken, sent>>

(* The goroutine of handleWS that reads until the connection fails. *)
ReadFails_KeepsClient(c) ==
  /\ c \notin open /\ Step(c, "serving", "done")
  /\ UNCHANGED <<version, held, pending, flights, open, clients, panicked, taken, sent>>
ReadFails(c) ==
  /\ c \notin open /\ Step(c, "serving", "done")
  /\ clients' = clients \ {c}
  /\ UNCHANGED <<version, held, pending, flights, open, panicked, taken, sent>>

(* External: the browser leaves, or the network fails. *)
Cut(c) ==
  /\ c \in open
  /\ open' = open \ {c}
  /\ UNCHANGED <<version, held, pending, flights, phase, clients, panicked, taken, sent>>
-----------------------------------------------------------------------------
Serve(c) ==
  Upgrade(c) \/ BeginGreeting(c) \/ EndGreeting(c) \/ Register(c) \/ ReadFails(c)
Write(f) == EndWrite(f) \/ EndFlush(f) \/ \E c \in Conns : BeginWrite(f, c)

(* A panic in a goroutine of the server ends the process. *)
Next ==
  /\ ~panicked
  /\ \/ \E w \in Workers, s \in Slots : Update(w, s)
     \/ \E w \in Workers : broadcastUpdate(w)
     \/ \E f \in Flights : flushPendingUpdates(f)
     \/ \E f \in Flights : Write(f)
     \/ \E c \in Conns : Serve(c)
     \/ \E c \in Conns : Cut(c)

Spec == Init /\ [][Next]_vars

(* Goroutines that can run do, the timer fires, and a write ends; nothing  *)
(* forces a chunk, a new browser or a failure of the network.              *)
FairSpec ==
  /\ Spec
  /\ \A w \in Workers : WF_vars(~panicked /\ broadcastUpdate(w))
  /\ WF_vars(~panicked /\ \E f \in Flights : flushPendingUpdates(f))
  /\ \A f \in Flights : WF_vars(~panicked /\ Write(f))
  /\ \A c \in Conns : WF_vars(~panicked /\ phase[c] # "new" /\ Serve(c))
-----------------------------------------------------------------------------
Batches == UNION {[S -> Nat] : S \in SUBSET Slots}
Flight == [batch : Batches, targets : SUBSET Conns, at : Conns \union {None}]

(* Every variable of the server and of its websockets has its type: a      *)
(* batch holds versions of slots, a flush writes to one connection at most.*)
TypeOK ==
  /\ version \in [Slots -> Nat] /\ taken \in [Slots -> Nat]
  /\ held \in [Workers -> SUBSET (Slots \X Nat)]
  /\ pendingUpdates \in Batches
  /\ flushScheduled \in BOOLEAN /\ timer \in BOOLEAN /\ panicked \in BOOLEAN
  /\ flights \in [Flights -> Flight]
  /\ phase \in [Conns -> Phases] /\ open \subseteq Conns /\ clients \subseteq Conns
  /\ sent \in [Conns -> [Slots -> Nat]]

(* An update never waits for a flush that nobody has scheduled: the flag,  *)
(* the timer and the pending batch agree at every moment (broadcastUpdate  *)
(* and flushPendingUpdates set and clear them under s.mu).                 *)
PendingIsScheduled ==
  /\ flushScheduled = timer
  /\ pendingUpdates # <<>> => timer

(* With one worker the newest summary of a slot is never overwritten by an *)
(* older one on its way to a batch: it is held, pending or taken.          *)
NewestIsKept ==
  \A s \in Slots : version[s] > 0 =>
    \/ \E w \in Workers : <<s, version[s]>> \in held[w]
    \/ s \in DOMAIN pendingUpdates /\ pendingUpdates[s] = version[s]
    \/ s \notin DOMAIN pendingUpdates /\ taken[s] = version[s]

(* The snapshot that handleWS writes does not race a flush: the connection *)
(* is registered only afterwards (the comment in handleWS).                *)
GreetingIsAlone ==
  \A c \in Conns, f \in Flights : phase[c] = "greeting" => flights[f].at # c

(* A registered client is sent every pending update, or one that is newer, *)
(* unless its connection fails.                                            *)
PendingIsSent ==
  \A c \in Conns, s \in Slots, v \in 1..MaxUpdates :
    (c \in clients /\ s \in DOMAIN pendingUpdates /\ pendingUpdates[s] = v)
      ~> (sent[c][s] >= v \/ c \notin open \/ panicked)

(* A client whose connection is gone does not stay in s.clients. *)
DeadIsForgotten ==
  \A c \in Conns :
    (c \in clients /\ c \notin open) ~> (c \notin clients \/ panicked)

(* No connection has two writers ("gorilla/websocket forbids concurrent    *)
(* writers", handleWS).                                                    *)
OneWriter ==
  \A c \in Conns :
    Cardinality({f \in Flights : flights[f].at = c})
      + (IF phase[c] = "greeting" THEN 1 ELSE 0) <= 1
=============================================================================
