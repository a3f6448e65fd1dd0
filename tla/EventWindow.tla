---------------------------- MODULE EventWindow ----------------------------
(***************************************************************************)
(* What the probe's Emitter promises to a sink that reconnects: events are *)
(* numbered 1, 2, 3, ... without holes, the newest BufferSize of them can  *)
(* be read back, and a reader that asks for more is told so instead of     *)
(* being handed a range with a hole.  There is no ring here, only the      *)
(* number of the newest event.                                             *)
(***************************************************************************)
EXTENDS Integers

CONSTANTS BufferSize,   \* capacity of the window
          MaxSeq        \* bound: number of events emitted

VARIABLES last,      \* number of the newest event, 0 before the first
          stopped,   \* no event is accepted any more
          request,   \* the number the latest read asked for
          answer     \* the answer to it

windowVars == <<last, stopped, request, answer>>

(* Does the window hold everything from start on, when n is the newest event? *)
WindowCovers(start, n) == n = 0 \/ start > n - BufferSize

(* The answer to a read from start on: all the events, or a refusal.  Events
   are identified by their number, so the set also gives their order. *)
WindowRead(start, n) ==
  IF WindowCovers(start, n)
  THEN [ok |-> TRUE, events |-> IF n = 0 THEN {} ELSE start..n]
  ELSE [ok |-> FALSE, events |-> {}]

WindowInit ==
  last = 0 /\ stopped = FALSE /\ request = 0 /\ answer = [ok |-> TRUE, events |-> {}]

Accept == ~stopped /\ last < MaxSeq /\ last' = last + 1 /\ UNCHANGED <<stopped, request, answer>>

Stop == stopped' \in BOOLEAN /\ UNCHANGED <<last, request, answer>>

ReadFrom(start) ==
  request' = start /\ answer' = WindowRead(start, last) /\ UNCHANGED <<last, stopped>>

WindowNext == Accept \/ Stop \/ \E start \in 1..(MaxSeq + 2) : ReadFrom(start)

WindowSpec == WindowInit /\ [][WindowNext]_windowVars
=============================================================================
