---------------------------- MODULE FifoOperators ----------------------------
(***************************************************************************)
(* A bounded first-in first-out queue of events that, when full, gives up  *)
(* its oldest event for the newest one: what post_event and take_event of  *)
(* src/src/movement/mod.rs do to the contents of the event queue.          *)
(***************************************************************************)
EXTENDS Naturals, Sequences

CONSTANTS
  Event,      \* the events of movement/types.rs a face can receive
  Tick,       \* Event::Tick, the value an empty queue answers with
  Capacity    \* EVENT_QUEUE_CAPACITY

ASSUME EventFifoAssumption ==
  /\ Tick \in Event
  /\ Capacity \in Nat \ {0}

(* post_event on the queue's contents q.                                   *)
Enqueue(q, e) ==
  IF Len(q) = Capacity THEN Append(Tail(q), e) ELSE Append(q, e)

(* take_event: the event handed to the main loop, and what stays queued.   *)
Front(q) == IF q = <<>> THEN Tick ELSE Head(q)
Dequeue(q) == IF q = <<>> THEN q ELSE Tail(q)
=============================================================================
