------------------------------ MODULE EventQueue ------------------------------
(***************************************************************************)
(* The ring buffer behind post_event and take_event in                     *)
(* src/src/movement/mod.rs: EVENT_QUEUE, EVENT_QUEUE_HEAD and              *)
(* EVENT_QUEUE_LEN.  Interrupt handlers post, the main loop takes; each    *)
(* operation runs in one critical section, so it is one action.            *)
(*                                                                         *)
(* `log` is a history variable: every event ever posted, in posting order. *)
(***************************************************************************)
EXTENDS Naturals, Sequences

CONSTANTS
  Event,
  TickEvent,
  Capacity,
  Empty       \* Option::None, an empty slot

ASSUME EventQueueAssumption ==
  /\ TickEvent \in Event
  /\ Empty \notin Event
  /\ Capacity \in Nat \ {0}

VARIABLES
  slots,      \* EVENT_QUEUE: [Slot -> Event or Empty]
  head,       \* EVENT_QUEUE_HEAD
  len,        \* EVENT_QUEUE_LEN
  taken,      \* what take_event returned last
  log         \* history: the events posted so far

queueVars == <<slots, head, len, taken, log>>

Slot == 0 .. Capacity - 1

(* The slot `n` places after slot `s`.                                     *)
Ahead(s, n) == (s + n) % Capacity

QueueInit ==
  /\ slots = [s \in Slot |-> Empty]
  /\ head = 0
  /\ len = 0
  /\ taken = TickEvent
  /\ log = <<>>

(* post_event with room: the event goes into the slot after the newest.    *)
PostWithRoom(e) ==
  /\ len < Capacity
  /\ slots' = [slots EXCEPT ![Ahead(head, len)] = e]
  /\ len' = len + 1
  /\ log' = Append(log, e)
  /\ UNCHANGED <<head, taken>>

(* Wrong on purpose: the slot is computed before the head moves on, so the *)
(* newest event is overwritten instead of the oldest.                      *)
PostOverOldestEarlyIndex(e) ==
  /\ len = Capacity
  /\ head' = Ahead(head, 1)
  /\ slots' = [slots EXCEPT ![Ahead(head, len - 1)] = e]
  /\ log' = Append(log, e)
  /\ UNCHANGED <<len, taken>>

(* post_event on a full ring: the head moves past the oldest event and the *)
(* new one is written where len - 1 puts it, the slot just given up.       *)
PostOverOldest(e) ==
  /\ len = Capacity
  /\ head' = Ahead(head, 1)
  /\ slots' = [slots EXCEPT ![Ahead(head', len - 1)] = e]
  /\ log' = Append(log, e)
  /\ UNCHANGED <<len, taken>>

Post(e) == PostWithRoom(e) \/ PostOverOldest(e)

(* take_event on an empty ring answers Event::Tick and changes nothing.    *)
TakeEmpty ==
  /\ len = 0
  /\ taken' = TickEvent
  /\ UNCHANGED <<slots, head, len, log>>

(* take_event: Option::take empties the head slot; unwrap_or(Event::Tick)  *)
(* covers a slot that is already empty.                                    *)
TakeHead ==
  /\ len > 0
  /\ taken' = IF slots[head] = Empty THEN TickEvent ELSE slots[head]
  /\ slots' = [slots EXCEPT ![head] = Empty]
  /\ head' = Ahead(head, 1)
  /\ len' = len - 1
  /\ UNCHANGED log

Take == TakeEmpty \/ TakeHead

QueueNext == (\E e \in Event : Post(e)) \/ Take

QueueSpec == QueueInit /\ [][QueueNext]_queueVars

-----------------------------------------------------------------------------
(* The queued events, oldest first.                                        *)
Queued == [i \in 1 .. len |-> slots[Ahead(head, i - 1)]]

Fifo == INSTANCE EventFifo WITH fifo <- Queued, Tick <- TickEvent

(* The two indices stay inside the ring and take_event always answers with *)
(* an event: the array accesses of post_event and take_event cannot panic. *)
QueueTypeOK ==
  /\ slots \in [Slot -> Event \cup {Empty}]
  /\ head \in Slot
  /\ len \in 0 .. Capacity
  /\ taken \in Event
  /\ log \in Seq(Event)

(* A slot is occupied exactly when it lies within len of the head, so      *)
(* unwrap_or(Event::Tick) never has to invent an event for a queued one.   *)
OccupiedIsQueued ==
  \A s \in Slot : slots[s] # Empty <=> \E i \in 0 .. len - 1 : s = Ahead(head, i)

(* Whatever was dropped or taken before, the queue holds precisely the     *)
(* newest `len` events ever posted, in posting order: "Keep the newest     *)
(* input rather than replaying stale UI events" (post_event).              *)
HoldsNewest ==
  /\ len <= Len(log)
  /\ \A i \in 1 .. len : slots[Ahead(head, i - 1)] = log[Len(log) - len + i]

(* The ring implements the bounded drop-oldest queue.                      *)
ImplementsFifo == Fifo!FifoSpec
=============================================================================
