------------------------------ MODULE EventFifo ------------------------------
(***************************************************************************)
(* What the interrupt-to-main event queue of src/src/movement/mod.rs       *)
(* promises, as a specification: interrupt handlers post, the main loop    *)
(* takes.  EventQueue implements it with a ring of slots; Dispatcher is    *)
(* built on the same operators.                                            *)
(***************************************************************************)
EXTENDS FifoOperators

VARIABLES
  fifo,       \* the queued events, oldest first
  taken       \* the event the main loop took last

fifoVars == <<fifo, taken>>

FifoInit == fifo = <<>> /\ taken = Tick

FifoPost == \E e \in Event : fifo' = Enqueue(fifo, e) /\ UNCHANGED taken

FifoTake == taken' = Front(fifo) /\ fifo' = Dequeue(fifo)

FifoNext == FifoPost \/ FifoTake

FifoSpec == FifoInit /\ [][FifoNext]_fifoVars
=============================================================================
