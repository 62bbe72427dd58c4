----------------------------- MODULE MCDispatcher -----------------------------
(* Dispatcher with the clock, the countdown and the tomato timer, the last *)
(* of them in the secondary list.  The countdown's fields are shrunk to    *)
(* one or two, and its length to at most two seconds.                      *)
EXTENDS Dispatcher

TwoFields == [s \in Selection |-> IF s = 0 THEN 1 ELSE 3]
TwoFieldsWeight == [s \in Selection |-> IF s = 0 THEN 3 ELSE 1]
OneField == [s \in Selection |-> 2]
OneFieldWeight == [s \in Selection |-> 1]
=============================================================================
