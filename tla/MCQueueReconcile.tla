-------------------------- MODULE MCQueueReconcile --------------------------
(***************************************************************************)
(* Two queries for TLC: one waits for the place of the other.              *)
(***************************************************************************)
EXTENDS QueueReconcile

CONSTANTS a, b

TwoKeys == {a, b}
=============================================================================
