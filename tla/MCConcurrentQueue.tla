-------------------------- MODULE MCConcurrentQueue --------------------------
(***************************************************************************)
(* Two threads that share a queue of small blocks.                         *)
(***************************************************************************)
EXTENDS ConcurrentQueue, TLC

MCEnqueues == <<3, 1>>
=============================================================================
