--------------------------- MODULE MCPoolScheduler ---------------------------
(***************************************************************************)
(* A pool of two workers.                                                  *)
(***************************************************************************)
EXTENDS PoolScheduler

\* The last task depends on the first one.
Chain == [t \in Task |-> IF t = MaxTask THEN {1} \ {t} ELSE {}]
=============================================================================
