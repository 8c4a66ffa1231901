------------------------- MODULE MCImplicitProducers -------------------------
(* Model constants for ImplicitProducers. *)
EXTENDS ImplicitProducers

\* Two threads with the same id emplace tasks into both queues, one after the other; the
\* worker of the first queue enqueues nothing, that of the second one into its own; the main
\* thread stops the two workers and destroys the queues.
MCCalls == <<<<>>, <<>>, <<2, 1, 2>>, <<2>>>>
MCLives == <<1, 1, 2, 1>>
MCHome == <<0, 1, 0, 2>>
\* All ids collide.
MCHash == <<3, 3, 3, 3>>
=============================================================================
