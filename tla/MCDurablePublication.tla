------------------------ MODULE MCDurablePublication ------------------------
(* A league observed twice, two teams of it to manage. *)
EXTENDS DurablePublication
MCStates == 1..2
=============================================================================
