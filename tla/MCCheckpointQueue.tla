------------------------- MODULE MCCheckpointQueue --------------------------
(* Two observations of one league and one of another, two teams, and four   *)
(* writes: a snapshot under way, one queued behind it, the submission that  *)
(* cancels that one, and one more.                                          *)
EXTENDS CheckpointQueue, TLC

CONSTANTS a1, a2, b1, A, B

MCStates == {a1, a2, b1}
MCLeagues == {A, B}
MCLeagueOf == (a1 :> A) @@ (a2 :> A) @@ (b1 :> B)
MCObservedAt == (a1 :> 1) @@ (a2 :> 2) @@ (b1 :> 1)
=============================================================================
