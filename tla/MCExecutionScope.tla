-------------------------- MODULE MCExecutionScope --------------------------
(* Two observations of one league and one of another.                       *)
EXTENDS ExecutionScope, TLC

CONSTANTS a1, a2, b1, A, B

MCStates == {a1, a2, b1}
MCLeagues == {A, B}
MCLeagueOf == (a1 :> A) @@ (a2 :> A) @@ (b1 :> B)
=============================================================================
