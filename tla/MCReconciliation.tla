-------------------------- MODULE MCReconciliation --------------------------
(* Two observations of one league and one of another, two teams in each;    *)
(* one Forecast, which supports Simulation.                                 *)
EXTENDS Reconciliation, TLC

CONSTANTS a1, a2, b1, A, B, t1, t2, f1, r1, r2

MCStates == {a1, a2, b1}
MCLeagues == {A, B}
MCTeams == {t1, t2}
MCForecasts == {f1}
MCRequesters == {r1, r2}
MCLeagueOf == (a1 :> A) @@ (a2 :> A) @@ (b1 :> B)
MCTeamsOf == [s \in MCStates |-> MCTeams]
MCAsOf == (a1 :> 1) @@ (a2 :> 2) @@ (b1 :> 1)
MCInputPrint == (a1 :> 1) @@ (a2 :> 2) @@ (b1 :> 3)
MCCutoff == (f1 :> 1)
MCReady == (f1 :> TRUE)
MCSupplement == [s \in MCStates |-> MCForecasts]
MCSymmetry == Permutations(MCTeams) \cup Permutations(MCRequesters)
=============================================================================
