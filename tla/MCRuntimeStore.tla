--------------------------- MODULE MCRuntimeStore ---------------------------
(* Two states of league A, the later one without team t2, and one state of  *)
(* league B; an early forecast that supports Simulation and a late one that *)
(* does not.                                                                *)
EXTENDS RuntimeStore, TLC

CONSTANTS a1, a2, b1, A, B, t1, t2, early, late

MCStates == {a1, a2, b1}
MCLeagues == {A, B}
MCTeams == {t1, t2}
MCForecasts == {early, late}
MCLeagueOf == (a1 :> A) @@ (a2 :> A) @@ (b1 :> B)
MCTeamsOf == (a1 :> {t1, t2}) @@ (a2 :> {t1}) @@ (b1 :> {t2})
MCAsOf == (a1 :> 2) @@ (a2 :> 3) @@ (b1 :> 2)
MCInputPrint == (a1 :> 1) @@ (a2 :> 1) @@ (b1 :> 2)
MCCutoff == (early :> 1) @@ (late :> 3)
MCReady == (early :> TRUE) @@ (late :> FALSE)
MCSupplement == [s \in MCStates |-> MCForecasts]
=============================================================================
