----------------------- MODULE MCIntrinsicCoordinator -----------------------
(* A user with two leagues.  a1 and a2 have the same inputs, so a record    *)
(* follows the user from one to the other; b1, of their league, has others, *)
(* so its request drops theirs; d1 is of the second league: with room for   *)
(* two records, its request makes room among theirs.                        *)
EXTENDS IntrinsicCoordinator

CONSTANTS a1, a2, b1, d1

MCStateIds == {a1, a2, b1, d1}
MCLeagueOf == [s \in MCStateIds |-> IF s = d1 THEN "second" ELSE "first"]
MCInputsOf == [s \in MCStateIds |-> IF s = b1 THEN "late" ELSE "early"]
=============================================================================
