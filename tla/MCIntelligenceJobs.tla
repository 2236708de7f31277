------------------------- MODULE MCIntelligenceJobs -------------------------
(* One user, for whom everything but the slots is kept apart; one worker,   *)
(* the application's (webapp.py), and one pending place, the fewest that    *)
(* let a job wait behind another and a third find the executor busy; two    *)
(* records kept, so that the third job evicts one. Two request threads      *)
(* start jobs where starts race, one starts and one polls where a poll      *)
(* races a start.                                                           *)
EXTENDS IntelligenceJobs
=============================================================================
