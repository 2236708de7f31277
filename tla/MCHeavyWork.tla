----------------------------- MODULE MCHeavyWork -----------------------------
(* Four threads on a lane with two queue places: a holder, two waiters and  *)
(* a caller that finds the queue full; two kinds, so that the accounts of   *)
(* one cannot hide in the other's; three admissions of each kind, so that a *)
(* newcomer takes the lane while notified waiters have yet to run.          *)
EXTENDS HeavyWork
=============================================================================
