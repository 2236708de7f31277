---------------------------- MODULE PublishedView ----------------------------
(* What the runtime store promises the readers of one user's published      *)
(* intelligence, without saying how: while replacement intelligence is      *)
(* staged, what readers see changes only as a whole, by the publication of  *)
(* a terminal bundle of the same league and managed team, or by a switch of *)
(* identity, which ends the staging and advances the epoch that invalidates *)
(* older jobs.  Nothing visible ever mixes evidence of two states.          *)
EXTENDS Naturals

CONSTANTS None, States, Leagues, Teams, Forecasts,
          LeagueOf, TeamsOf, AsOf, Cutoff, Ready

VARIABLES
  view,      \* the state, managed team and evidence readers see
  staged,    \* whether a replacement is being prepared
  epoch      \* advances with every switch of identity

vars == <<view, staged, epoch>>

Maybe(S) == S \cup {None}
Views ==
  [state : Maybe(States), team : Maybe(Teams), forecast : Maybe(Forecasts),
   simulation : Maybe(States), value : Maybe(States)]

Empty == [state |-> None, team |-> None, forecast |-> None,
          simulation |-> None, value |-> None]

Coherent(v) ==
  /\ v.simulation \in {None, v.state}
  /\ v.value \in {None, v.state}
  /\ v.simulation # None => v.forecast # None
  /\ v.forecast # None => v.state # None /\ Cutoff[v.forecast] <= AsOf[v.state]
  /\ v.team # None => v.state # None /\ v.team \in TeamsOf[v.state]

Terminal(v) ==
  /\ v.state # None /\ v.forecast # None /\ v.value # None
  /\ v.simulation # None \/ ~Ready[v.forecast]

SameLeague(v, w) ==
  v.state # None /\ w.state # None /\ LeagueOf[v.state] = LeagueOf[w.state]

Init == view = Empty /\ staged = FALSE /\ epoch = 0

(* What is shown next holds evidence of its own state only.                 *)
Shown == view' \in Views /\ Coherent(view')

(* Preparation starts, goes on or is given up, out of sight.                *)
Stage == staged' \in BOOLEAN /\ UNCHANGED <<view, epoch>>

(* The prepared bundle replaces what readers see, at once.                  *)
Publish ==
  /\ staged
  /\ Shown /\ Terminal(view')
  /\ SameLeague(view, view') /\ view'.team = view.team
  /\ staged' = FALSE
  /\ epoch' = IF view'.state = view.state THEN epoch ELSE epoch + 1

(* Another state, league or managed team: a new epoch, nothing staged.      *)
Switch ==
  /\ Shown
  /\ staged' = FALSE
  /\ epoch' = epoch + 1

(* Evidence attaches directly while nothing is staged; it never changes a   *)
(* loaded league, nor puts another team in the place of the managed one.    *)
Attach ==
  /\ ~staged
  /\ Shown
  /\ view.state # None => SameLeague(view, view')
  /\ view'.team \in {view.team, None}
  /\ staged' = FALSE
  /\ UNCHANGED epoch

Next == Stage \/ Publish \/ Switch \/ Attach

Spec == Init /\ [][Next]_vars
=============================================================================
