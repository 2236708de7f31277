---------------------------- MODULE RuntimeStore ----------------------------
(***************************************************************************)
(* PrivateBetaRuntimeStore of product/runtime.py, for one user: the        *)
(* published context that readers get, the unpublished working generation  *)
(* that reconciliation fills, the guard naming the published identity the  *)
(* working generation may replace, and the league generation that          *)
(* invalidates jobs.  Every operation runs under the user's lifecycle lock *)
(* and its effects on the maps under the map lock, so each is one action.  *)
(* A call that raises changes nothing and has no step here.                *)
(*                                                                         *)
(* Left out: intelligence_reused (a display hint), read_context (a         *)
(* thread's private view) and the content of the evidence.                 *)
(***************************************************************************)
EXTENDS Naturals

CONSTANTS
  None,            \* an absent value
  States,          \* canonical league states, by state_id
  Leagues,
  Teams,
  Forecasts,       \* forecast evidence
  PublicationIds,  \* publication generation ids
  LeagueOf,        \* state -> its league
  TeamsOf,         \* state -> the teams that play in it
  AsOf,            \* state -> its observation time
  InputPrint,      \* state -> forecast_input_fingerprint
  Cutoff,          \* forecast -> the latest as_of of its forecasts
  Ready,           \* forecast -> uncertainty_ready
  Supplement,      \* state -> forecasts that _forecast_supplement_compatible accepts
  MaxGenerations   \* bound of the model on the league generation

ASSUME StoreAssumption ==
  /\ None \notin States \cup Teams \cup Leagues \cup Forecasts \cup PublicationIds
  /\ LeagueOf \in [States -> Leagues]
  /\ TeamsOf \in [States -> SUBSET Teams]
  /\ AsOf \in [States -> Nat]
  /\ Cutoff \in [Forecasts -> Nat]
  /\ Ready \in [Forecasts -> BOOLEAN]
  /\ Supplement \in [States -> SUBSET Forecasts]
  /\ MaxGenerations \in Nat

VARIABLES
  published,    \* _contexts
  working,      \* _working_contexts; its state is None when there is none
  guard,        \* _working_publication_guards; its state is None when there is none
  pending,      \* _pending_intelligence: the state reconciled, or None
  generation    \* _league_generations

vars == <<published, working, guard, pending, generation>>

Maybe(S) == S \cup {None}

(* UserRuntimeContext.  Simulation and Value are known by the state they    *)
(* were computed for; the served snapshot by its state and publication.     *)
Snapshots == [state : Maybe(States), publication : Maybe(PublicationIds)]
Contexts ==
  [state : Maybe(States), team : Maybe(Teams), forecast : Maybe(Forecasts),
   simulation : Maybe(States), value : Maybe(States), served : Snapshots,
   publication : Maybe(PublicationIds)]
Guards ==
  [generation : Nat, state : Maybe(States), team : Maybe(Teams),
   publication : Maybe(PublicationIds)]

NoSnapshot == [state |-> None, publication |-> None]
NoContext ==
  [state |-> None, team |-> None, forecast |-> None, simulation |-> None,
   value |-> None, served |-> NoSnapshot, publication |-> None]
NoGuard == [generation |-> 0, state |-> None, team |-> None, publication |-> None]

Init ==
  /\ published = NoContext
  /\ working = NoContext
  /\ guard = NoGuard
  /\ pending = None
  /\ generation = 0

-----------------------------------------------------------------------------
WorkingActive == working.state # None

SameLeague(c, s) == c.state # None /\ LeagueOf[c.state] = LeagueOf[s]

(* A managed team survives only where it plays.                             *)
TeamIn(c, s) == IF c.team \in TeamsOf[s] THEN c.team ELSE None

(* _terminal_intelligence: the layers are all there, or Simulation is not   *)
(* to be had from this Forecast.                                            *)
Terminal(c) ==
  /\ c.forecast # None /\ c.value # None
  /\ c.simulation # None \/ ~Ready[c.forecast]

(* Whether the forecast of context c may be carried over to state s.        *)
ForecastReusable(c, s) ==
  /\ c.forecast # None
  /\ Cutoff[c.forecast] <= AsOf[s]
  /\ c.forecast \in Supplement[s]
  /\ InputPrint[c.state] = InputPrint[s]

(* The working generation, its guard and its pending mark go together.      *)
MutantDropWorking ==              \* mutant: the guard outlives the working generation
  /\ working' = NoContext
  /\ pending' = None
  /\ UNCHANGED guard
DropWorking ==
  /\ working' = NoContext
  /\ guard' = NoGuard
  /\ pending' = None

(* begin_working_generation: stage target s (its callers have a league      *)
(* loaded).  An earlier working generation is replaced.                     *)
Seed(s) ==
  LET same == published.state = s
  IN  [state |-> s,
       team |-> TeamIn(published, s),
       forecast |-> IF same \/ ForecastReusable(published, s)
                    THEN published.forecast ELSE None,
       simulation |-> IF same THEN published.simulation ELSE None,
       value |-> IF same THEN published.value ELSE None,
       served |-> published.served,
       publication |-> None]

BeginWorking(s) ==
  /\ SameLeague(published, s)
  /\ working' = Seed(s)
  /\ guard' = [generation |-> generation, state |-> published.state,
               team |-> published.team, publication |-> published.publication]
  /\ pending' = s
  /\ UNCHANGED <<published, generation>>

(* abort_working_generation, and abort_working_generation_if_generation by  *)
(* the owner of generation g.                                               *)
Abort ==
  /\ DropWorking
  /\ UNCHANGED <<published, generation>>

AbortIfGeneration(g) ==
  /\ guard.state # None /\ guard.generation = g
  /\ Abort

(* publish_working_generation: the identity that seeded the generation must *)
(* still be the published one, the bundle terminal, league and team the     *)
(* same; then the swap.  The guard's league_id is the league of its state.  *)
MutantMayPublishPartial ==       \* mutant: no test for a terminal bundle
  /\ WorkingActive
  /\ guard = [generation |-> generation, state |-> published.state,
              team |-> published.team, publication |-> published.publication]
  /\ published.team = working.team
MayPublish ==
  /\ WorkingActive
  /\ Terminal(working)
  /\ guard = [generation |-> generation, state |-> published.state,
              team |-> published.team, publication |-> published.publication]
  /\ LeagueOf[published.state] = LeagueOf[working.state]
  /\ published.team = working.team

Bumped(changed) == IF changed THEN generation + 1 ELSE generation

PublishWorking(p) ==
  /\ MayPublish
  /\ published' = [working EXCEPT !.served = NoSnapshot, !.publication = p]
  /\ generation' = Bumped(published.state # working.state)
  /\ DropWorking

(* bind_publication_generation_id.                                          *)
BindPublication(p) ==
  /\ published.state # None
  /\ published' = [published EXCEPT !.publication = p]
  /\ UNCHANGED <<working, guard, pending, generation>>

-----------------------------------------------------------------------------
(* set_league_state.  The last-good bundle of the same league stays served. *)
MutantServedAfter(s) ==          \* mutant: only the current bundle is kept
  IF SameLeague(published, s) /\ Terminal(published)
  THEN [state |-> published.state, publication |-> published.publication]
  ELSE NoSnapshot
MutantServedAcross(s) ==         \* mutant: no league test for the served bundle
  IF Terminal(published)
  THEN [state |-> published.state, publication |-> published.publication]
  ELSE published.served
ServedAfter(s) ==
  CASE ~SameLeague(published, s) -> NoSnapshot
    [] SameLeague(published, s) /\ Terminal(published) ->
         [state |-> published.state, publication |-> published.publication]
    [] SameLeague(published, s) /\ ~Terminal(published) -> published.served

Activated(s) ==
  IF published.state = s
  THEN [published EXCEPT !.team = TeamIn(published, s)]
  ELSE [state |-> s,
        team |-> IF SameLeague(published, s) THEN TeamIn(published, s) ELSE None,
        forecast |-> IF SameLeague(published, s) /\ ForecastReusable(published, s)
                     THEN published.forecast ELSE None,
        simulation |-> None,
        value |-> None,
        served |-> ServedAfter(s),
        publication |-> None]

SetLeagueState(s) ==
  /\ published' = Activated(s)
  /\ generation' = Bumped(published.state # s)
  /\ DropWorking

(* set_league_state_if_generation, by the owner of generation g.            *)
SetLeagueStateIfGeneration(s, g, l) ==
  /\ generation = g
  /\ l = None \/ (published.state # None /\ LeagueOf[published.state] = l)
  /\ SetLeagueState(s)

(* select_team.  Selecting the managed team again changes nothing.          *)
MutantUnstage == UNCHANGED <<working, guard, pending>>
                                 \* mutant: a team switch leaves the stale work
Unstage == DropWorking

SelectTeam(t) ==
  /\ published.state # None
  /\ t \in TeamsOf[published.state] \ {published.team}
  /\ generation' = generation + 1
  /\ published' = [published EXCEPT !.team = t, !.publication = None,
                                    !.served.publication = None]
  /\ Unstage

(* clear.                                                                   *)
Clear ==
  /\ published' = NoContext
  /\ generation' = generation + 1
  /\ DropWorking

-----------------------------------------------------------------------------
(* The evidence setters write the working generation when there is one and  *)
(* the published context otherwise; a reconciliation job requires one       *)
(* (require_working_generation), so that it never writes what readers see.  *)
Target == IF WorkingActive THEN working ELSE published

Permitted(required) == required => WorkingActive

StoreContext(c) ==
  IF WorkingActive
  THEN working' = c /\ UNCHANGED published
  ELSE published' = c /\ UNCHANGED working

(* set_forecast_evidence, for state s (the refreshed one, or the target's). *)
SetForecast(f, s, required) ==
  /\ Permitted(required)
  /\ Target.state # None => LeagueOf[Target.state] = LeagueOf[s]
  /\ Cutoff[f] <= AsOf[s]
  /\ StoreContext([state |-> s, team |-> TeamIn(Target, s), forecast |-> f,
                   simulation |-> None, value |-> None,
                   served |-> Target.served, publication |-> None])
  /\ pending' = s
  /\ UNCHANGED <<guard, generation>>

(* set_simulation_analytics with a result for state s.                      *)
MutantFits(s) == TRUE            \* mutant: results attach to any state
Fits(s) == Target.state = s

SetSimulation(s, required) ==
  /\ Permitted(required)
  /\ Target.state # None /\ Target.forecast # None
  /\ Fits(s)
  /\ StoreContext([Target EXCEPT !.team = TeamIn(Target, Target.state),
                                 !.simulation = s, !.value = None,
                                 !.publication = None])
  /\ pending' = Target.state
  /\ UNCHANGED <<guard, generation>>

(* set_value_evidence with a result for state s.                            *)
SetValue(s, required) ==
  /\ Permitted(required)
  /\ Target.state # None
  /\ Fits(s)
  /\ StoreContext([Target EXCEPT !.team = TeamIn(Target, Target.state),
                                 !.value = s, !.publication = None])
  /\ pending' = None
  /\ UNCHANGED <<guard, generation>>

(* set_intelligence_bundle: Forecast f for s, with or without the others.   *)
SetBundle(f, s, withSimulation, withValue, required) ==
  /\ Permitted(required)
  /\ Cutoff[f] <= AsOf[s]
  /\ Target.state # None => LeagueOf[Target.state] = LeagueOf[s]
  /\ StoreContext([state |-> s, team |-> TeamIn(Target, s), forecast |-> f,
                   simulation |-> IF withSimulation THEN s ELSE None,
                   value |-> IF withValue THEN s ELSE None,
                   served |-> Target.served, publication |-> None])
  /\ pending' = None
  /\ UNCHANGED <<guard, generation>>

(* set_served_intelligence, of a published context with a league (both      *)
(* callers activate one first): a snapshot of that league, or none.         *)
SetServed(n) ==
  /\ published.state # None
  /\ n.state # None => LeagueOf[n.state] = LeagueOf[published.state]
  /\ published' = [published EXCEPT !.served = n]
  /\ UNCHANGED <<working, guard, pending, generation>>

-----------------------------------------------------------------------------
(* Who switches identity: connect, switch, refresh, the user.               *)
Switch ==
  /\ generation < MaxGenerations
  /\ \/ \E s \in States : SetLeagueState(s)
     \/ \E s \in States, l \in Maybe(Leagues) :
          SetLeagueStateIfGeneration(s, generation, l)
     \/ \E t \in Teams : SelectTeam(t)
     \/ Clear

(* Who reconciles: the intelligence job and the durable restore.            *)
Attach(required) ==
  \E s \in States :
    \/ SetSimulation(s, required)
    \/ SetValue(s, required)
    \/ \E f \in Forecasts :
         \/ SetForecast(f, s, required)
         \/ \E b, d \in BOOLEAN : SetBundle(f, s, b, d, required)

Publish ==
  /\ generation < MaxGenerations \/ working.state = published.state
  /\ \E p \in PublicationIds : PublishWorking(p)

Reconcile ==
  \/ \E s \in States : BeginWorking(s)
  \/ Abort
  \/ \E g \in 0..generation : AbortIfGeneration(g)
  \/ \E required \in BOOLEAN : Attach(required)
  \/ Publish

Present ==
  \/ \E p \in PublicationIds : BindPublication(p)
  \/ \E n \in {NoSnapshot} \cup [state : States, publication : PublicationIds] :
       SetServed(n)

Next == Switch \/ Reconcile \/ Present

Spec == Init /\ [][Next]_vars

-----------------------------------------------------------------------------
(* The variables have their types, and a working generation is there        *)
(* exactly when its guard is.                                               *)
TypeOK ==
  /\ published \in Contexts
  /\ working \in Contexts
  /\ guard \in Guards
  /\ pending \in Maybe(States)
  /\ generation \in Nat
  /\ published.state = None => published = NoContext
  /\ ~WorkingActive => working = NoContext
  /\ WorkingActive <=> guard.state # None

Coherent(c) ==
  /\ c.simulation # None => c.simulation = c.state /\ c.forecast # None
  /\ c.value # None => c.value = c.state
  /\ c.forecast # None => c.state # None /\ Cutoff[c.forecast] <= AsOf[c.state]
  /\ c.team # None => c.state # None /\ c.team \in TeamsOf[c.state]

(* Whatever the order of activations, selections and late attachments, both *)
(* the context readers see and the unpublished one hold evidence of their   *)
(* own state only: no Simulation or Value of another state, no Simulation   *)
(* without Forecast, no Forecast younger than the state, no managed team    *)
(* that does not play in it.                                                *)
EvidenceCoherent == Coherent(published) /\ Coherent(working)

(* A working generation never outlives the identity it was seeded from:     *)
(* every change of the published league, state, managed team or league      *)
(* generation discards it, so an older job cannot publish over a newer      *)
(* identity.                                                                *)
SeedCurrent ==
  WorkingActive =>
    /\ guard.generation = generation
    /\ guard.state = published.state
    /\ guard.team = published.team
    /\ SameLeague(published, working.state)

InLeague(c) == c.served.state # None => SameLeague(c, c.served.state)

(* The last-good bundle served beside a context belongs to its league.      *)
ServedSameLeague == InLeague(published) /\ InLeague(working)

(* Activating a state of the loaded league never leaves readers with less:  *)
(* where there was a terminal bundle or a served last-good one, there still *)
(* is, after any number of activations.                                     *)
Usable(c) == Terminal(c) \/ c.served.state # None
LastGoodKept ==
  [][\A s \in States :
       SetLeagueState(s) /\ SameLeague(published, s) /\ Usable(published)
       => Usable(published')]_vars

(* What readers may see of all this: PublishedView.                         *)
Seen(c) == [state |-> c.state, team |-> c.team, forecast |-> c.forecast,
            simulation |-> c.simulation, value |-> c.value]

View == INSTANCE PublishedView
  WITH view <- Seen(published), staged <- WorkingActive, epoch <- generation

ViewSpec == View!Spec
=============================================================================
