------------------------- MODULE RuntimeStoreProofs -------------------------
(* Proofs about RuntimeStore, for any states, leagues, teams, forecasts and *)
(* any bound on generations.  The invariants support each other: evidence   *)
(* stays with its state, the served bundle with its league and the working  *)
(* generation with the identity that seeded it only together, so they are   *)
(* proved as one inductive invariant, through what every context satisfies. *)
EXTENDS RuntimeStore, TLAPS

USE StoreAssumption

(* What each of the two contexts satisfies.                                 *)
Good(c) ==
  /\ c \in Contexts
  /\ Coherent(c)
  /\ InLeague(c)
  /\ c.state = None => c = NoContext

IInv ==
  /\ Good(published)
  /\ Good(working)
  /\ guard \in Guards
  /\ pending \in Maybe(States)
  /\ generation \in Nat
  /\ WorkingActive <=> guard.state # None
  /\ SeedCurrent

(* The inductive invariant is the conjunction of the invariants that the    *)
(* model checker checks.                                                    *)
LEMMA InvariantParts ==
  IInv <=> TypeOK /\ EvidenceCoherent /\ SeedCurrent /\ ServedSameLeague
BY DEF IInv, Good, TypeOK, EvidenceCoherent, ServedSameLeague, WorkingActive

(* An absent context is good, and has no state.                             *)
LEMMA NoContextGood == Good(NoContext) /\ NoContext.state = None
BY DEF Good, NoContext, NoSnapshot, Contexts, Snapshots, Maybe, Coherent, InLeague

(* A managed team is carried to another state only where it plays.          *)
LEMMA CarriedTeam ==
  ASSUME NEW c, Good(c), NEW s \in States
  PROVE  /\ TeamIn(c, s) \in Maybe(Teams)
         /\ TeamIn(c, s) # None => TeamIn(c, s) = c.team /\ TeamIn(c, s) \in TeamsOf[s]
         /\ s = c.state => TeamIn(c, s) = c.team
BY DEF Good, Contexts, Coherent, TeamIn, Maybe

(* A context by its fields.                                                 *)
Context(s, t, f, m, v, n, p) ==
  [state |-> s, team |-> t, forecast |-> f, simulation |-> m, value |-> v,
   served |-> n, publication |-> p]

(* A context put together for a state s from a good one: evidence of s or   *)
(* none, a Forecast that is not younger, and the served bundle of the same  *)
(* league.                                                                  *)
LEMMA Assembled ==
  ASSUME NEW s \in States, NEW team \in Maybe(Teams), NEW f \in Maybe(Forecasts),
         NEW sim \in {None, s}, NEW val \in {None, s},
         NEW n \in Snapshots, NEW p \in Maybe(PublicationIds),
         team # None => team \in TeamsOf[s],
         f # None => Cutoff[f] <= AsOf[s],
         sim # None => f # None,
         n.state # None => LeagueOf[n.state] = LeagueOf[s]
  PROVE  Good(Context(s, team, f, sim, val, n, p))
<1> DEFINE c == Context(s, team, f, sim, val, n, p)
<1>1. c \in Contexts
  BY DEF Contexts, Maybe, Context
<1>2. Coherent(c)
  BY DEF Coherent, Context
<1>3. InLeague(c)
  BY DEF InLeague, SameLeague, Context
<1> QED
  BY <1>1, <1>2, <1>3 DEF Good, Context

(* A context is the record of its fields.                                   *)
LEMMA Fields ==
  ASSUME NEW c, Good(c)
  PROVE  /\ c = Context(c.state, c.team, c.forecast, c.simulation, c.value, c.served,
                     c.publication)
         /\ c.state \in Maybe(States) /\ c.team \in Maybe(Teams)
         /\ c.forecast \in Maybe(Forecasts)
         /\ c.simulation \in {None, c.state} /\ c.value \in {None, c.state}
         /\ c.simulation # None => c.forecast # None
         /\ c.served \in Snapshots /\ c.publication \in Maybe(PublicationIds)
         /\ c.served.state \in Maybe(States)
         /\ c.forecast # None => c.state # None /\ Cutoff[c.forecast] <= AsOf[c.state]
         /\ c.team # None => c.state # None /\ c.team \in TeamsOf[c.state]
         /\ c.served.state # None => c.state # None
                                     /\ LeagueOf[c.served.state] = LeagueOf[c.state]
<1>1. c \in Contexts
  BY DEF Good
<1>2. c.served \in Snapshots
  BY <1>1 DEF Contexts
<1> QED
  BY <1>1, <1>2 DEF Good, Contexts, Snapshots, Coherent, InLeague, SameLeague, Context

(* The same of any value of the type, on which the updates of the store's   *)
(* operations are computed field by field.                                  *)
LEMMA ContextFields ==
  ASSUME NEW c \in Contexts
  PROVE  c = Context(c.state, c.team, c.forecast, c.simulation, c.value, c.served,
                     c.publication)
BY DEF Contexts, Context

(* Replacing the served snapshot and the publication.                       *)
LEMMA ServedUpdate ==
  ASSUME NEW c \in Contexts, NEW a, NEW p
  PROVE  [c EXCEPT !.served = a, !.publication = p]
         = Context(c.state, c.team, c.forecast, c.simulation, c.value, a, p)
<1> DEFINE s == c.state  t == c.team  f == c.forecast  m == c.simulation
           v == c.value  n == c.served  q == c.publication
<1>1. c = Context(s, t, f, m, v, n, q)
  BY ContextFields
<1> HIDE DEF s, t, f, m, v, n, q
<1>2. [Context(s, t, f, m, v, n, q) EXCEPT !.served = a]
      = Context(s, t, f, m, v, a, q)
  BY DEF Context
<1>3. [Context(s, t, f, m, v, a, q) EXCEPT !.publication = p]
      = Context(s, t, f, m, v, a, p)
  BY DEF Context
<1>4. [Context(s, t, f, m, v, n, q) EXCEPT !.served = a, !.publication = p]
      = [[Context(s, t, f, m, v, n, q) EXCEPT !.served = a] EXCEPT !.publication = p]
  OBVIOUS
<1>5. [c EXCEPT !.served = a, !.publication = p]
      = Context(s, t, f, m, v, a, p)
  BY <1>1, <1>2, <1>3, <1>4, Zenon
<1> QED
  BY <1>5 DEF s, t, f, m, v, n, q

(* Replacing the managed team and the publications.                         *)
LEMMA TeamUpdate ==
  ASSUME NEW c \in Contexts, NEW a, NEW p
  PROVE  [c EXCEPT !.team = a, !.publication = p, !.served.publication = p]
         = Context(c.state, a, c.forecast, c.simulation, c.value,
                   [c.served EXCEPT !.publication = p], p)
<1> DEFINE s == c.state  t == c.team  f == c.forecast  m == c.simulation
           v == c.value  n == c.served  q == c.publication
<1>1. c = Context(s, t, f, m, v, n, q)
  BY ContextFields
<1> HIDE DEF s, t, f, m, v, n, q
<1>2. [Context(s, t, f, m, v, n, q) EXCEPT !.team = a]
      = Context(s, a, f, m, v, n, q)
  BY DEF Context
<1>3. [Context(s, a, f, m, v, n, q) EXCEPT !.publication = p]
      = Context(s, a, f, m, v, n, p)
  BY DEF Context
<1>4. [Context(s, a, f, m, v, n, p) EXCEPT !.served.publication = p]
      = Context(s, a, f, m, v, [n EXCEPT !.publication = p], p)
  BY DEF Context
<1>5. [Context(s, t, f, m, v, n, q)
         EXCEPT !.team = a, !.publication = p, !.served.publication = p]
      = [[[Context(s, t, f, m, v, n, q) EXCEPT !.team = a] EXCEPT !.publication = p]
          EXCEPT !.served.publication = p]
  OBVIOUS
<1>6. [c EXCEPT !.team = a, !.publication = p, !.served.publication = p]
      = Context(s, a, f, m, v, [n EXCEPT !.publication = p], p)
  BY <1>1, <1>2, <1>3, <1>4, <1>5, Zenon
<1> QED
  BY <1>6 DEF s, t, f, m, v, n, q

(* Attaching Simulation, which drops Value.                                 *)
LEMMA SimulationUpdate ==
  ASSUME NEW c \in Contexts, NEW a, NEW b, NEW p
  PROVE  [c EXCEPT !.team = a, !.simulation = b, !.value = p, !.publication = p]
         = Context(c.state, a, c.forecast, b, p, c.served, p)
<1> DEFINE s == c.state  t == c.team  f == c.forecast  m == c.simulation
           v == c.value  n == c.served  q == c.publication
<1>1. c = Context(s, t, f, m, v, n, q)
  BY ContextFields
<1> HIDE DEF s, t, f, m, v, n, q
<1>2. [Context(s, t, f, m, v, n, q) EXCEPT !.team = a]
      = Context(s, a, f, m, v, n, q)
  BY DEF Context
<1>3. [Context(s, a, f, m, v, n, q) EXCEPT !.simulation = b]
      = Context(s, a, f, b, v, n, q)
  BY DEF Context
<1>4. [Context(s, a, f, b, v, n, q) EXCEPT !.value = p]
      = Context(s, a, f, b, p, n, q)
  BY DEF Context
<1>5. [Context(s, a, f, b, p, n, q) EXCEPT !.publication = p]
      = Context(s, a, f, b, p, n, p)
  BY DEF Context
<1>6. [Context(s, t, f, m, v, n, q)
         EXCEPT !.team = a, !.simulation = b, !.value = p, !.publication = p]
      = [[[[Context(s, t, f, m, v, n, q) EXCEPT !.team = a] EXCEPT !.simulation = b] EXCEPT !.value = p]
          EXCEPT !.publication = p]
  OBVIOUS
<1>7. [c EXCEPT !.team = a, !.simulation = b, !.value = p, !.publication = p]
      = Context(s, a, f, b, p, n, p)
  BY <1>1, <1>2, <1>3, <1>4, <1>5, <1>6, Zenon
<1> QED
  BY <1>7 DEF s, t, f, m, v, n, q

(* Attaching Value.                                                         *)
LEMMA ValueUpdate ==
  ASSUME NEW c \in Contexts, NEW a, NEW b, NEW p
  PROVE  [c EXCEPT !.team = a, !.value = b, !.publication = p]
         = Context(c.state, a, c.forecast, c.simulation, b, c.served, p)
<1> DEFINE s == c.state  t == c.team  f == c.forecast  m == c.simulation
           v == c.value  n == c.served  q == c.publication
<1>1. c = Context(s, t, f, m, v, n, q)
  BY ContextFields
<1> HIDE DEF s, t, f, m, v, n, q
<1>2. [Context(s, t, f, m, v, n, q) EXCEPT !.team = a]
      = Context(s, a, f, m, v, n, q)
  BY DEF Context
<1>3. [Context(s, a, f, m, v, n, q) EXCEPT !.value = b]
      = Context(s, a, f, m, b, n, q)
  BY DEF Context
<1>4. [Context(s, a, f, m, b, n, q) EXCEPT !.publication = p]
      = Context(s, a, f, m, b, n, p)
  BY DEF Context
<1>5. [Context(s, t, f, m, v, n, q) EXCEPT !.team = a, !.value = b, !.publication = p]
      = [[[Context(s, t, f, m, v, n, q) EXCEPT !.team = a] EXCEPT !.value = b] EXCEPT !.publication = p]
  OBVIOUS
<1>6. [c EXCEPT !.team = a, !.value = b, !.publication = p]
      = Context(s, a, f, m, b, n, p)
  BY <1>1, <1>2, <1>3, <1>4, <1>5, Zenon
<1> QED
  BY <1>6 DEF s, t, f, m, v, n, q

(* The seed of a working generation is a good context of the target state,  *)
(* which is of the published league.                                        *)
LEMMA SeedGood ==
  ASSUME IInv, NEW s \in States, SameLeague(published, s)
  PROVE  Good(Seed(s)) /\ Seed(s).state = s
<1>1. Good(published)
  BY DEF IInv
<1>2. /\ TeamIn(published, s) \in Maybe(Teams)
      /\ TeamIn(published, s) # None => TeamIn(published, s) \in TeamsOf[s]
  BY <1>1, CarriedTeam
<1> DEFINE same == published.state = s
           f == IF same \/ ForecastReusable(published, s) THEN published.forecast ELSE None
           sim == IF same THEN published.simulation ELSE None
           val == IF same THEN published.value ELSE None
<1>3. f \in Maybe(Forecasts) /\ (f # None => Cutoff[f] <= AsOf[s])
  BY <1>1, Fields DEF ForecastReusable, Maybe
<1>4. sim \in {None, s} /\ val \in {None, s} /\ (sim # None => f # None)
  BY <1>1, Fields
<1>5. /\ published.served \in Snapshots
      /\ published.served.state # None => LeagueOf[published.served.state] = LeagueOf[s]
  BY <1>1, Fields DEF SameLeague
<1>6. None \in Maybe(PublicationIds)
  BY DEF Maybe
<1> HIDE DEF f, sim, val
<1>7. Good(Context(s, TeamIn(published, s), f, sim, val, published.served, None))
  BY <1>2, <1>3, <1>4, <1>5, <1>6, Assembled
<1> QED
  BY <1>7 DEF Seed, f, sim, val, Context

(* What an activation publishes is a good context of the activated state.   *)
LEMMA ActivatedGood ==
  ASSUME IInv, NEW s \in States
  PROVE  Good(Activated(s)) /\ Activated(s).state = s
<1>1. Good(published)
  BY DEF IInv
<1>2. /\ TeamIn(published, s) \in Maybe(Teams)
      /\ TeamIn(published, s) # None => TeamIn(published, s) \in TeamsOf[s]
  BY <1>1, CarriedTeam
<1>3. CASE published.state = s
  <2>1. TeamIn(published, s) = published.team
    BY <1>1, <1>3, CarriedTeam
  <2>2. Activated(s) = published
    BY <1>1, <1>3, <2>1, Fields DEF Activated, Context
  <2> QED
    BY <1>1, <1>3, <2>2
<1>4. CASE published.state # s
  <2> DEFINE team == IF SameLeague(published, s) THEN TeamIn(published, s) ELSE None
             f == IF SameLeague(published, s) /\ ForecastReusable(published, s)
                  THEN published.forecast ELSE None
             n == ServedAfter(s)
  <2>1. team \in Maybe(Teams) /\ (team # None => team \in TeamsOf[s])
    BY <1>2 DEF Maybe
  <2>2. f \in Maybe(Forecasts) /\ (f # None => Cutoff[f] <= AsOf[s])
    BY <1>1, Fields DEF ForecastReusable, Maybe
  <2>3. n \in Snapshots /\ (n.state # None => LeagueOf[n.state] = LeagueOf[s])
    <3>1. CASE ~SameLeague(published, s)
      BY <3>1 DEF ServedAfter, NoSnapshot, Snapshots, Maybe
    <3>2. CASE SameLeague(published, s) /\ Terminal(published)
      BY <1>1, <3>2, Fields DEF ServedAfter, Snapshots, SameLeague
    <3>3. CASE SameLeague(published, s) /\ ~Terminal(published)
      BY <1>1, <3>3, Fields DEF ServedAfter, SameLeague
    <3> QED
      BY <3>1, <3>2, <3>3
  <2>4. None \in {None, s} /\ None \in Maybe(PublicationIds)
    BY DEF Maybe
  <2> HIDE DEF team, f, n
  <2>5. Good(Context(s, team, f, None, None, n, None))
    BY <2>1, <2>2, <2>3, <2>4, Assembled
  <2> QED
    BY <1>4, <2>5 DEF Activated, team, f, n, Context
<1> QED
  BY <1>3, <1>4

-----------------------------------------------------------------------------
(* Initially there is nothing.                                              *)
LEMMA InitInv == Init => IInv
BY NoContextGood DEF Init, IInv, NoGuard, Guards, Maybe, WorkingActive, SeedCurrent

(* A step that discards the working generation keeps the invariant whatever *)
(* good context it publishes.                                               *)
LEMMA DropKeeps ==
  ASSUME DropWorking, Good(published'), generation' \in Nat
  PROVE  IInv'
BY NoContextGood
   DEF DropWorking, IInv, NoGuard, Guards, Maybe, WorkingActive, SeedCurrent

(* Staging, and giving the staged work up.                                  *)
LEMMA BeginStep ==
  ASSUME IInv, NEW s \in States, BeginWorking(s)
  PROVE  IInv'
<1>1. Good(published) /\ published.state # None /\ generation \in Nat
  BY DEF IInv, BeginWorking, SameLeague
<1>2. Good(working') /\ working'.state = s
  BY SeedGood DEF BeginWorking
<1>3. /\ published.state \in Maybe(States) /\ published.team \in Maybe(Teams)
      /\ published.publication \in Maybe(PublicationIds)
  BY <1>1, Fields
<1>4. guard' \in Guards
  BY <1>1, <1>3 DEF BeginWorking, Guards
<1>5. s # None /\ s \in Maybe(States)
  BY DEF Maybe
<1>6. SeedCurrent'
  BY <1>2, <1>5 DEF BeginWorking, SeedCurrent, SameLeague
<1> QED
  BY <1>1, <1>2, <1>4, <1>5, <1>6 DEF IInv, BeginWorking, WorkingActive

(* Giving the working generation up.                                        *)
LEMMA AbortStep ==
  ASSUME IInv, Abort
  PROVE  IInv'
BY DropKeeps DEF IInv, Abort

(* A publication swaps a good context in.                                   *)
LEMMA PublishStep ==
  ASSUME IInv, NEW p \in PublicationIds, PublishWorking(p)
  PROVE  IInv'
<1>1. Good(working) /\ working.state # None
  BY DEF IInv, PublishWorking, MayPublish, WorkingActive
<1>2. published' = Context(working.state, working.team, working.forecast,
                            working.simulation, working.value, NoSnapshot, p)
  BY <1>1, ServedUpdate DEF PublishWorking, Good
<1>3. NoSnapshot \in Snapshots /\ NoSnapshot.state = None
  BY DEF NoSnapshot, Snapshots, Maybe
<1>4. working.state \in States /\ p \in Maybe(PublicationIds)
  BY <1>1, Fields DEF Maybe
<1>5. /\ working.team \in Maybe(Teams) /\ working.forecast \in Maybe(Forecasts)
      /\ working.simulation \in {None, working.state}
      /\ working.value \in {None, working.state}
      /\ working.team # None => working.team \in TeamsOf[working.state]
      /\ working.forecast # None => Cutoff[working.forecast] <= AsOf[working.state]
      /\ working.simulation # None => working.forecast # None
  BY <1>1, Fields
<1>6. Good(published')
  BY <1>2, <1>3, <1>4, <1>5, Assembled
<1>7. generation' \in Nat
  BY DEF IInv, PublishWorking, Bumped
<1> QED
  BY <1>6, <1>7, DropKeeps DEF PublishWorking

(* Activations, selections and clearing discard the working generation.     *)
LEMMA ActivateStep ==
  ASSUME IInv, NEW s \in States, SetLeagueState(s)
  PROVE  IInv'
<1>1. Good(published')
  BY ActivatedGood DEF SetLeagueState
<1>2. generation' \in Nat
  BY DEF IInv, SetLeagueState, Bumped
<1> QED
  BY <1>1, <1>2, DropKeeps DEF SetLeagueState

(* Selecting another managed team that plays in the published state.        *)
LEMMA SelectStep ==
  ASSUME IInv, NEW t \in Teams, SelectTeam(t)
  PROVE  IInv'
<1>1. Good(published) /\ published.state # None /\ t \in TeamsOf[published.state]
  BY DEF IInv, SelectTeam
<1> DEFINE n == [published.served EXCEPT !.publication = None]
<1>2. published' = Context(published.state, t, published.forecast,
                            published.simulation, published.value, n, None)
  BY <1>1, TeamUpdate DEF SelectTeam, Good
<1>3. /\ n \in Snapshots
      /\ n.state # None => LeagueOf[n.state] = LeagueOf[published.state]
  <2>1. published.served \in Snapshots
    BY <1>1, Fields
  <2>2. n \in Snapshots /\ n.state = published.served.state
    BY <2>1 DEF Snapshots, Maybe
  <2> QED
    BY <1>1, <2>2, Fields
<1>4. /\ published.state \in States /\ t \in Maybe(Teams)
      /\ None \in Maybe(PublicationIds)
  BY <1>1, Fields DEF Maybe
<1>5. /\ published.forecast \in Maybe(Forecasts)
      /\ published.simulation \in {None, published.state}
      /\ published.value \in {None, published.state}
      /\ published.forecast # None => Cutoff[published.forecast] <= AsOf[published.state]
      /\ published.simulation # None => published.forecast # None
  BY <1>1, Fields
<1> HIDE DEF n
<1>6. Good(published')
  BY <1>1, <1>2, <1>3, <1>4, <1>5, Assembled
<1>7. generation' \in Nat
  BY DEF IInv, SelectTeam
<1> QED
  BY <1>6, <1>7, DropKeeps DEF SelectTeam, Unstage

(* Clearing the user.                                                       *)
LEMMA ClearStep ==
  ASSUME IInv, Clear
  PROVE  IInv'
BY NoContextGood, DropKeeps DEF IInv, Clear

(* Binding a publication and attaching a served snapshot touch only the     *)
(* published context, and neither its state nor its team.                   *)
LEMMA PresentStep ==
  ASSUME IInv, Present
  PROVE  IInv'
<1>1. Good(published) /\ published.state \in States
  BY Fields DEF IInv, Present, BindPublication, SetServed, Maybe
<1>2. PICK n \in Snapshots, p \in Maybe(PublicationIds) :
        /\ n.state # None => LeagueOf[n.state] = LeagueOf[published.state]
        /\ published' = [published EXCEPT !.served = n, !.publication = p]
  <2>1. CASE \E p \in PublicationIds : BindPublication(p)
    <3>1. PICK p \in PublicationIds : BindPublication(p)
      BY <2>1
    <3>2. /\ published' = [published EXCEPT !.served = published.served, !.publication = p]
          /\ published.served \in Snapshots /\ p \in Maybe(PublicationIds)
          /\ published.served.state # None
             => LeagueOf[published.served.state] = LeagueOf[published.state]
      BY <1>1, <3>1, Fields DEF BindPublication, Maybe
    <3> QED
      BY <3>2
  <2>2. CASE ~\E p \in PublicationIds : BindPublication(p)
    <3>1. PICK n \in {NoSnapshot} \cup [state : States, publication : PublicationIds] :
            SetServed(n)
      BY <2>2 DEF Present
    <3>2. n \in Snapshots
      BY DEF NoSnapshot, Snapshots, Maybe
    <3>3. published' = [published EXCEPT !.served = n, !.publication = published.publication]
      BY <1>1, <3>1, Fields DEF SetServed
    <3> QED
      BY <1>1, <3>1, <3>2, <3>3, Fields DEF SetServed
  <2> QED
    BY <2>1, <2>2
<1>3. published' = Context(published.state, published.team, published.forecast,
                            published.simulation, published.value, n, p)
  BY <1>1, <1>2, ServedUpdate DEF Good
<1>4. /\ published.team \in Maybe(Teams) /\ published.forecast \in Maybe(Forecasts)
      /\ published.simulation \in {None, published.state}
      /\ published.value \in {None, published.state}
      /\ published.team # None => published.team \in TeamsOf[published.state]
      /\ published.forecast # None => Cutoff[published.forecast] <= AsOf[published.state]
      /\ published.simulation # None => published.forecast # None
  BY <1>1, Fields
<1>5. Good(published')
  <2>1. p \in Maybe(PublicationIds) /\ n \in Snapshots
    BY <1>2
  <2>2. Good(Context(published.state, published.team, published.forecast,
                     published.simulation, published.value, n, p))
    BY <1>1, <1>2, <1>4, <2>1, Assembled
  <2> QED
    BY <1>3, <2>2
<1>6. published'.state = published.state /\ published'.team = published.team
  BY <1>3 DEF Context
<1>7. UNCHANGED <<working, guard, pending, generation>>
  BY DEF Present, BindPublication, SetServed
<1> QED
  BY <1>5, <1>6, <1>7 DEF IInv, SeedCurrent, WorkingActive, SameLeague

(* Storing a good context of the target's league in the place of the target *)
(* keeps the seed of a working generation current.                          *)
LEMMA StoreKeeps ==
  ASSUME IInv, NEW c, Good(c), c.state # None, StoreContext(c),
         Target.state # None => LeagueOf[Target.state] = LeagueOf[c.state],
         pending' \in Maybe(States), UNCHANGED <<guard, generation>>
  PROVE  IInv'
<1>1. CASE WorkingActive
  BY <1>1 DEF IInv, StoreContext, Target, WorkingActive, SeedCurrent, SameLeague
<1>2. CASE ~WorkingActive
  BY <1>2 DEF IInv, StoreContext, Target, WorkingActive, SeedCurrent, SameLeague
<1> QED
  BY <1>1, <1>2

(* The target of an attachment is a good context, and its team.             *)
LEMMA TargetGood ==
  ASSUME IInv
  PROVE  Good(Target)
BY DEF IInv, Target

(* Every attachment stores a context assembled for one state.               *)
LEMMA AttachStep ==
  ASSUME IInv, NEW required \in BOOLEAN, Attach(required)
  PROVE  IInv'
<1> DEFINE c == Target
<1>1. Good(c)
  BY TargetGood
<1>2. /\ c.served \in Snapshots /\ None \in Maybe(PublicationIds)
      /\ c.served.state # None
         => c.state # None /\ LeagueOf[c.served.state] = LeagueOf[c.state]
  BY <1>1, Fields DEF Maybe
<1>3. PICK s \in States :
        \/ SetSimulation(s, required)
        \/ SetValue(s, required)
        \/ \E f \in Forecasts :
             \/ SetForecast(f, s, required)
             \/ \E b, d \in BOOLEAN : SetBundle(f, s, b, d, required)
  BY DEF Attach
<1>4. /\ TeamIn(c, s) \in Maybe(Teams)
      /\ TeamIn(c, s) # None => TeamIn(c, s) \in TeamsOf[s]
  BY <1>1, CarriedTeam
<1>5. s # None /\ s \in Maybe(States)
  BY DEF Maybe
<1> HIDE DEF c
<1>6. ASSUME NEW f \in Maybe(Forecasts), NEW sim \in {None, s}, NEW val \in {None, s},
             f # None => Cutoff[f] <= AsOf[s], sim # None => f # None,
             c.state # None => LeagueOf[c.state] = LeagueOf[s],
             StoreContext(Context(s, TeamIn(c, s), f, sim, val, c.served, None)),
             pending' \in Maybe(States), UNCHANGED <<guard, generation>>
      PROVE  IInv'
  <2> DEFINE d == Context(s, TeamIn(c, s), f, sim, val, c.served, None)
  <2>1. c.served.state # None => LeagueOf[c.served.state] = LeagueOf[s]
    BY <1>2, <1>6
  <2>2. Good(d)
    BY <1>2, <1>4, <1>6, <2>1, Assembled
  <2>3. d.state = s /\ StoreContext(d)
    BY <1>6 DEF Context
  <2> HIDE DEF d
  <2> QED
    BY <1>5, <1>6, <2>2, <2>3, StoreKeeps DEF c
<1>7. CASE SetSimulation(s, required)
  <2>1. c.state = s /\ c.forecast # None
    BY <1>7 DEF SetSimulation, Fits, c
  <2>2. [c EXCEPT !.team = TeamIn(c, c.state), !.simulation = s, !.value = None,
                  !.publication = None]
        = Context(s, TeamIn(c, s), c.forecast, s, None, c.served, None)
    <3>1. c \in Contexts
      BY <1>1 DEF Good
    <3>2. [c EXCEPT !.team = TeamIn(c, c.state), !.simulation = s, !.value = None,
                    !.publication = None]
          = Context(c.state, TeamIn(c, c.state), c.forecast, s, None, c.served, None)
      BY <3>1, SimulationUpdate, Zenon
    <3> QED
      BY <2>1, <3>2, Zenon
  <2>3. c.forecast \in Maybe(Forecasts) /\ Cutoff[c.forecast] <= AsOf[s]
    BY <1>1, <2>1, Fields
  <2> QED
    BY <1>5, <1>6, <1>7, <2>1, <2>2, <2>3 DEF SetSimulation, c
<1>8. CASE SetValue(s, required)
  <2>1. c.state = s
    BY <1>8 DEF SetValue, Fits, c
  <2>2. [c EXCEPT !.team = TeamIn(c, c.state), !.value = s, !.publication = None]
        = Context(s, TeamIn(c, s), c.forecast, c.simulation, s, c.served, None)
    <3>1. c \in Contexts
      BY <1>1 DEF Good
    <3>2. [c EXCEPT !.team = TeamIn(c, c.state), !.value = s, !.publication = None]
          = Context(c.state, TeamIn(c, c.state), c.forecast, c.simulation, s, c.served, None)
      BY <3>1, ValueUpdate, Zenon
    <3> QED
      BY <2>1, <3>2, Zenon
  <2>3. /\ c.forecast \in Maybe(Forecasts) /\ c.simulation \in {None, s}
        /\ c.forecast # None => Cutoff[c.forecast] <= AsOf[s]
        /\ c.simulation # None => c.forecast # None
    BY <1>1, <2>1, Fields
  <2>4. None \in Maybe(States)
    BY DEF Maybe
  <2> QED
    BY <1>6, <1>8, <2>1, <2>2, <2>3, <2>4 DEF SetValue, c
<1>9. CASE \E f \in Forecasts : SetForecast(f, s, required)
  <2>1. PICK f \in Forecasts : SetForecast(f, s, required)
    BY <1>9
  <2>2. f \in Maybe(Forecasts)
    BY DEF Maybe
  <2> QED
    BY <1>5, <1>6, <2>1, <2>2 DEF SetForecast, c, Context
<1>10. CASE \E f \in Forecasts : \E b, d \in BOOLEAN : SetBundle(f, s, b, d, required)
  <2>1. PICK f \in Forecasts, b \in BOOLEAN, d \in BOOLEAN :
          SetBundle(f, s, b, d, required)
    BY <1>10
  <2>2. f \in Maybe(Forecasts) /\ f # None /\ None \in Maybe(States)
    BY DEF Maybe
  <2> DEFINE sim == IF b THEN s ELSE None
             val == IF d THEN s ELSE None
  <2>3. sim \in {None, s} /\ val \in {None, s}
    OBVIOUS
  <2>4. StoreContext(Context(s, TeamIn(c, s), f, sim, val, c.served, None))
    BY <2>1 DEF SetBundle, c, Context
  <2> HIDE DEF sim, val
  <2> QED
    BY <1>6, <2>1, <2>2, <2>3, <2>4 DEF SetBundle, c
<1> QED
  BY <1>3, <1>7, <1>8, <1>9, <1>10

(* Every step keeps the inductive invariant.                                *)
LEMMA StepInv == IInv /\ [Next]_vars => IInv'
<1> SUFFICES ASSUME IInv, [Next]_vars PROVE IInv'
  OBVIOUS
<1>1. CASE Switch
  BY <1>1, ActivateStep, SelectStep, ClearStep DEF Switch, SetLeagueStateIfGeneration
<1>2. CASE Reconcile
  BY <1>2, BeginStep, AbortStep, AttachStep, PublishStep
     DEF Reconcile, AbortIfGeneration, Publish
<1>3. CASE Present
  BY <1>3, PresentStep
<1>4. CASE UNCHANGED vars
  BY <1>4 DEF vars, IInv, SeedCurrent, WorkingActive
<1> QED
  BY <1>1, <1>2, <1>3, <1>4 DEF Next

(* The inductive invariant holds in every reachable state of the store.     *)
THEOREM Invariance == Spec => []IInv
BY InitInv, StepInv, PTL DEF Spec

(* The maps hold contexts of their types, and a working generation exists   *)
(* exactly when its publication guard does.                                 *)
THEOREM TypeCorrect == Spec => []TypeOK
BY Invariance, InvariantParts, PTL

(* No published or unpublished context ever holds evidence of another       *)
(* state, whatever the order of activations and late attachments.           *)
THEOREM EvidenceIsOfItsState == Spec => []EvidenceCoherent
BY Invariance, InvariantParts, PTL

(* A working generation is discarded with the identity it was seeded from.  *)
THEOREM WorkFollowsIdentity == Spec => []SeedCurrent
BY Invariance, InvariantParts, PTL

(* The last-good bundle served is always of the loaded league.              *)
THEOREM LastGoodIsOfTheLeague == Spec => []ServedSameLeague
BY Invariance, InvariantParts, PTL

-----------------------------------------------------------------------------
(* The store implements PublishedView: the steps of the store are mapped to *)
(* its steps one operation at a time, with the invariant in both states.    *)

(* A good context shows a coherent view.                                    *)
LEMMA GoodIsShown ==
  ASSUME NEW c, Good(c)
  PROVE  Seen(c) \in View!Views /\ View!Coherent(Seen(c))
BY Fields DEF Seen, View!Views, View!Maybe, View!Coherent, Maybe

(* What the store publishes in a good state is what the view may show.      *)
LEMMA Shows == IInv' => View!Shown
BY GoodIsShown DEF IInv, View!Shown

(* Readers' fields of a context that keeps them.                            *)
LEMMA SeenFields ==
  ASSUME NEW c, NEW d,
         c.state = d.state, c.team = d.team, c.forecast = d.forecast,
         c.simulation = d.simulation, c.value = d.value
  PROVE  Seen(c) = Seen(d)
BY DEF Seen

(* Where nothing readers see changes, and no generation, it is staging.     *)
LEMMA HiddenStep ==
  ASSUME Seen(published') = Seen(published), generation' = generation
  PROVE  View!Stage
BY DEF View!Stage, WorkingActive

(* A new generation with nothing staged is a switch.                        *)
LEMMA SwitchedStep ==
  ASSUME IInv', DropWorking, generation' = generation + 1
  PROVE  View!Switch
BY Shows DEF View!Switch, DropWorking, NoContext, WorkingActive

(* Activation: a switch, or nothing to be seen where the state is the same. *)
LEMMA ActivateRefines ==
  ASSUME IInv, IInv', NEW s \in States, SetLeagueState(s)
  PROVE  View!Stage \/ View!Switch
<1>1. CASE published.state = s
  <2>1. Good(published)
    BY DEF IInv
  <2>2. TeamIn(published, s) = published.team
    BY <1>1, <2>1, CarriedTeam
  <2>3. published' = published
    BY <1>1, <2>1, <2>2, Fields DEF SetLeagueState, Activated, Context
  <2>4. generation' = generation
    BY <1>1 DEF SetLeagueState, Bumped
  <2> QED
    BY <2>3, <2>4, HiddenStep
<1>2. CASE published.state # s
  BY <1>2, SwitchedStep DEF SetLeagueState, Bumped
<1> QED
  BY <1>1, <1>2

(* Publication shows the staged bundle, terminal and of the same identity.  *)
LEMMA PublishRefines ==
  ASSUME IInv, IInv', NEW p \in PublicationIds, PublishWorking(p)
  PROVE  View!Publish
<1>1. Good(working) /\ Good(published) /\ working.state # None
  BY DEF IInv, PublishWorking, MayPublish, WorkingActive
<1>2. published' = Context(working.state, working.team, working.forecast,
                            working.simulation, working.value, NoSnapshot, p)
  BY <1>1, ServedUpdate DEF PublishWorking, Good
<1>3. Seen(published') = Seen(working)
  BY <1>2, SeenFields DEF Context
<1>4. WorkingActive /\ ~WorkingActive'
  BY DEF PublishWorking, MayPublish, DropWorking, NoContext, WorkingActive
<1>5. published.state # None
  BY DEF IInv, PublishWorking, MayPublish, SeedCurrent, WorkingActive, SameLeague
<1>6. View!Terminal(Seen(working))
  BY <1>1 DEF PublishWorking, MayPublish, Terminal, View!Terminal, Seen
<1>7. View!SameLeague(Seen(published), Seen(working))
  BY <1>1, <1>5 DEF PublishWorking, MayPublish, View!SameLeague, Seen
<1>8. Seen(working).team = Seen(published).team
  BY DEF PublishWorking, MayPublish, Seen
<1>9. generation' = IF Seen(working).state = Seen(published).state
                    THEN generation ELSE generation + 1
  BY DEF PublishWorking, Bumped, Seen
<1> QED
  BY <1>3, <1>4, <1>6, <1>7, <1>8, <1>9, Shows DEF View!Publish

(* An attachment stays out of sight while there is a working generation,    *)
(* and is an attachment of the view when there is none.                     *)
LEMMA StoreRefines ==
  ASSUME IInv, IInv', NEW c, StoreContext(c), generation' = generation,
         UNCHANGED guard, c.state # None,
         Target.state # None => LeagueOf[Target.state] = LeagueOf[c.state],
         c.team \in {Target.team, None}
  PROVE  View!Stage \/ View!Attach
<1>1. CASE WorkingActive
  BY <1>1, HiddenStep DEF StoreContext
<1>2. CASE ~WorkingActive
  <2>1. published' = c /\ Target = published /\ ~WorkingActive'
    BY <1>2 DEF StoreContext, Target, WorkingActive
  <2>2. Seen(published).state # None
        => View!SameLeague(Seen(published), Seen(published'))
    BY <2>1 DEF View!SameLeague, Seen
  <2>3. Seen(published').team \in {Seen(published).team, None}
    BY <2>1 DEF Seen
  <2> QED
    BY <1>2, <2>1, <2>2, <2>3, Shows DEF View!Attach
<1> QED
  BY <1>1, <1>2

(* Each evidence setter is an attachment of the view or out of its sight.   *)
LEMMA AttachRefines ==
  ASSUME IInv, IInv', NEW required \in BOOLEAN, Attach(required)
  PROVE  View!Stage \/ View!Attach
<1>1. Good(Target)
  BY TargetGood
<1>2. Target \in Contexts
  BY <1>1 DEF Good
<1>3. \E c : /\ StoreContext(c) /\ generation' = generation /\ UNCHANGED guard
             /\ c.state # None
             /\ Target.state # None => LeagueOf[Target.state] = LeagueOf[c.state]
             /\ c.team \in {Target.team, None}
  <2>1. PICK s \in States :
        \/ SetSimulation(s, required)
        \/ SetValue(s, required)
        \/ \E f \in Forecasts :
             \/ SetForecast(f, s, required)
             \/ \E b, d \in BOOLEAN : SetBundle(f, s, b, d, required)
    BY DEF Attach
  <2>2. s # None /\ TeamIn(Target, s) \in {Target.team, None}
    BY DEF TeamIn
  <2> DEFINE sim == [Target EXCEPT !.team = TeamIn(Target, Target.state),
                                   !.simulation = s, !.value = None,
                                   !.publication = None]
             val == [Target EXCEPT !.team = TeamIn(Target, Target.state),
                                   !.value = s, !.publication = None]
  <2>3. CASE SetSimulation(s, required)
    <3>1. sim = Context(Target.state, TeamIn(Target, Target.state), Target.forecast, s,
                        None, Target.served, None)
      BY <1>2, SimulationUpdate, Zenon
    <3>2. Target.state = s /\ sim.state = s /\ sim.team = TeamIn(Target, s)
      BY <2>3, <3>1 DEF SetSimulation, Fits, Context
    <3>3. StoreContext(sim) /\ generation' = generation /\ UNCHANGED guard
      BY <2>3 DEF SetSimulation
    <3> HIDE DEF sim
    <3> QED
      BY <2>2, <3>2, <3>3
  <2>4. CASE SetValue(s, required)
    <3>1. val = Context(Target.state, TeamIn(Target, Target.state), Target.forecast,
                        Target.simulation, s, Target.served, None)
      BY <1>2, ValueUpdate, Zenon
    <3>2. Target.state = s /\ val.state = s /\ val.team = TeamIn(Target, s)
      BY <2>4, <3>1 DEF SetValue, Fits, Context
    <3>3. StoreContext(val) /\ generation' = generation /\ UNCHANGED guard
      BY <2>4 DEF SetValue
    <3> HIDE DEF val
    <3> QED
      BY <2>2, <3>2, <3>3
  <2>5. CASE \E f \in Forecasts : SetForecast(f, s, required)
    <3>1. PICK f \in Forecasts : SetForecast(f, s, required)
      BY <2>5
    <3> QED
      BY <2>2, <3>1 DEF SetForecast
  <2>6. CASE \E f \in Forecasts : \E b, d \in BOOLEAN : SetBundle(f, s, b, d, required)
    <3>1. PICK f \in Forecasts, b \in BOOLEAN, d \in BOOLEAN :
            SetBundle(f, s, b, d, required)
      BY <2>6
    <3> QED
      BY <2>2, <3>1 DEF SetBundle
  <2> QED
    BY <2>1, <2>3, <2>4, <2>5, <2>6
<1> QED
  BY <1>3, StoreRefines

(* Binding a publication and attaching a served snapshot are out of sight.  *)
LEMMA PresentRefines ==
  ASSUME IInv, Present
  PROVE  View!Stage
<1>1. published \in Contexts
  BY DEF IInv, Good
<1>2. Seen(published') = Seen(published)
  BY <1>1 DEF Present, BindPublication, SetServed, Contexts, Seen
<1>3. generation' = generation
  BY DEF Present, BindPublication, SetServed
<1> QED
  BY <1>2, <1>3, HiddenStep

(* Every step of the store is a step of the view or leaves it unchanged.    *)
LEMMA StepRefines == IInv /\ IInv' /\ [Next]_vars => [View!Next]_View!vars
<1> SUFFICES ASSUME IInv, IInv', [Next]_vars PROVE [View!Next]_View!vars
  OBVIOUS
<1>1. CASE \E s \in States : SetLeagueState(s)
  BY <1>1, ActivateRefines DEF View!Next
<1>2. CASE \E s \in States, l \in Maybe(Leagues) :
             SetLeagueStateIfGeneration(s, generation, l)
  BY <1>2, ActivateRefines DEF View!Next, SetLeagueStateIfGeneration
<1>3. CASE \E t \in Teams : SelectTeam(t)
  BY <1>3, SwitchedStep DEF View!Next, SelectTeam, Unstage
<1>4. CASE Clear
  BY <1>4, SwitchedStep DEF View!Next, Clear
<1>5. CASE \E s \in States : BeginWorking(s)
  BY <1>5, HiddenStep DEF View!Next, BeginWorking
<1>6. CASE Abort \/ \E g \in 0..generation : AbortIfGeneration(g)
  BY <1>6, HiddenStep DEF View!Next, Abort, AbortIfGeneration
<1>7. CASE \E required \in BOOLEAN : Attach(required)
  BY <1>7, AttachRefines DEF View!Next
<1>8. CASE Publish
  BY <1>8, PublishRefines DEF View!Next, Publish
<1>9. CASE Present
  BY <1>9, PresentRefines DEF View!Next
<1>10. CASE UNCHANGED vars
  BY <1>10 DEF vars, View!vars, WorkingActive
<1> QED
  BY <1>1, <1>2, <1>3, <1>4, <1>5, <1>6, <1>7, <1>8, <1>9, <1>10
     DEF Next, Switch, Reconcile

(* The store starts where the view starts: nothing loaded or staged.        *)
LEMMA InitRefines == Init => View!Init
BY DEF Init, View!Init, View!Empty, NoContext, Seen, WorkingActive

(* What readers see changes only as PublishedView promises: as a whole, by  *)
(* the publication of a terminal bundle of the same league and managed      *)
(* team, by a switch that invalidates older work, or by attaching evidence  *)
(* while nothing is staged.                                                 *)
THEOREM StoreRefinesView == Spec => ViewSpec
BY Invariance, InitRefines, StepRefines, PTL DEF Spec, ViewSpec, View!Spec

(* An activation of a state of the loaded league never takes from readers   *)
(* the only usable bundle, neither the current one nor the last-good one.   *)
LEMMA ActivationKeepsUsable ==
  ASSUME IInv, NEW s \in States, SetLeagueState(s), SameLeague(published, s),
         Usable(published)
  PROVE  Usable(published')
<1>1. Good(published) /\ published' = Activated(s)
  BY DEF IInv, SetLeagueState
<1>2. CASE published.state = s
  <2>1. TeamIn(published, s) = published.team
    BY <1>1, <1>2, CarriedTeam
  <2>2. published' = published
    BY <1>1, <1>2, <2>1, Fields DEF Activated, Context
  <2> QED
    BY <2>2
<1>3. CASE published.state # s
  <2>1. published'.served = ServedAfter(s)
    BY <1>1, <1>3 DEF Activated
  <2>2. CASE Terminal(published)
    BY <1>1, <2>1, <2>2 DEF ServedAfter, Usable, SameLeague
  <2>3. CASE ~Terminal(published)
    BY <1>1, <2>1, <2>3 DEF ServedAfter, Usable, SameLeague
  <2> QED
    BY <2>2, <2>3
<1> QED
  BY <1>2, <1>3

(* Whatever came before, same-league activations keep something usable.     *)
THEOREM LastGoodSurvives == Spec => LastGoodKept
<1>1. IInv /\ [Next]_vars
      => [\A s \in States :
            SetLeagueState(s) /\ SameLeague(published, s) /\ Usable(published)
            => Usable(published')]_vars
  BY ActivationKeepsUsable
<1> QED
  BY <1>1, Invariance, PTL DEF Spec, LastGoodKept
=============================================================================
