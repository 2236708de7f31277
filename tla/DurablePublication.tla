------------------------- MODULE DurablePublication -------------------------
(***************************************************************************)
(* How one user's runtime identity becomes durable and comes back after a   *)
(* crash: persist_runtime_snapshot and restore_runtime_snapshot of          *)
(* persistence/session.py, called by the user's checkpoint executor and by  *)
(* the publication path of product/persistent_runtime.py and                *)
(* product/webapp.py.  Two threads write: the checkpoint executor ("queue") *)
(* and whoever holds the user's publication sequence ("owner").  Each put   *)
(* of a snapshot is a step of its own; a crash or a failed put can come     *)
(* between any two.                                                         *)
(*                                                                         *)
(* One league.  A state is its observation time.  Simulation is known by    *)
(* the Forecast it was computed from, which is its artifact key, and every  *)
(* Forecast is uncertainty_ready.  The working generation's seed is its     *)
(* publication id only: that its league generation, state and team are      *)
(* still the published ones is RuntimeStore's SeedCurrent.                  *)
(*                                                                         *)
(* Left out: team and market-value snapshots and the atlas baseline, the    *)
(* keys _persist_context reuses, the served last-good snapshot, and state   *)
(* history.  The user- and league-scoped last-good records, written one     *)
(* after the other, are one.                                                *)
(***************************************************************************)
EXTENDS Naturals, Sequences

CONSTANTS
  None,
  States,       \* observation times of the league's states; 0 is no state
  Teams,
  MaxRuns,      \* bounds of the model on computations of evidence,
  MaxPromotions, MaxEvents, MaxQueue, MaxFaults   \* promotions, requests, tasks, faults

ASSUME PublicationAssumption ==
  /\ States \subseteq Nat \ {0}
  /\ None \notin Teams \cup Nat \cup ({"promoted", "bootstrap"} \X Nat)
  /\ {MaxRuns, MaxPromotions, MaxEvents, MaxQueue, MaxFaults} \subseteq Nat

VARIABLES
  durable,     \* the tables of the persistence store
  published,   \* the published context in memory
  working,     \* the working generation, with the publication id it was seeded from
  queue,       \* tasks submitted to the checkpoint executor and not begun
  latestOk,    \* FALSE once the last submitted checkpoint has failed
  write,       \* thread -> the snapshot it is writing
  phase,       \* what the owner of the publication sequence does
  runs,        \* forecast and value computations so far
  promotions,  \* presentation promotions so far
  events,      \* requests so far
  faults,      \* crashes and failed writes so far
  up           \* whether the process runs

vars ==
  <<durable, published, working, queue, latestOk, write, phase, runs, promotions, events,
    faults, up>>

Maybe(S) == S \cup {None}
Runs == 1..MaxRuns
Threads == {"queue", "owner"}
Phases == {"idle", "drain", "boot", "stage", "promote", "commit", "bind"}
Puts == {"row", "pointer", "forecast", "simulation", "value", "manifest", "lastGood"}

Generations ==
  {None} \cup ({"promoted"} \X Nat) \cup ({"bootstrap"} \X States)
    \cup ({"content"} \X States \X Maybe(Teams) \X Runs \X Runs)

(* UserRuntimeContext, and DurableRuntimeSnapshot.                          *)
Contexts ==
  [state : States \cup {0}, team : Maybe(Teams), forecast : Maybe(Runs),
   simulation : BOOLEAN, value : Maybe(Runs), generation : Generations]
NoContext ==
  [state |-> 0, team |-> None, forecast |-> None, simulation |-> FALSE,
   value |-> None, generation |-> None]

(* _terminal_bundle.                                                        *)
Terminal(c) == c.forecast # None /\ c.simulation /\ c.value # None

Identities == [state : States \cup {0}, team : Maybe(Teams)]
NoIdentity == [state |-> 0, team |-> None]

(* _published_generation_record: the artifacts a generation is made of.     *)
Manifest(c) ==
  [forecast |-> c.forecast, simulation |-> c.simulation, value |-> c.value,
   team |-> c.team, generation |-> c.generation]
NoManifest == Manifest(NoContext)

EmptyStore ==
  [row |-> 0, pointer |-> NoIdentity, lastGood |-> NoIdentity,
   forecasts |-> {}, simulations |-> {}, values |-> {},
   newest |-> [s \in States |-> [forecast |-> None, value |-> None]],
   manifest |-> [s \in States |-> NoManifest],
   presented |-> [s \in States |-> NoContext]]

(* A snapshot being written.  superseded: the other thread, which began     *)
(* later, has already written a manifest for the same state, so this one's  *)
(* computed_at no longer makes it the newest.                               *)
Idle == [context |-> NoContext, todo |-> <<>>, earlier |-> FALSE, superseded |-> FALSE]
Writing(t) == write[t] # Idle

Init ==
  /\ durable = EmptyStore
  /\ published = NoContext
  /\ working = NoContext
  /\ queue = <<>>
  /\ latestOk = TRUE
  /\ write = [t \in Threads |-> Idle]
  /\ phase = "idle"
  /\ runs = 0 /\ promotions = 0 /\ events = 0 /\ faults = 0
  /\ up = TRUE

-----------------------------------------------------------------------------
(* persist_runtime_snapshot: the puts of context c, in order.  A terminal   *)
(* publication moves the pointer only after its manifest.                   *)
Plan(c, publish) ==
  LET If(b, put) == IF b THEN <<put>> ELSE <<>>
  IN  <<"row">>
      \o If(publish /\ ~Terminal(c), "pointer")
      \o If(c.forecast # None, "forecast")
      \o If(c.simulation /\ c.forecast # None, "simulation")
      \o If(c.value # None, "value")
      \o IF publish /\ Terminal(c) THEN <<"manifest", "pointer", "lastGood">> ELSE <<>>

(* A publication without an id is identified by what it is made of.         *)
Identified(c) ==
  IF Terminal(c) /\ c.generation = None
  THEN [c EXCEPT !.generation = <<"content", c.state, c.team, c.forecast, c.value>>]
  ELSE c

Other(t) == CHOOSE u \in Threads : u # t

BeginWrite(t, c, publish) ==
  write' = [write EXCEPT
    ![t] = [context |-> IF publish THEN Identified(c) ELSE c, todo |-> Plan(c, publish),
            earlier |-> FALSE, superseded |-> FALSE],
    ![Other(t)].earlier = Writing(Other(t))]

(* One put of context c into store d.  The league row is shared by all      *)
(* users and never goes back in time; an artifact put again becomes the     *)
(* newest of its scope.                                                     *)
Stored(d, put, c, superseded) ==
  CASE put = "row" -> [d EXCEPT !.row = IF c.state > @ THEN c.state ELSE @]
    [] put = "pointer" -> [d EXCEPT !.pointer = [state |-> c.state, team |-> c.team]]
    [] put = "lastGood" -> [d EXCEPT !.lastGood = [state |-> c.state, team |-> c.team]]
    [] put = "forecast" -> [d EXCEPT !.forecasts = @ \cup {c.forecast},
                                     !.newest[c.state].forecast = c.forecast]
    [] put = "simulation" -> [d EXCEPT !.simulations = @ \cup {c.forecast}]
    [] put = "value" -> [d EXCEPT !.values = @ \cup {c.value},
                                  !.newest[c.state].value = c.value]
    [] put = "manifest" ->
         IF superseded THEN d ELSE [d EXCEPT !.manifest[c.state] = Manifest(c)]

Put(t) ==
  LET now == write[t]
      put == Head(now.todo)
      other == write[Other(t)]
  IN  /\ now.todo # <<>>
      /\ durable' = Stored(durable, put, now.context, now.superseded)
      /\ write' = [write EXCEPT
           ![t].todo = Tail(@),
           ![Other(t)].superseded =
             @ \/ /\ put = "manifest" /\ other.earlier
                  /\ other.context.state = now.context.state]
      /\ UNCHANGED <<published, working, queue, latestOk, phase, runs, promotions, events,
                     faults, up>>

-----------------------------------------------------------------------------
(* restore_published_state_bound_intelligence: the artifacts the manifest   *)
(* of state s names; without one, the newest of the state.                  *)
Bound(d, s) ==
  IF d.manifest[s] = NoManifest THEN d.newest[s]
  ELSE [forecast |-> IF d.manifest[s].forecast \in d.forecasts
                     THEN d.manifest[s].forecast ELSE None,
        value |-> IF d.manifest[s].value \in d.values
                  THEN d.manifest[s].value ELSE None]

Evidence(d, s, team) ==
  LET bound == Bound(d, s)
      m == d.manifest[s]
  IN  [state |-> s, team |-> team, forecast |-> bound.forecast,
       simulation |-> /\ bound.forecast # None
                      /\ bound.forecast \in d.simulations
                      /\ m = NoManifest \/ m.simulation,
       value |-> bound.value,
       generation |-> IF m # NoManifest /\ m.team = team THEN m.generation ELSE None]

(* restore_runtime_snapshot: what a restart would load from store d.  The   *)
(* shared row may have moved on; then only last-good still has the state.   *)
Restored(d) ==
  LET s == d.pointer.state
  IN  IF s # 0 /\ s \in {d.row, d.lastGood.state}
      THEN Evidence(d, s, d.pointer.team)
      ELSE NoContext

-----------------------------------------------------------------------------
(* The lifecycle lock is free.                                              *)
Free == up /\ phase = "idle"

Request == Free /\ events < MaxEvents /\ events' = events + 1

(* _checkpoint_async and _checkpoint_managed_team_async: a queued task of   *)
(* the same kind and state is cancelled.  An identity task is for the       *)
(* league generation of its submission: a later one makes it stale.         *)
Task(kind, c) == [kind |-> kind, context |-> c, stale |-> FALSE]

Staled(q) == [i \in DOMAIN q |-> [q[i] EXCEPT !.stale = TRUE]]

MutantSubmitted(q, task) ==      \* mutant: coalescing keeps the older task
  LET n == Len(q)
      subsumed == /\ n > 0
                  /\ q[n].kind = task.kind
                  /\ q[n].context.state = task.context.state
  IN  IF subsumed THEN q ELSE Append(q, task)
Submitted(q, task) ==
  LET n == Len(q)
      subsumed == /\ n > 0
                  /\ q[n].kind = task.kind
                  /\ q[n].context.state = task.context.state
  IN  IF subsumed THEN [q EXCEPT ![n] = task] ELSE Append(q, task)

Submit(q, task) ==
  /\ queue' = Submitted(q, task)
  /\ Len(queue') <= MaxQueue
  /\ latestOk' = TRUE

(* activate_league_state_for_connect exposes state s with nothing but what  *)
(* memory had for it; set_league_state (persistent_runtime.py) also         *)
(* restores the evidence the store has, and the managed team if need be.    *)
Activated(s) ==
  IF published.state = s THEN published
  ELSE [NoContext EXCEPT !.state = s, !.team = published.team]

Recovered(s) ==
  LET c == Activated(s)
      owned == IF c.team = None /\ durable.pointer.state = s
               THEN durable.pointer.team ELSE c.team
      found == Evidence(durable, s, owned)
      team == IF found.team = None THEN durable.manifest[s].team ELSE found.team
  IN  IF found.forecast = None /\ found.value = None
      THEN [c EXCEPT !.team = owned]
      ELSE Evidence(durable, s, team)

Activate(s) ==
  /\ Request
  /\ s >= published.state
  /\ \E c \in {Activated(s), Recovered(s)} :
       /\ published' = c
       /\ Submit(IF published.state = s THEN queue ELSE Staled(queue), Task("snapshot", c))
  /\ working' = NoContext
  /\ UNCHANGED <<durable, write, phase, runs, promotions, faults, up>>

(* select_team.                                                             *)
MutantSelectTeam(t) ==           \* mutant: the other team's publication id stays
  /\ Request
  /\ published.state # 0 /\ t # published.team
  /\ published' = [published EXCEPT !.team = t]
  /\ working' = NoContext
  /\ Submit(Staled(queue), Task("identity", published'))
  /\ UNCHANGED <<durable, write, phase, runs, promotions, faults, up>>
SelectTeam(t) ==
  /\ Request
  /\ published.state # 0 /\ t # published.team
  /\ published' = [published EXCEPT !.team = t, !.generation = None]
  /\ working' = NoContext
  /\ Submit(Staled(queue), Task("identity", published'))
  /\ UNCHANGED <<durable, write, phase, runs, promotions, faults, up>>

(* begin_working_generation and the layers a reconciliation attaches: a     *)
(* fresh Value, on a fresh Forecast or on the newest one of the state.      *)
Stage(s) ==
  /\ Request
  /\ published.state # 0 /\ s >= published.state
  /\ working = NoContext
  /\ runs < MaxRuns
  /\ runs' = runs + 1
  /\ \E f \in {runs'} \cup ({durable.newest[s].forecast} \ {None}) :
       working' = [state |-> s, team |-> published.team, forecast |-> f,
                   simulation |-> TRUE, value |-> runs',
                   generation |-> published.generation]
  /\ UNCHANGED <<durable, published, queue, latestOk, write, phase, promotions, faults, up>>

-----------------------------------------------------------------------------
(* The checkpoint executor, one task at a time.  _persist_managed_team_     *)
(* identity holds the lifecycle lock; its state must already be durable.    *)
StartSnapshot ==
  /\ up
  /\ ~Writing("queue") /\ queue # <<>> /\ Head(queue).kind = "snapshot"
  /\ BeginWrite("queue", Head(queue).context, TRUE)
  /\ queue' = Tail(queue)
  /\ UNCHANGED <<durable, published, working, latestOk, phase, runs, promotions, events,
                 faults, up>>

EndSnapshot ==
  /\ Writing("queue") /\ write["queue"].todo = <<>>
  /\ write' = [write EXCEPT !["queue"] = Idle, !["owner"].earlier = FALSE]
  /\ UNCHANGED <<durable, published, working, queue, latestOk, phase, runs, promotions, events,
                 faults, up>>

WriteIdentity ==
  LET c == Head(queue).context
      ok == /\ ~Head(queue).stale
            /\ c.state \in {durable.row, durable.lastGood.state}
  IN  /\ Free
      /\ ~Writing("queue") /\ queue # <<>> /\ Head(queue).kind = "identity"
      /\ durable' = IF ok THEN Stored(durable, "pointer", c, FALSE) ELSE durable
      /\ queue' = Tail(queue)
      /\ latestOk' = (ok \/ Len(queue) > 1)
      /\ UNCHANGED <<published, working, write, phase, runs, promotions, events, faults, up>>

-----------------------------------------------------------------------------
(* publish_working_generation of webapp.py, under publication_sequence.     *)
Stays == UNCHANGED <<queue, latestOk, runs, promotions, events, faults, up>>

BeginPublication ==
  /\ Free /\ working # NoContext
  /\ phase' = "drain"
  /\ UNCHANGED <<durable, published, working, write>> /\ Stays

(* A publication that cannot go on raises, and its job aborts the working   *)
(* generation.                                                              *)
Abandon ==
  /\ phase' = "idle"
  /\ working' = NoContext

(* checkpoint_working_generation waits for the last checkpoint submitted.   *)
(* It gives up when that one failed, or has not ended within 180 seconds.   *)
NothingQueued == queue = <<>> /\ ~Writing("queue")
Drained == NothingQueued /\ latestOk

DrainFails ==
  /\ phase = "drain" /\ ~Drained
  /\ Abandon
  /\ UNCHANGED <<durable, published, write>> /\ Stays

(* Restart authority of a terminal published bundle comes first, under the  *)
(* durable id of its team, or a bootstrap one; not when another team's      *)
(* generation is the durable one and this team has none yet.                *)
MutantBootGeneration ==          \* mutant: the bootstrap id is the team's, not the state's
  LET m == durable.manifest[published.state]
  IN  CASE published.generation # None -> published.generation
        [] published.generation = None /\ m.generation # None /\ m.team = published.team ->
             m.generation
        [] OTHER -> <<"bootstrap", published.team>>
BootGeneration ==
  LET m == durable.manifest[published.state]
  IN  CASE published.generation # None -> published.generation
        [] published.generation = None /\ m.generation # None /\ m.team = published.team ->
             m.generation
        [] OTHER -> <<"bootstrap", published.state>>

GenerationStale ==
  LET m == durable.manifest[published.state]
  IN  published.generation = None /\ m.generation # None /\ m.team # published.team

NeedsBoot == Terminal(published) /\ ~GenerationStale

Boot ==
  /\ phase = "drain" /\ Drained
  /\ IF NeedsBoot
     THEN /\ phase' = "boot"
          /\ BeginWrite("owner", [published EXCEPT !.generation = BootGeneration], TRUE)
     ELSE /\ phase' = "stage"
          /\ BeginWrite("owner", working, FALSE)
  /\ UNCHANGED <<durable, published, working>> /\ Stays

OwnerWritten == Writing("owner") /\ write["owner"].todo = <<>>

MutantStageArtifacts ==          \* mutant: the working artifacts move the pointer
  /\ phase = "boot" /\ OwnerWritten
  /\ phase' = "stage"
  /\ BeginWrite("owner", working, TRUE)
  /\ UNCHANGED <<durable, published, working>> /\ Stays
StageArtifacts ==
  /\ phase = "boot" /\ OwnerWritten
  /\ phase' = "stage"
  /\ BeginWrite("owner", working, FALSE)
  /\ UNCHANGED <<durable, published, working>> /\ Stays

(* PresentationContinuity.promote: the manifest of a state's surfaces is    *)
(* overwritten; there is one per state.  A reader is served them for the    *)
(* publication id they were promoted under.                                 *)
Promoted == <<"promoted", promotions + 1>>

Present(c) ==
  /\ promotions < MaxPromotions
  /\ promotions' = promotions + 1
  /\ durable' = [durable EXCEPT !.presented[c.state] = [c EXCEPT !.generation = Promoted]]

PromoteWorking ==
  /\ phase = "stage" /\ OwnerWritten
  /\ phase' = "promote"
  /\ Present(working)
  /\ write' = [write EXCEPT !["owner"] = Idle]
  /\ UNCHANGED <<published, working, queue, latestOk, runs, events, faults, up>>

(* publish_working_generation of runtime.py: the published identity must    *)
(* still be the one the working generation was seeded from, the bundle      *)
(* terminal; then the durable commit, then the swap.                        *)
LastPromoted == <<"promoted", promotions>>
Target == [working EXCEPT !.generation = LastPromoted]

SeedHolds ==
  /\ working.generation = published.generation
  /\ working.team = published.team
  /\ Terminal(working)

Commit ==
  /\ phase = "promote" /\ SeedHolds
  /\ phase' = "commit"
  /\ BeginWrite("owner", Target, TRUE)
  /\ UNCHANGED <<durable, published, working>> /\ Stays

Refuse ==
  /\ phase = "promote" /\ ~SeedHolds
  /\ Abandon
  /\ UNCHANGED <<durable, published, write>> /\ Stays

MutantSwap ==                    \* mutant: readers see the bundle before its commit
  /\ phase = "commit"
  /\ published' = Target
  /\ working' = NoContext
  /\ phase' = "idle"
  /\ write' = [write EXCEPT !["owner"] = Idle]
  /\ UNCHANGED durable /\ Stays
Swap ==
  /\ phase = "commit" /\ OwnerWritten
  /\ published' = Target
  /\ working' = NoContext
  /\ phase' = "idle"
  /\ write' = [write EXCEPT !["owner"] = Idle]
  /\ UNCHANGED durable /\ Stays

(* A presentation promoted for the published bundle, by the dynasty         *)
(* follow-up or the startup restore, and bound to it without a drain        *)
(* (_bind_publication_generation_id_under_lifecycle).                       *)
Bind ==
  /\ Free /\ Terminal(published)
  /\ Present(published)
  /\ published' = [published EXCEPT !.generation = Promoted]
  /\ phase' = "bind"
  /\ BeginWrite("owner", published', TRUE)
  /\ UNCHANGED <<working, queue, latestOk, runs, events, faults, up>>

EndBind ==
  /\ phase = "bind" /\ OwnerWritten
  /\ phase' = "idle"
  /\ write' = [write EXCEPT !["owner"] = Idle, !["queue"].earlier = FALSE]
  /\ UNCHANGED <<durable, published, working>> /\ Stays

-----------------------------------------------------------------------------
(* A put that raises ends its snapshot: the executor's checkpoint is false, *)
(* the publication is abandoned, a binding stays in memory only.            *)
Fault == faults < MaxFaults /\ faults' = faults + 1

MutantPutFails(t) ==             \* mutant: the failed put is passed over
  /\ Fault
  /\ write[t].todo # <<>>
  /\ write' = [write EXCEPT ![t].todo = Tail(@)]
  /\ UNCHANGED <<durable, published, working, queue, latestOk, phase, runs, promotions,
                 events, up>>
PutFails(t) ==
  /\ Fault
  /\ write[t].todo # <<>>
  /\ write' = [write EXCEPT ![t] = Idle, ![Other(t)].earlier = FALSE]
  /\ latestOk' = (latestOk /\ (t = "queue" => queue # <<>>))
  /\ phase' = IF t = "owner" THEN "idle" ELSE phase
  /\ working' = IF t = "owner" /\ phase # "bind" THEN NoContext ELSE working
  /\ UNCHANGED <<durable, published, queue, runs, promotions, events, up>>

(* Another user of the league, with a newer observation of it, at any time. *)
OtherUser(s) ==
  /\ up
  /\ events < MaxEvents /\ events' = events + 1
  /\ s > durable.row
  /\ durable' = [durable EXCEPT !.row = s]
  /\ UNCHANGED <<published, working, queue, latestOk, write, phase, runs, promotions, faults, up>>

Crash ==
  /\ Fault /\ up
  /\ up' = FALSE
  /\ published' = NoContext
  /\ working' = NoContext
  /\ queue' = <<>>
  /\ latestOk' = TRUE
  /\ write' = [t \in Threads |-> Idle]
  /\ phase' = "idle"
  /\ UNCHANGED <<durable, runs, promotions, events>>

(* restore_user: the restored bundle, if terminal, is last-good again.      *)
Restart ==
  /\ ~up
  /\ up' = TRUE
  /\ published' = Restored(durable)
  /\ durable' = IF Terminal(published') THEN Stored(durable, "lastGood", published', FALSE)
                ELSE durable
  /\ UNCHANGED <<working, queue, latestOk, write, phase, runs, promotions, events, faults>>

Requests ==
  \/ \E s \in States : Activate(s) \/ Stage(s) \/ OtherUser(s)
  \/ \E t \in Teams : SelectTeam(t)

Executor == StartSnapshot \/ EndSnapshot \/ WriteIdentity

Publication ==
  \/ BeginPublication \/ DrainFails \/ Boot \/ StageArtifacts \/ PromoteWorking
  \/ Commit \/ Refuse \/ Swap \/ Bind \/ EndBind

Next ==
  \/ Requests \/ Executor \/ Publication
  \/ \E t \in Threads : Put(t) \/ PutFails(t)
  \/ Crash \/ Restart

Spec == Init /\ [][Next]_vars

-----------------------------------------------------------------------------
(* The variables have their types.                                          *)
TypeOK ==
  /\ durable.row \in States \cup {0}
  /\ {durable.pointer, durable.lastGood} \subseteq Identities
  /\ durable.forecasts \cup durable.simulations \cup durable.values \subseteq Runs
  /\ published \in Contexts /\ working \in Contexts
  /\ \A t \in Threads : write[t].context \in Contexts
  /\ Len(queue) <= MaxQueue
  /\ phase \in Phases
  /\ latestOk \in BOOLEAN /\ up \in BOOLEAN

(* A durable generation manifest names only artifacts that are durable,     *)
(* whichever writes were interrupted before and after it.                   *)
ManifestBacked ==
  \A s \in States :
    LET m == durable.manifest[s]
    IN  m # NoManifest =>
          /\ m.forecast \in durable.forecasts
          /\ m.simulation /\ m.forecast \in durable.simulations
          /\ m.value \in durable.values

Evidenced(c) == [c EXCEPT !.generation = None]

Serves(c, d) ==
  /\ Evidenced(c) = Evidenced(d)
  /\ d.generation # None => c.generation = d.generation

(* From its restart authority on, a publication replaces what a crash would *)
(* restore as a whole: the bundle readers see, and then the one they are    *)
(* about to see, each with its one state, its managed team and its exact    *)
(* evidence, never a mix and never nothing (persist_runtime_snapshot,       *)
(* "Crash-safe publication order").  The restart authority establishes it,  *)
(* and every later step keeps it, unless another user takes the shared row  *)
(* past the state published: the step from the pointer to the last-good     *)
(* record is then a window in which nothing is restored.                    *)
Whole(d) ==
  \/ Serves(Restored(d), published) /\ d.lastGood.state = published.state
  \/ phase = "commit" /\ Restored(d) = Target
AtomicPublish ==
  [][/\ StageArtifacts => Whole(durable)
     /\ /\ phase \in {"boot", "stage", "promote", "commit"}
        /\ Terminal(published)
        /\ durable'.row <= working.state
        /\ Whole(durable)
        => Whole(durable')]_vars

(* When a publication becomes visible, a restart already restores it.       *)
PublishDurable == [][Swap => Restored(durable) = published']_vars

(* Surfaces that would be served for the published id were composed from    *)
(* exactly the published bundle and team.  The code does not keep this: a   *)
(* commit that fails after its manifest leaves its id durable,              *)
(* BootGeneration gives that id to the team's old bundle, and after a crash *)
(* then the old bundle is served with the surfaces of the failed one.       *)
SurfacesCurrent ==
  published.state # 0 /\ published.generation # None =>
    LET surfaces == durable.presented[published.state]
    IN  surfaces.generation = published.generation => surfaces = published

(* One crash or failed write, wherever it comes, never pairs a publication  *)
(* id with the surfaces of another bundle, whatever publications, team      *)
(* switches, bindings and restarts follow it (the test by which             *)
(* presentation_continuity.py serves a surface).                            *)
SurfacesPaired == faults <= 1 => SurfacesCurrent

(* With nothing left to write and no write failed, a restart brings back    *)
(* the terminal bundle readers see, under the team they see it for.  (Not   *)
(* its publication id: a queued checkpoint can outlive a binding.)          *)
RestartCurrent ==
  Free /\ NothingQueued /\ faults = 0 /\ Terminal(published) =>
    Evidenced(Restored(durable)) = Evidenced(published)

(* "For changed-State publication a crash before step 3 still restores the  *)
(* prior State" (persist_runtime_snapshot), whether or not that State has   *)
(* its intelligence yet.                                                    *)
PriorRestored ==
  phase \in {"stage", "promote"} /\ working.state # published.state
                                 /\ durable.row <= working.state
  => Restored(durable).state = published.state
=============================================================================
