--------------------------- MODULE Reconciliation ---------------------------
(***************************************************************************)
(* The reconciliation of product/webapp.py for one user, over the store of  *)
(* RuntimeStore: requests capture the published identity outside every      *)
(* lock, join the job under way or admit another under reconciliation_lock, *)
(* and the coordinator's only worker runs the admitted jobs one at a time.  *)
(* A job stages a working generation, builds what it lacks in the heavy     *)
(* lane and publishes, revalidating at each step that the user still is     *)
(* where the request found them.                                            *)
(*                                                                         *)
(* A step under the user's lifecycle lock is one action of the store.       *)
(* Left out: what the coordinator saves of its jobs (IntelligenceJobs), the *)
(* puts of a publication (DurablePublication), the heavy lane itself        *)
(* (HeavyWork), the intrinsic build and the behavioral handoff.  Whether    *)
(* the published capabilities are "full" is the environment's choice.       *)
(***************************************************************************)
EXTENDS Naturals

CONSTANTS
  None, States, Leagues, Teams, Forecasts, PublicationIds,
  LeagueOf, TeamsOf, AsOf, InputPrint, Cutoff, Ready, Supplement, MaxGenerations,
  Requesters,   \* requests of the user, one at a time each
  MaxJobs       \* bound of the model on jobs admitted

ASSUME ReconciliationAssumption == MaxJobs \in Nat /\ None \notin Requesters

VARIABLES
  published, working, guard, pending, generation,   \* the store
  request,   \* requester -> what its request has captured
  job,       \* job number -> what it captured, and where it is
  current,   \* the number of the user's current job, 0 when there is none
  owner      \* reconciliation_league_by_user and reconciliation_generation_by_user

Store == INSTANCE RuntimeStore

ASSUME StoreAssumed == Store!StoreAssumption

store == <<published, working, guard, pending, generation>>
vars == <<store, request, job, current, owner>>

JobIds == 1..MaxJobs
Layers == {"forecast", "simulation", "value"}

NoIdentity == [generation |-> 0, league |-> None, team |-> None, state |-> None]
NoRequest == [pc |-> "idle", sync |-> FALSE, selects |-> FALSE, identity |-> NoIdentity]
NoJob ==
  [status |-> "none", pc |-> "none", sync |-> FALSE, identity |-> NoIdentity,
   row |-> None, target |-> None]
NoOwner == [generation |-> 0, league |-> None]

Init ==
  /\ Store!Init
  /\ request = [r \in Requesters |-> NoRequest]
  /\ job = [j \in JobIds |-> NoJob]
  /\ current = 0
  /\ owner = NoOwner

-----------------------------------------------------------------------------
(* The user connects, switches or reselects, while jobs run.                *)
Activate(s) ==
  /\ generation < MaxGenerations
  /\ Store!SetLeagueState(s)
  /\ UNCHANGED <<request, job, current, owner>>

(* select_team of webapp.py: the request owns the handoff to a job.         *)
SelectTeam(r, t) ==
  /\ request[r].pc = "idle"
  /\ generation < MaxGenerations
  /\ Store!SelectTeam(t)
  /\ request' = [request EXCEPT ![r] = [NoRequest EXCEPT !.pc = "context", !.selects = TRUE]]
  /\ UNCHANGED <<job, current, owner>>

(* A refresh, a connect that hands off, or the managed team selected again. *)
Ask(r, sync) ==
  /\ request[r].pc = "idle"
  /\ request' = [request EXCEPT ![r] = [NoRequest EXCEPT !.pc = "context", !.sync = sync]]
  /\ UNCHANGED <<store, job, current, owner>>

(* The answer to a selection is kept until the next request.                *)
Answered(r) ==
  request' = [request EXCEPT ![r] = IF @.selects THEN [@ EXCEPT !.pc = "answered"]
                                                 ELSE NoRequest]

Return(r) ==
  /\ request[r].pc = "answered"
  /\ request' = [request EXCEPT ![r] = NoRequest]
  /\ UNCHANGED <<store, job, current, owner>>

-----------------------------------------------------------------------------
(* _start_intelligence_reconciliation: the published context is read first, *)
(* the league generation after it.                                          *)
Loaded == published.state # None /\ published.team # None

CaptureContext(r) ==
  /\ request[r].pc = "context"
  /\ IF Loaded
     THEN request' = [request EXCEPT
            ![r].pc = "generation",
            ![r].identity = [generation |-> 0, league |-> LeagueOf[published.state],
                             team |-> published.team, state |-> published.state]]
     ELSE Answered(r)
  /\ UNCHANGED <<store, job, current, owner>>

CaptureGeneration(r) ==
  /\ request[r].pc = "generation"
  /\ request' = [request EXCEPT ![r].pc = "check", ![r].identity.generation = generation]
  /\ UNCHANGED <<store, job, current, owner>>

UnderWay(j) == j # 0 /\ job[j].status \in {"queued", "running"}

SameOwner(r) ==
  /\ UnderWay(current)
  /\ owner.league = request[r].identity.league
  /\ owner.generation = request[r].identity.generation

(* The early check; the two reads of it, which admission repeats, are one.  *)
Check(r) ==
  /\ request[r].pc = "check"
  /\ IF SameOwner(r) THEN Answered(r) ELSE request' = [request EXCEPT ![r].pc = "admit"]
  /\ UNCHANGED <<store, job, current, owner>>

(* Under reconciliation_lock.  A job of another owner is replaced as the    *)
(* current one, and still runs; the coordinator may have no room.           *)
Join(r) ==
  /\ request[r].pc = "admit" /\ SameOwner(r)
  /\ Answered(r)
  /\ UNCHANGED <<store, job, current, owner>>

MutantBusy(r) ==                 \* mutant: ownership is taken before there is room
  /\ request[r].pc = "admit" /\ ~SameOwner(r)
  /\ request' = [request EXCEPT ![r] = NoRequest]
  /\ \E j \in JobIds : job[j].status = "none" /\ current' = j
  /\ UNCHANGED <<store, job, owner>>
Busy(r) ==
  /\ request[r].pc = "admit" /\ ~SameOwner(r)
  /\ request' = [request EXCEPT ![r] = NoRequest]
  /\ UNCHANGED <<store, job, current, owner>>

Admit(r, j) ==
  LET identity == request[r].identity
  IN  /\ request[r].pc = "admit" /\ ~SameOwner(r)
      /\ job[j].status = "none" /\ \A i \in JobIds : i < j => job[i].status # "none"
      /\ job' = [job EXCEPT ![j] =
           [NoJob EXCEPT !.status = "queued", !.pc = "start", !.sync = request[r].sync,
                         !.identity = identity, !.row = identity.state]]
      /\ current' = j
      /\ owner' = [generation |-> identity.generation, league |-> identity.league]
      /\ Answered(r)
      /\ UNCHANGED store

-----------------------------------------------------------------------------
(* The coordinator runs one job at a time, in order.                        *)
Begin(j) ==
  /\ job[j].status = "queued"
  /\ \A i \in JobIds : job[i].status # "running" /\ (i < j => job[i].status # "queued")
  /\ job' = [job EXCEPT ![j].status = "running"]
  /\ UNCHANGED <<store, request, current, owner>>

At(j, pc) == job[j].status = "running" /\ job[j].pc = pc
Goto(j, pc) == job' = [job EXCEPT ![j].pc = pc]

(* require_active_league_identity.                                          *)
MutantOwns(j) ==                 \* mutant: the league is all that is revalidated
  /\ published.state # None
  /\ LeagueOf[published.state] = job[j].identity.league
Owns(j) ==
  /\ generation = job[j].identity.generation
  /\ published.state # None
  /\ LeagueOf[published.state] = job[j].identity.league
  /\ published.team = job[j].identity.team

(* require_heavy_phase_ownership.                                           *)
OwnsPhase(j) ==
  /\ Owns(j)
  /\ Store!WorkingActive
  /\ working.state = job[j].target

(* The work returns or raises: abort_working_generation_if_generation.      *)
MutantCleanUp(j) == UNCHANGED store   \* mutant: an interrupted job leaves its work staged
CleanUp(j) ==
  LET g == job[j].identity.generation
  IN  IF guard.state # None /\ guard.generation = g
      THEN Store!AbortIfGeneration(g)
      ELSE UNCHANGED store

Ended(j) ==
  job' = [job EXCEPT ![j] = [NoJob EXCEPT !.status = "ended", !.identity = job[j].identity]]

End(j) ==
  /\ CleanUp(j)
  /\ Ended(j)
  /\ UNCHANGED <<request, current, owner>>

(* A provider, a build, the store or the coordinator raises.                *)
Fail(j) == job[j].status = "running" /\ End(j)

(* published_generation_fully_current holds, and the user is still there.   *)
AlreadyCurrent(j) ==
  /\ At(j, "start")
  /\ Owns(j)
  /\ published.publication # None /\ Store!Terminal(published)
  /\ ~Store!WorkingActive
  /\ End(j)

(* State sync: the loaded state s is staged; a different one moves the row  *)
(* of the user's current job, whichever that is, and fails where that one   *)
(* is not under way for the state left behind.                              *)
Resynced(j, s) ==
  LET left == Store!Target.state
  IN  IF s = left
      THEN job' = [job EXCEPT ![j].pc = "restore", ![j].target = s]
      ELSE /\ UnderWay(current) /\ job[current].row = left
           /\ job' = [i \in JobIds |->
                [job[i] EXCEPT !.row = IF i = current THEN s ELSE @,
                               !.pc = IF i = j THEN "restore" ELSE @,
                               !.target = IF i = j THEN s ELSE @]]

Sync(j, s) ==
  /\ At(j, "start") /\ job[j].sync
  /\ LeagueOf[s] = job[j].identity.league
  /\ Owns(j)
  /\ Store!BeginWorking(s)
  /\ Resynced(j, s)
  /\ UNCHANGED <<request, current, owner>>

(* Without sync, the state the request found is staged.                     *)
Seed(j) ==
  /\ At(j, "start") /\ ~job[j].sync
  /\ Owns(j)
  /\ Store!BeginWorking(job[j].identity.state)
  /\ job' = [job EXCEPT ![j].pc = "restore", ![j].target = job[j].identity.state]
  /\ UNCHANGED <<request, current, owner>>

Lost(j) == job[j].pc \in {"start", "restore", "attach", "publish"} /\ ~Owns(j)

Interrupted(j) ==
  /\ job[j].status = "running"
  /\ Lost(j) \/ (job[j].pc \in Layers /\ ~OwnsPhase(j))
  /\ End(j)

(* restore_exact_state_intelligence: nothing, or a Forecast of the store    *)
(* with or without the rest.                                                *)
AfterRestore == IF Store!Terminal(working') THEN "publish" ELSE "forecast"

Restore(j) ==
  /\ At(j, "restore") /\ Owns(j)
  /\ \/ UNCHANGED store
     \/ \E f \in Forecasts, b, d \in BOOLEAN :
          Store!SetBundle(f, job[j].target, b, d, Store!WorkingActive)
  /\ Goto(j, AfterRestore)
  /\ UNCHANGED <<request, current, owner>>

(* A layer the working generation lacks is built, in the heavy lane, if the *)
(* job still owns it on admission; the build takes its time.                *)
Lacks(layer) ==
  CASE layer = "forecast" -> working.forecast = None
    [] layer = "simulation" ->
         working.forecast # None /\ Ready[working.forecast] /\ working.simulation = None
    [] layer = "value" -> working.value = None

Following(layer) ==
  CASE layer = "forecast" -> "simulation"
    [] layer = "simulation" -> "value"
    [] layer = "value" -> "publish"

Pass(j) ==
  /\ job[j].status = "running" /\ job[j].pc \in Layers /\ ~Lacks(job[j].pc)
  /\ Goto(j, Following(job[j].pc))
  /\ UNCHANGED <<store, request, current, owner>>

Build(j) ==
  /\ job[j].status = "running" /\ job[j].pc \in Layers /\ Lacks(job[j].pc)
  /\ OwnsPhase(j)
  /\ Goto(j, "attach")
  /\ UNCHANGED <<store, request, current, owner>>

(* The built layer is the first one missing.                                *)
Attach(j) ==
  LET s == job[j].target
  IN  /\ At(j, "attach") /\ Owns(j)
      /\ \/ /\ Lacks("forecast")
            /\ \E f \in Forecasts : Store!SetForecast(f, s, TRUE)
            /\ Goto(j, "simulation")
         \/ /\ ~Lacks("forecast") /\ Lacks("simulation")
            /\ Store!SetSimulation(s, TRUE)
            /\ Goto(j, "value")
         \/ /\ ~Lacks("forecast") /\ ~Lacks("simulation") /\ Lacks("value")
            /\ Store!SetValue(s, TRUE)
            /\ Goto(j, "publish")
      /\ UNCHANGED <<request, current, owner>>

(* publish_working_generation of webapp.py, the store's guard included; the *)
(* work returns after it.                                                   *)
Publish(j) ==
  /\ At(j, "publish")
  /\ generation < MaxGenerations \/ working.state = published.state
  /\ generation = job[j].identity.generation
  /\ LeagueOf[published.state] = job[j].identity.league
  /\ \E p \in PublicationIds : Store!PublishWorking(p)
  /\ Ended(j)
  /\ UNCHANGED <<request, current, owner>>

-----------------------------------------------------------------------------
Proceed(r) ==
  \/ CaptureContext(r) \/ CaptureGeneration(r) \/ Check(r) \/ Join(r) \/ Busy(r)
  \/ \E j \in JobIds : Admit(r, j)
  \/ Return(r)

Work(j) ==
  \/ Begin(j) \/ Fail(j) \/ Interrupted(j) \/ AlreadyCurrent(j)
  \/ \E s \in States : Sync(j, s)
  \/ Seed(j) \/ Restore(j) \/ Pass(j) \/ Build(j) \/ Attach(j) \/ Publish(j)

Next ==
  \/ \E s \in States : Activate(s)
  \/ \E r \in Requesters :
       \/ \E t \in Teams : SelectTeam(r, t)
       \/ \E sync \in BOOLEAN : Ask(r, sync)
       \/ Proceed(r)
  \/ \E j \in JobIds : Work(j)

Spec == Init /\ [][Next]_vars

-----------------------------------------------------------------------------
(* The variables have their types.                                          *)
Identities ==
  [generation : 0..MaxGenerations, league : Leagues \cup {None}, team : Teams \cup {None},
   state : States \cup {None}]

TypeOK ==
  /\ Store!TypeOK
  /\ \A r \in Requesters : request[r].identity \in Identities
  /\ \A j \in JobIds :
       job[j].identity \in Identities /\ {job[j].row, job[j].target} \subseteq States \cup {None}
  /\ current \in JobIds \cup {0}
  /\ current # 0 => job[current].status # "none"

(* A working generation always has its job: the one that runs, seeded under *)
(* the league generation and for the team its request captured, and holding *)
(* the state it targets.  None is left over by a job that was interrupted,  *)
(* failed or found nothing to do, for a later one to build on.              *)
WorkingOwned ==
  Store!WorkingActive =>
    \E j \in JobIds :
      /\ job[j].status = "running" /\ job[j].pc # "start"
      /\ guard.generation = job[j].identity.generation
      /\ guard.team = job[j].identity.team
      /\ working.state = job[j].target

(* What becomes visible is what the publishing job built, for the user's    *)
(* identity at its request: no team switch or activation in between, in     *)
(* whatever order requests replaced each other's jobs, lets a job publish   *)
(* for another team or a later league generation than the request read.     *)
(* Its State is read before that generation, and may be an older one of the *)
(* same league.                                                             *)
PublishedOwned ==
  [][\A j \in JobIds :
       At(j, "publish") /\ published' # published /\ job'[j].status = "ended"
       => /\ generation = job[j].identity.generation
          /\ published.team = job[j].identity.team
          /\ published'.team = job[j].identity.team
          /\ published'.state = job[j].target
          /\ Store!Terminal(published')]_vars

(* "The team-selection request owns the handoff so a browser timing gap can *)
(* never leave a valid selected team without a current replacement job"     *)
(* (select_team of webapp.py): when the request is answered and the user    *)
(* has not moved since, some admitted job is for the team selected.         *)
HandoffOwned ==
  \A r \in Requesters :
    LET identity == request[r].identity
    IN  /\ request[r].pc = "answered" /\ request[r].selects
        /\ generation = identity.generation /\ published.team = identity.team
        => \E j \in JobIds :
             /\ job[j].status # "none"
             /\ job[j].identity.generation = generation
             /\ job[j].identity.team = published.team
=============================================================================
