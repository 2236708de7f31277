# FSFFL NEXT in TLA+

FSFFL NEXT serves governed fantasy-football intelligence from one small hosted
process.  Its models are numeric; what makes the product correct is everything
around them: one canonical State per user, expensive evidence computed in the
background, a last-good answer kept in front of readers while the next one is
prepared, and durable snapshots from which a restarted process goes on.  This
project specifies that control in TLA+, checks it with TLC on small instances
and proves the parts that matter most with TLAPS for every value of the
constants.

Paths are relative to `src/fsffl/product/` unless they start elsewhere.

## The system

| Part | State it keeps | Operations | Talks to |
| --- | --- | --- | --- |
| Heavy-work lane, `resource_coordinator.py` | active thread, waiting count, admissions and completions by kind | `claim` (a context manager) | every background build of the process |
| Runtime store, `runtime.py` | per user: published context, working context, guard it was seeded with, pending State, league generation; one lifecycle lock per user | activate a State, attach Forecast / Simulation / Value / bundle, select team, begin, abort and publish a working generation, clear | request threads, reconciliation jobs |
| Durable store, `persistent_runtime.py` | the above, plus per user a checkpoint executor and its latest Future, and the durable pointer | the same operations, each followed by a checkpoint; `checkpoint_working_generation`, restore | `persistence/` |
| Intelligence jobs, `background_jobs.py` | job map, current job per user, single-flight lock per user, admission slots, a durable row per job | `start`, `current`, progress and terminal updates, eviction, restart recovery | reconciliation, status routes |
| Intrinsic coordinator, `intrinsic_background.py` | build records by key, Futures, user epochs | `request`, `wait_for_terminal`, restore, release, discard, `clear_user`, the worker | the lane, the State boundary, product routes |
| Reconciliation, `webapp.py` | nothing of its own: a job body over the store, the lane and the coordinators | start, stage evidence, publish or abort | all of the above |
| Hosted connect, `hosted_connect.py` | connect and refresh jobs, the current one per user, a sync cursor per league | start, poll, load, activate, hand over to reconciliation | store, boundary, jobs |
| State boundary, in `resource_coordinator.py` | the registered clearers, in order | activate a State under the lifecycle lock and run them | the holders' clearers |
| Market caches, enrichment, Behavioral and Player history (`opportunity_workspace_cache.py`, `market_progressive_enrichment.py`, `behavioral_runtime.py`, `player_intelligence_routes.py`) | per user: results, records, Futures | request, build, attach, hydrate, clear | store (whose State is in scope), lane |
| Foreground pressure, `foreground_pressure.py` | counter of foreground requests, yield budget | enter, leave, yield | background phases |
| Presentation continuity, `presentation_continuity.py` | promoted snapshots by generation and team | promote, serve, invalidate | publication, routes |
| Durable commit, `src/fsffl/persistence/session.py` | artifacts, manifest, pointer, last-good identity | manifest-last commit, restore | durable store |
| Forecast, value, utility, trade and search models | none | pure numeric functions | loaders |

The behaviours that are hard here are interleavings of request threads with
background threads (publication against activation, polls against starts, a
clearing against work under way), results that arrive after what they were for
has gone, bounded maps and queues at their limit, locks taken in two orders,
and a restart in the middle of durable writes.  What makes each part correct:

* lane: one build at a time, no waiter left behind, accounts that balance on
  every way out of `claim`;
* store: evidence only ever beside the State it was computed for, staged work
  that dies with the identity it was seeded from, last-good never lost;
* durable store: writes in order, and a quiet queue means the pointer is what
  readers see;
* jobs: no duplicate work, no slot lost or given back twice, no job of a dead
  process shown as under way;
* intrinsic: nothing of a cleared lifecycle returns, and a record that says
  queued or running is really going to be settled;
* reconciliation, connect, presentation: a result is published for the State
  and generation it was computed for, or not at all.

`PROJECT.json` lists each hazard at the line where it bites, with the
properties that would catch it, or why none does.

## Modules

`HeavyWork` — the lane.  Each critical section of `claim` under its Condition is
an action; `pc` is the place of a thread between them.  `ClaimFree`,
`ClaimBusy` and `ClaimNested` are the entry, `WakeFree` and `WakeBusy` the loop
test after a notification or a deadline (`Expire`), `StartBody` the memory test
(which may refuse), `Release` the `finally`.  A newcomer takes a free lane past
notified waiters, as the code does.

`RuntimeStore` — one user's entry in `PrivateBetaRuntimeStore`.  States,
forecasts and teams are model values described by constant functions (league,
teams, as-of time, input fingerprint, source cutoff), so the carry-over rules
of `_activated_context` and `_fits` are the code's comparisons.  `published`,
`working`, `guard`, `pending`, `generation` are its maps, and each public
operation, which runs under the lifecycle lock, is one action.  Users share no
map entry, so one is enough.  `intelligence_reused` and `read_context`, a
thread's private view, are left out.  The read of the pending State in
`set_league_state` cannot be reached and is not modelled.

`PublishedView` — what the store promises readers: the visible view changes
only as a whole, by publishing a terminal bundle of the same league and team, by
a switch of identity that starts a new epoch, or by a direct attachment while
nothing is staged.  `RuntimeStore` implements it under the mapping `View`
(`view` is the visible fields of `published`, `staged` whether a working
generation exists, `epoch` the league generation).

`IntelligenceJobs` — `IntelligenceJobCoordinator` with its durable rows.  The
job map changes in one step per critical section; rows are read and written
outside it, so `Persist`, `Save`, `Mark` and `Install` are steps of their own,
and a row carries the time that was taken *before* the change it records.
`Restart` loses everything but the rows.

`CheckpointQueue` — the per-user queue of `persistent_runtime.py`: submission
with its coalescing of queued snapshots, the single-thread executor that is
retired when its latest Future is done, the identity write that skips itself
when a later switch was published (`SkipIdentity`) and is refused when its State
is neither the league row's nor last-good (`RefuseIdentity`), and a publication
that drains the queue under the lifecycle lock (`BeginPublication`), writes the
restart authority of the published bundle and the working State (`Checkpointed`),
and commits or fails (`Commit`, `Abandon`).  `Bind` is the one writer of the
pointer that neither queues nor drains: it writes the published bundle while
older checkpoints wait or run.  The store is the user's pointer with its
evidence, the league rows, which another user of the league moves (`OtherUser`,
never back to an older observation), and the last-good States; each put is one
step here, and `DurablePublication` takes them apart.  The working generation it
publishes is modelled in `RuntimeStore`; here it is only its State.

`IntrinsicCoordinator` — `ShapleyIntrinsicBackgroundCoordinator`.  A record is
indexed by user, league and input fingerprint, all functions of the caller's
State.  `request` and `restore_compatible` read the user's epoch, leave the
lock, and come back: `Enter`, then `Coalesce` / `Submit` / `Restored`.
`wait_for_terminal` is a request that stays.  The executor is the sequence of
its submissions; `Start`, `Finish` and `Leave` are the three times `_run` takes
the lock.  Any poll may find the watchdog's time past.

`DurablePublication` — how a user's context becomes durable and comes back.
`persist_runtime_snapshot` of `persistence/session.py` is a plan of puts (`Plan`):
the league row, the artifacts, and for a terminal publication the manifest, the
pointer and the last-good record, in that order; `Put` is one of them, and a
`Crash` or a failed put (`PutFails`) can come between any two.  Two threads
write: the checkpoint executor (`StartSnapshot`, `WriteIdentity`) and whoever
holds the user's publication sequence, which goes through `BeginPublication`
(drain), `Boot` (restart authority of the published bundle), `StageArtifacts`,
`PromoteWorking` (the presentation manifest), `Commit`, `Swap`; `Bind` binds a
later presentation to the published bundle.  `Restored` is what
`restore_runtime_snapshot` would load from the store as it is.  `Activate` is an
activation with or without the recovery of `persistent_runtime.py`.  Other users
of the league move its shared row at any time (`OtherUser`).

`Reconciliation` — the reconciliation of `webapp.py`, composed with the store:
`Store == INSTANCE RuntimeStore`, so every step under the lifecycle lock is the
store's own action.  A request captures the published context, then the league
generation, outside any lock (`CaptureContext`, `CaptureGeneration`), tests for a
job to join (`Check`), and joins, is turned away or admits a job under
`reconciliation_lock` (`Join`, `Busy`, `Admit`).  The single worker takes jobs in
order; a job stages (`Sync` or `Seed`), restores (`Restore`), builds and attaches
the layers it lacks (`Build`, `Attach`), publishes (`Publish`), and whatever ends
it aborts the working generation of its league generation (`CleanUp`).

`ExecutionScope` — connects, the boundary and the holders of a State's results.
A connect or refresh job goes `Begin`, `Reuse` or `Load`, `Check`, `Activate`; the
transition it starts holds the lifecycle lock while `Clear` empties one holder
after another (`ClearFails`: one raises) until `HandOff`.  Meanwhile requests that
captured the prior State (`Capture`) use it (`Enrich`, `AskHistory`, `LockCache`
… `Built`, `Hydrate`, `Hydrated`), and workers go through `StartTask`, `Admit`,
`Worked`, `Attach`, each testing what its holder tests under that holder's lock.
`Stage` and `Unstage` are a reconciliation's State sync, which passes the same
boundary.

`MC*` modules give the constants their values; `*Proofs` modules hold the
theorems.

## Runs

| Run | Bounds | Shows |
| --- | --- | --- |
| `heavy` | 4 threads, queue of 2, 2 kinds, 3 admissions of each | `LaneExclusion`, `NoLostWakeup`, `AccountsBalance`, and that every waiter leaves the queue (`WaitersDrain`) |
| `store` | 3 States in 2 leagues, 2 teams, 2 forecasts, 2 generations | `EvidenceCoherent`, `SeedCurrent`, `ServedSameLeague`, `LastGoodKept`, and the refinement `ViewSpec` |
| `jobs_flight` | 2 starters, no poller, 3 jobs, 2 records, a restart | `Retained`, `CurrentSaved`, `SingleFlight` |
| `jobs_restart` | a starter, a poller, cancellations, 2 started jobs, a restart | `SlotsAccounted`, `NoPhantom`, and that every admitted job ends (`JobsFinish`) |
| `jobs_polled` | 2 starters and a poller | **violated**: `SingleFlight`, see below |
| `checkpoint` | 3 States in 2 leagues, 2 teams, 4 submissions or commits, 2 publications, bindings or observations by others | `WritesInOrder`, `SettledDurable`, `BarrierHonest`, `QueueDrains` |
| `checkpoint_standoff` | 3 writes, a publication | **violated**: `NoStandoff` |
| `intrinsic` | a user with 2 leagues and 4 States, 1 caller, 2 submissions, 2 records, 1 clearing | `RecordsCurrent`, `Backed`, `ActiveKept`, `Settles` |
| `publication` | a league observed twice, 2 teams, 3 computations, 3 promotions, 5 requests, queue of 2, 2 faults | `ManifestBacked`, `RestartCurrent`, `SurfacesPaired`, `AtomicPublish`, `PublishDurable` |
| `reconcile` | 3 States in 2 leagues, 2 teams, a Forecast, 2 requesters, 2 jobs, 3 generations | `WorkingOwned`, `PublishedOwned` |
| `reconcile_handoff` | the same | **violated**: `HandoffOwned` |
| `scope` | 3 States in 2 leagues, a request, 2 connect workers, 2 jobs, 3 submissions, 3 generations, a sync, a fault | `NothingReacquired`, `TransitionsEnd` |

The bounds are the smallest in which the interesting cases happen: a holder, two
waiters and a caller refused by a full queue; two States of one league, one
without a team, and one of another league; a job that waits behind another while
a third finds the executor busy; a snapshot under way, one queued, the one that
cancels it and one more; a submission that outlives the record it was made for,
and its replacement; a publication interrupted by a crash after one that was
itself interrupted, with a newer observation by another user in between; a
request that straddles a team switch while another does not; a request of the
prior State that uses it in every step of a transition.  `MaxClaims`,
`MaxGenerations`, `MaxJobs`, `MaxTime`, `MaxRestarts`, `MaxWrites`,
`MaxAttempts`, `MaxClears`, `MaxRuns`, `MaxPromotions`, `MaxEvents`, `MaxQueue`,
`MaxFaults`, `MaxTasks` and `MaxSyncs` are bounds of the models, not of the code.
The runs that stop at such a bound turn TLC's deadlock check off, because there
the modelled activity is simply over; that nobody waits for ever is what
`WaitersDrain`, `JobsFinish`, `QueueDrains`, `Settles` and `TransitionsEnd` say.

The `intrinsic` and `scope` runs have one caller, which interleaves with the
workers, the transitions and its own earlier submissions; the safety properties
that depend on callers racing each other are proved for any number.  The jobs
runs have one worker, as the application does (`webapp.py:919`): `CurrentSaved`
depends on it.  With two, which is the class's default (`background_jobs.py:126`),
a superseded job that resynchronises the State of the current one can write its
older copy of that row after the current job's own.

`reconcile` uses symmetry of teams and of requesters: the constant functions
treat the teams alike, and neither run has a liveness property.

`mutants` in `PROJECT.json` pairs every property of a passing run with a
plausible bug in a definition of the model that breaks it (a dropped test, an
off-by-one, a missing reset); the mutated operators stand beside the originals.

Four configurations are kept beside the runs, for properties the code does not
have; each ends in a counterexample:

* `MCJobsDurable.cfg` (`DurableLatest`), `MCIntrinsicDiscard.cfg`
  (`DiscardSparesWorker`), `MCPublicationPrior.cfg` (`PriorRestored`) and
  `MCPublicationSurfaces.cfg` (`SurfacesCurrent`), with module
  `MCIntelligenceJobs`, `MCIntrinsicCoordinator` and, for the last two,
  `MCDurablePublication`; what they show is below.

### Fairness

* `HeavyWork`: weak fairness of each thread that is in `claim`.  Bodies are
  finite computations, deadlines pass, and an awake thread competes for the
  Condition's lock; nobody is obliged to claim.
* `IntelligenceJobs`: weak fairness of each request in progress and of each
  worker: a request runs to its response, and an executor thread runs its job.
* `CheckpointQueue`: weak fairness of each executor and of the publication in
  progress; its draining wait has a 180 second timeout (`GivesUp`), which is
  the only thing that parts the two threads of `checkpoint_standoff`.  With
  publications or bindings that follow one another for ever the queue could
  starve, so `QueueDrains` is about finitely many (`MaxAttempts`).
* `IntrinsicCoordinator`: weak fairness of the worker: its claim of the lane
  ends (that is `WaitersDrain`) and the loader returns or raises.  The watchdog
  and the polls are not assumed.
* `ExecutionScope`: weak fairness of connect jobs, transitions and requests under
  way taken together, the weakest that the code's threads justify; a request that
  builds under a cache's lock is finite.  Nobody is obliged to ask, and the
  background workers are not assumed to move.
* `DurablePublication` and `Reconciliation` state safety only.

### Disagreements with the documentation

* `jobs_polled`: `current` restores the latest durable row without the
  single-flight lock.  A poll that found no current job reads the row that a
  concurrent `start` has just written, takes the live job for one of a dead
  process, marks it interrupted and installs it; the next start for the same
  State launches a second job.  The `jobs_flight` run shows that starts alone
  never do this.
* `checkpoint_standoff`: `publish_working_generation` in `webapp.py` waits for
  the checkpoint queue under the lifecycle lock that the queue's worker needs;
  `runtime.py` states a lock order in which persistence owns neither lock.
* `reconcile_handoff`: the published context and the league generation are two
  reads outside every lock.  A refresh that straddles a team switch captures the
  old team with the new generation; its job, which can only end as a lifecycle
  switch, is the one that the selection's own request joins, so no job is for the
  team selected.

Of the configurations beside the runs:

* `DurableLatest`: the time a row is ordered by is taken before the lock is
  waited for, so a row of the superseded job can be newer than its
  replacement's, and a restart recovers the superseded one.
* `DiscardSparesWorker`: `_run` pops `_futures[key]` whoever's Future that is.
  After `clear_user` and a new request, the end of the old submission hides the
  new worker, and `discard_terminal` drops a record the watchdog failed while
  its worker runs, against its docstring.  The single worker keeps the two
  builds from running at once; the retry builds the same contract twice.
* `PriorRestored`: the comment at `session.py:570-571` says that a crash before
  the pointer restores the prior State.  A publication of a newer State puts that
  State's league row with its artifacts, before the manifest; a published State
  that has no last-good record yet (its intelligence is not complete) is then no
  longer the row's and nothing is restored.
* `SurfacesCurrent`: a commit for the published State whose put fails after the
  manifest leaves its id durable.  If the published bundle has no id of its own,
  the next publication takes that id for it as restart authority
  (`persistent_runtime.py:1597`, `BootGeneration`) and writes the old bundle
  under it.  After a crash there the old bundle is served with the surfaces of
  the bundle whose commit failed.  It takes a failed write, a second publication
  and a crash; with one fault it cannot happen, which is `SurfacesPaired`.  No
  document speaks of it.

What the models showed on the way, none of it against a document, and what the
properties say because of it:

* A crash between the pointer and the last-good put restores nothing if another
  user of the league has moved the shared row by then; `AtomicPublish` excludes
  exactly that.
* A publication for the same State whose commit fails after the manifest put
  leaves the new generation durable while memory still shows the old one; a crash
  then restores the new one whole.  A team switch at that point finds the other
  team's generation durable and skips the restart authority of its own.
* A binding during a reconciliation moves the publication id, so the final swap is
  refused after the presentation manifest of the State was overwritten;
  `SurfacesPaired` says that the surfaces are then not served for the wrong
  bundle.
* At rest the publication id that a restart restores may be the one before the
  last binding (a checkpoint queued before it lands after it); `RestartCurrent` is
  about the bundle and the team.
* A choice of team is refused when another user of the league has moved the row
  past its State and the user has no last-good record of it; a publication of a
  newer State of the same league that fails after its working State was put does
  the same.  No write has to fail.  The refusal is logged, the durable team stays
  behind the one readers see, and since the latest Future then says so, every
  publication fails at its drain until the next submission.  `SettledDurable` and
  `BarrierHonest` say exactly that much: the State and the evidence are never
  behind, and the refused choice's own State was durable before it, as
  `persist_runtime_identity`'s docstring asks.
* A binding writes the pointer without a drain, so a checkpoint that was queued or
  running then lands on top of it, and the pointer may go back to an older State
  or evidence until the queue is empty.  `WritesInOrder` is therefore about
  checkpoints and commits alone; that the pointer ends at what readers see all the
  same is `SettledDurable`.
* A delayed request may replace a newer one's job and take over its ownership; the
  replaced job runs on, and a State sync of either may refuse because the current
  row is not for the State it left.  `PublishedOwned` holds all the same.
* `PublishedOwned` compares the team, and the league generation the request read.
  The State is read before the generation (`webapp.py:1668`, `1680`), so a request
  that straddles an activation in the same league runs from the older State under
  the newer generation, and may publish what it built from it.
* A clearer that raises leaves the later holders uncleared, and the retry, a
  same-State activation, does not run them again.  A request that hydrates may
  then bring a prior State's durable Behavioral record back.  `NothingReacquired`
  speaks of boundaries that ended.
* The test for a newer connect precedes the lifecycle lock: of two connects to
  different leagues, the older may be activated last.  A background refresh
  supersedes a user's connect the same way.
* An aborted State sync leaves the Behavioral record of the State it had staged,
  and an old Player-history worker may settle a record that was requested again.

A reader's note that no run states: the docstring at `runtime.py:1013` speaks of
the exact State *and Forecast* identity, but only the State id is compared; the
model follows the code.

## Proofs

All proofs are checked to the last leaf; constants are assumed only what the
named `ASSUME`s of each module say.

`HeavyWorkProofs` — for any finite set of threads, any kinds and any queue
length.  The invariants together are inductive: mutual exclusion needs that the
thread past admission is the recorded one; the waiting count is exact because
each of the ways out of the queue moves one thread and decrements once
(`WaiterCounted` and `QueueStep` carry the cardinality argument); no sleeper
stays beside a free lane because the only step that frees it wakes all.

`RuntimeStoreProofs` — for any States, leagues, teams and forecasts.  The
inductive invariant `IInv` says that both contexts are good (typed, coherent
evidence, last-good of the league), that a working generation exists exactly
when its guard does, and `SeedCurrent`.  Coherence of the published context
alone is not inductive: a publication installs the working context, so the same
must hold there, and that the result is of the same league and team follows only
from the guard being current.  On top of it `StoreRefinesView` shows that every
step maps to a step of `PublishedView` or stutters, and `LastGoodSurvives` that
no activation within a league loses the only usable bundle.

`IntrinsicProofs` — for any users, States, callers and bounds.  `TypeOK` is
inductive; `RecordsCurrent` is inductive given it because both ways to create a
record compare epochs in the step that creates it and `clear_user` drops what it
outdates; `Backed` is inductive because a submission is cancelled only together
with its record, and the worker settles the record before it leaves.  The record
of an active key is backed by *a* submission, not by its own.  `WorkIsKept`
proves the action property `ActiveKept`.

`CheckpointProofs` — for any States, leagues, teams and bounds.  `SettledDurable` needs
that the *last* submission is the last to end and carries what is published
(`LatestLast`), which needs that at most one of the executors ever made is in use
(`OneExecutor`): an executor is retired only when its latest Future is done.
`Behind` bounds the pointer's write number by those still to come, which gives
`WritesInOrder`, and says what is still to come while the pointer is behind: the
State and the evidence are in the last pending snapshot, and a binding only
brings them forward.  A cancelled or skipped checkpoint always has a later one of
the same kind.  What `BarrierHonest` says of refusals takes a second induction on
top of the first, `Ahead` (`StatesGoAhead`): the State of a pending choice of team
has reached the league row or is in a snapshot queued before the choice, so the
choice, which is the oldest pending when it runs, finds it there or overtaken.

`JobsProofs` — for any users, callers, workers and bounds, with pollers and
restarts.  `SlotsAccounted` is a sum of cardinalities: each step moves one slot
between the free ones, the calls under admission and the Futures (`SlotMoves`).
That a submission never meets a Future that is already there needs that job
numbers are issued once and that no two calls have the same job in hand
(`CallsSound`).  `NoPhantom` needs that a job whose Future is ending has ended
(`FuturesSound`), and that a row restored from a dead process is never installed
as queued or running.

With no poller the same module proves `Retained` and `SingleFlight`, for any
starters, workers, bounds and restarts.  The strengthening `Quiet` says that
the user lock of a call protects what it has read: between its snapshot and its
installation nobody else moves the user's current job (`Locked`, `Snapshot`), the
current job is the newest the map holds of its user (`Newest`), and an installed
row never overwrites the record of another user's job because all the rows of a
job number are one user's (`OneOwner`).  A poll restores without that lock, so
the hypothesis `Pollers = {}` is needed: `jobs_polled` is the counterexample
without it.

With one worker and no cancellation besides, as `jobs_flight` has it, the module
proves `CurrentSaved`.  Rows are written from a copy after the job map's lock is
released, so the strengthening `Saving` says whose copies there can be: one job
runs at a time (`Alone`); a row waits to be written only beside a job that runs,
ends or was refused (`Writers`); the row of *another* job is waiting only with the
running job that holds the user's lock, and is then that job as it is (`Foreign`),
as is a current job's own (`Own`); so whatever is written is never older than the
map, and what is not yet durable is still to be written (`Backed`).  `Foreign` is
what a second worker breaks (see Runs), and a cancellation too: it updates a job
whose row the running one may be about to write.

`ExecutionScopeProofs` — for any leagues, States, requests, workers and bounds.
`NothingReacquired` is not inductive: in a transition some holders are clean and
others are not, and a request that passed its test before the transition may
write after it began.  The strengthening says from which step on each holder is
clean (`Clean`), that a request about to keep a result in the cache holds the
lock its clearer needs, and that what a test admits is in scope, which no released
State is (`ScopeSound`).

`ReconciliationProofs` — for any leagues, States, teams, requests, jobs and
bounds.  Each operation of the store that the reconciliation calls is shown to be
the one `RuntimeStoreProofs` is about, so every step is a step of `RuntimeStore`
or leaves it alone (`JobsUseTheStore`), and the reconciliation inherits its
invariants; its own induction rests on them.  `WorkingOwned` is inductive with
`JobsSound`: one job runs at a time, so the owner of a working generation is the
job that ends, and the generation its request captured is the one its clean-up
compares.  `PublicationIsTheJobs` follows, since the store publishes only under a
current guard and the guard is the running job's.

`PublicationProofs` — for any States, teams, runs, bounds, and any crashes and
failed puts; the only assumption is that the constants are typed and that `None`
is no team, number or publication id.  Every safety property of the model is
proved, by four inductive invariants, each on top of the one before:

* `Inv`, for `ManifestBacked`: whatever a write has yet to put, an artifact that
  its manifest names is either before the manifest in what is left or durable, and
  nothing removes an artifact (`WritesSound`).
* `Publishing`, for `PublishDurable` and `AtomicPublish`: from the drain on the
  publication is the only writer, and each put of the bundle it commits is either
  still to come or in the store; when nothing is left, what the store restores is
  the bundle, whatever an interrupted write left before.  `PublishedAtOnce` goes
  through the puts of the plan: until the pointer (the manifest, in a publication
  for the published State) the store restores what it restored before, from then
  on the bundle that is committed, as long as the shared row is not past its State.
* `CalmInv`, for `RestartCurrent`, about runs in which nothing failed.  A
  checkpoint writes the context of the moment it was queued, so the store lags
  behind the published context; the invariant says by what.  Whatever evidence a
  context in memory, in the queue or half written names is what the store has for
  its state: the manifest's, or the newest artifacts where there is no manifest
  (`Telling`), which are a whole bundle or none (`Halves`) but for the state a
  publication is staging (`Staging`).  Checkpoints are written in the order of
  their states and the last one is of the published state and team (`Lined`); and
  the published bundle's last-good record and pointer are in the store, or still
  to be written and not to be taken back (`Carried`).
* `Naming` and `PairedInv`, for `SurfacesPaired`, about runs with at most one
  fault.  A publication id can stand in the published context, the working one, a
  queued task, a plan being written, and the store's manifests and presented
  surfaces.  `Naming` says that ids are handed out in order and of whole bundles;
  `PairedInv` says that wherever the id of presented surfaces stands beside a
  bundle, it is the bundle they were composed from.  A commit that failed after its
  manifest can lend its id to a published bundle that has none (`Lent`), and
  leaves such a manifest at states that are no longer published; those manifests
  are not `Watched`, because to restore one takes a crash, which would be the
  second fault.  `SurfacesCurrent`, above, is what happens then.

Only model-checked: the five liveness properties (`WaitersDrain`, `JobsFinish`,
`QueueDrains`, `Settles`, `TransitionsEnd`), which need ENABLED and are out of the
prover's reach.  Every invariant and every action property that a passing run
checks is a theorem; those of `IntelligenceJobs` that name a hypothesis
(`Pollers = {}`, one worker, no cancellation) have it in the run as well.  No
algorithm defined by recursion is modelled, so none is proved.

## Left out, and why

Model code (forecast fitting, valuation, utility, trade and search scoring) is
real arithmetic.  Provider I/O, rendering, telemetry, timings and messages
decide none of the properties.  `CheckpointQueue` leaves out failing puts (a
failed write marks the Future failed and the next submission repeats it), state
history, replay decisions, the reuse of artifact keys, the artifacts of a
generation that is not published, the evidence and the team that an activation
recovers from the store, the last-good record that a connect to another league
leaves to the executor, the idempotent bootstrap snapshot and
`wait_for_managed_team_checkpoint`; its puts are one step.  `IntelligenceJobs`
leaves out failing persistence, which the code swallows.  `IntrinsicCoordinator`
takes fingerprints as functions of the State; in the code they may also move
with time, which adds requests for other inputs.  `DurablePublication` leaves out team and market-value snapshots, the atlas
baseline, legacy records, and has one league and one artifact key per
computation.  `Reconciliation` has one user, and leaves out the intrinsic build
and the behavioral handoff inside a job, and the synchronous connect.
`ExecutionScope` lets one Market cache stand for three, one player for all, and
leaves out bounds on records and pending requests and the sync cursor; its
`Request` reads the published league and admits the job in one step.  Read-only
routes keep no state.

Five hazards of the list have no property in a passing run.  The yield budget of
`foreground_pressure.py` is about real time, and the sync cursor's staleness is
decided by a provider's fingerprints.  Three come true in the code: the superseded
row that a restart recovers (`DurableLatest`), the Future of a newer submission
that `_run` pops (`DiscardSparesWorker`), and the durable id of a failed commit
(`SurfacesCurrent`); the configurations beside the runs show them.
`EvidenceCoherent` compares States and cutoffs; whether a Forecast that is carried
over is for the same inputs is a test the store makes (`runtime.py:601`,
`InputPrint` in the model), and no property restates it.
Nothing in the repository promises the order
of two activations of different leagues, so no property speaks of it.

## Plan

Built, in this order, the most important behaviour first: `HeavyWork`;
`RuntimeStore` with `PublishedView`; `IntelligenceJobs`; `CheckpointQueue`;
`IntrinsicCoordinator`; `DurablePublication`; `Reconciliation` over an instance of
the store; `ExecutionScope`; then the proofs, until every safety property of a
passing run was a theorem.  What would come next:

1. A refinement of the commit: that `DurablePublication` implements an atomic
   replacement of the restored view, where `AtomicPublish`'s two conditions hold.
2. The intrinsic coordinator as one more holder of `ExecutionScope`, by instance.
3. The sync cursor and the record bounds of hosted connect.
4. Pure algorithms: roster legality and lineup assignment, against their
   reference definitions over bounded inputs.
