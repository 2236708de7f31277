-------------------------- MODULE CheckpointQueue ---------------------------
(***************************************************************************)
(* The durable checkpoints of one user in product/persistent_runtime.py:    *)
(* requests submit snapshots and managed-team identities to the user's      *)
(* single-threaded executor, a submission cancels the queued one it         *)
(* subsumes, a finished executor is retired, and a publication drains the   *)
(* queue before it writes by itself.  A binding writes the published bundle *)
(* at once, without a drain, while checkpoints wait or run.                 *)
(*                                                                         *)
(* Requests, publications and bindings hold the user's lifecycle lock; a    *)
(* request and a binding are one step, a publication holds the lock from    *)
(* its drain to its end.  The worker of an executor needs the lock to write *)
(* an identity and, after every checkpoint, for the done-callback that      *)
(* retires the executor.                                                    *)
(*                                                                         *)
(* What is durable here is the user's pointer, with the evidence published  *)
(* under it, the league rows, which all users share, and the user's         *)
(* last-good State of each league.  A snapshot is put in one step;          *)
(* DurablePublication takes its puts one at a time.                         *)
(*                                                                         *)
(* Left out: puts that fail (checkpoints swallow the error), state history, *)
(* the artifacts of a generation that is not published, the evidence and    *)
(* the team that an activation recovers from the store (Recovered in        *)
(* DurablePublication), and the last-good record that a connect to another  *)
(* league leaves to the executor: the bundle's own snapshot puts it before. *)
(***************************************************************************)
EXTENDS Naturals, FiniteSets

CONSTANTS
  None,
  Leagues, States, Teams,
  LeagueOf,       \* State -> its league
  ObservedAt,     \* State -> the time it was observed (as_of)
  MaxWrites,      \* bound of the model on submissions and commits
  MaxAttempts     \* bound on publications, bindings and other users' observations

ASSUME QueueAssumption ==
  /\ None \notin States \cup Teams
  /\ LeagueOf \in [States -> Leagues]
  /\ ObservedAt \in [States -> Nat]
  /\ MaxWrites \in Nat /\ MaxAttempts \in Nat

VARIABLES
  published,     \* the published context: state, team, evidence, whether that is a
                 \* terminal bundle, and the league generation
  futures,       \* write number -> the submitted checkpoint
  latest,        \* _checkpoint_futures, with its kind and state; 0 when there is none
  executor,      \* _checkpoint_executors; 0 when there is none
  busy,          \* executor -> the checkpoint its worker has in hand, or 0
  publisher,     \* "idle", or what the publication in progress does
  working,       \* the State of the generation being published
  durable,       \* the durable pointer and its evidence, with the number of the last
                 \* checkpoint or commit that wrote it
  row,           \* league -> the State its shared row holds
  lastGood,      \* league -> the State of the user's last-good record
  writes,        \* submissions and commits so far
  attempts,      \* publications, bindings and other users' observations so far
  executors      \* executors made so far

store == <<durable, row, lastGood>>
vars ==
  <<published, futures, latest, executor, busy, publisher, working, store, writes, attempts,
    executors>>

Maybe(S) == S \cup {None}
Ids == 1..MaxWrites
Kinds == {"none", "snapshot", "managed_team_identity"}
Status == {"none", "queued", "running", "stored", "stale", "refused", "cancelled"}

NoCheckpoint ==
  [kind |-> "none", state |-> None, team |-> None, evidence |-> 0, terminal |-> FALSE,
   generation |-> 0, executor |-> 0, status |-> "none"]

Init ==
  /\ published = [state |-> None, team |-> None, evidence |-> 0, terminal |-> FALSE,
                  generation |-> 0]
  /\ futures = [n \in Ids |-> NoCheckpoint]
  /\ latest = 0
  /\ executor = 0
  /\ busy = [e \in Ids |-> 0]
  /\ publisher = "idle"
  /\ working = None
  /\ durable = [state |-> None, team |-> None, evidence |-> 0, write |-> 0]
  /\ row = [l \in Leagues |-> None]
  /\ lastGood = [l \in Leagues |-> None]
  /\ writes = 0
  /\ attempts = 0
  /\ executors = 0

LifecycleFree == publisher = "idle"

-----------------------------------------------------------------------------
(* put_league_snapshot: the row of a league never goes back to an older     *)
(* observation.                                                             *)
Observed(rows, s) ==
  [rows EXCEPT ![LeagueOf[s]] =
     IF @ # None /\ ObservedAt[@] > ObservedAt[s] THEN @ ELSE s]

AsLastGood(s) == [lastGood EXCEPT ![LeagueOf[s]] = s]

(* persist_runtime_snapshot of context c: row, pointer, and last-good for a *)
(* terminal bundle.                                                         *)
Pointer(c, n) == [state |-> c.state, team |-> c.team, evidence |-> c.evidence, write |-> n]

Put(c, n) ==
  /\ row' = Observed(row, c.state)
  /\ durable' = Pointer(c, n)
  /\ lastGood' = IF c.terminal THEN AsLastGood(c.state) ELSE lastGood

(* Another user of the league has observed it anew.                         *)
OtherUser(s) ==
  /\ attempts < MaxAttempts
  /\ attempts' = attempts + 1
  /\ row' = Observed(row, s) /\ row' # row
  /\ UNCHANGED <<published, futures, latest, executor, busy, publisher, working, durable,
                 lastGood, writes, executors>>

-----------------------------------------------------------------------------
(* _checkpoint_async and _checkpoint_managed_team_async: submit to the      *)
(* user's executor, become the latest checkpoint, then cancel the one       *)
(* before if it is still queued, of the same kind and State.                *)
MutantSubsumes(kind, previous) ==     \* mutant: an identity cancels a queued snapshot
  /\ previous # 0
  /\ futures[previous].status = "queued"
Subsumes(kind, previous) ==
  /\ previous # 0
  /\ futures[previous].status = "queued"
  /\ futures[previous].kind = kind

MutantExecutorFor == executors + 1    \* mutant: each checkpoint has an executor of its own
ExecutorFor == IF executor = 0 THEN executors + 1 ELSE executor

Submit(kind, context) ==
  LET e == ExecutorFor
      n == writes + 1
      checkpoint == [kind |-> kind, state |-> context.state, team |-> context.team,
                     evidence |-> context.evidence, terminal |-> context.terminal,
                     generation |-> context.generation, executor |-> e, status |-> "queued"]
      subsumed == {m \in {latest} : Subsumes(kind, m) /\ futures[m].state = context.state}
  IN  /\ writes < MaxWrites
      /\ writes' = n
      /\ executor' = e
      /\ executors' = IF e > executors THEN e ELSE executors
      /\ futures' = [m \in Ids |-> IF m = n THEN checkpoint
                                 ELSE IF m \in subsumed
                                 THEN [futures[m] EXCEPT !.status = "cancelled"]
                                 ELSE futures[m]]
      /\ latest' = n
      /\ UNCHANGED <<busy, publisher, working, durable, row, attempts>>

(* The requests: activation of a State, which keeps the managed team only   *)
(* where it plays and the evidence only in the same State, and may make the *)
(* terminal bundle of the league it leaves last-good at once; evidence      *)
(* attached to the published context; a choice of managed team.             *)
Leaves(s) == published.terminal /\ LeagueOf[published.state] # LeagueOf[s]

Activate(s, t) ==
  LET same == published.state = s
      context == [published EXCEPT !.state = s, !.team = t,
                    !.evidence = IF same THEN @ ELSE 0,
                    !.terminal = same /\ @,
                    !.generation = IF same THEN @ ELSE @ + 1]
  IN  /\ LifecycleFree
      /\ t \in {published.team, None}
      /\ same => t = published.team
      /\ published' = context
      /\ \/ UNCHANGED lastGood
         \/ Leaves(s) /\ lastGood' = AsLastGood(published.state)
      /\ Submit("snapshot", context)

Attach(terminal) ==
  LET context == [published EXCEPT !.evidence = writes + 1, !.terminal = terminal]
  IN  /\ LifecycleFree
      /\ published.state # None
      /\ published' = context
      /\ UNCHANGED lastGood
      /\ Submit("snapshot", context)

SelectTeam(t) ==
  LET context == [published EXCEPT !.team = t,
                    !.generation = IF published.team = t THEN @ ELSE @ + 1]
  IN  /\ LifecycleFree
      /\ published.state # None
      /\ published' = context
      /\ UNCHANGED lastGood
      /\ Submit("managed_team_identity", context)

-----------------------------------------------------------------------------
(* The worker of executor e, first in, first out.                           *)
Queued(e) == {n \in Ids : futures[n].executor = e /\ futures[n].status = "queued"}

Take(e) ==
  /\ busy[e] = 0
  /\ \E n \in Queued(e) :
       /\ \A m \in Queued(e) : n <= m
       /\ busy' = [busy EXCEPT ![e] = n]
       /\ futures' = [futures EXCEPT ![n].status = "running"]
  /\ UNCHANGED <<published, latest, executor, publisher, working, store, writes, attempts,
                 executors>>

InHand(e, kind) ==
  /\ busy[e] # 0
  /\ futures[busy[e]].status = "running"
  /\ futures[busy[e]].kind = kind

(* The checkpoint in hand ends.                                             *)
Ends(e, outcome) ==
  /\ futures' = [futures EXCEPT ![busy[e]].status = outcome]
  /\ UNCHANGED <<published, latest, executor, busy, publisher, working, writes, attempts,
                 executors>>

(* _persist_context.                                                        *)
PersistContext(e) ==
  /\ InHand(e, "snapshot")
  /\ Put(futures[busy[e]], busy[e])
  /\ Ends(e, "stored")

(* _persist_managed_team_identity, under the lifecycle lock: skipped unless  *)
(* the identity it was submitted for is the published one, and refused      *)
(* (persist_runtime_identity raises) unless its State is the league row's   *)
(* or last-good.                                                            *)
StillPublished(c) ==
  /\ published.generation = c.generation
  /\ published.state = c.state
  /\ published.team = c.team

StateIsDurable(s) == s \in {row[LeagueOf[s]], lastGood[LeagueOf[s]]}

PersistIdentity(e) ==
  LET c == futures[busy[e]]
  IN  /\ InHand(e, "managed_team_identity")
      /\ LifecycleFree
      /\ StillPublished(c) /\ StateIsDurable(c.state)
      /\ durable' = Pointer([c EXCEPT !.evidence = durable.evidence], busy[e])
      /\ UNCHANGED <<row, lastGood>>
      /\ Ends(e, "stored")

SkipIdentity(e) ==
  /\ InHand(e, "managed_team_identity")
  /\ LifecycleFree
  /\ ~StillPublished(futures[busy[e]])
  /\ UNCHANGED store
  /\ Ends(e, "stale")

RefuseIdentity(e) ==
  LET c == futures[busy[e]]
  IN  /\ InHand(e, "managed_team_identity")
      /\ LifecycleFree
      /\ StillPublished(c) /\ ~StateIsDurable(c.state)
      /\ UNCHANGED store
      /\ Ends(e, "refused")

(* _retire_checkpoint_executor, the done-callback, in the worker's thread.  *)
(* The callback of a cancelled checkpoint runs in the request and returns.  *)
Finished(e) == busy[e] # 0 /\ futures[busy[e]].status \in {"stored", "stale", "refused"}

MutantIsLatest(e) == TRUE       \* mutant: an older checkpoint retires the executor
IsLatest(e) == latest = busy[e]

Retire(e) ==
  /\ Finished(e)
  /\ LifecycleFree
  /\ executor' = IF IsLatest(e) THEN 0 ELSE executor
  /\ busy' = [busy EXCEPT ![e] = 0]
  /\ UNCHANGED <<published, futures, latest, publisher, working, store, writes, attempts,
                 executors>>

-----------------------------------------------------------------------------
(* webapp.publish_working_generation, under the lifecycle lock, of a        *)
(* working generation of State s: drain the queue (wait_for_checkpoint, in  *)
(* checkpoint_working_generation), write what comes before the commit,      *)
(* commit and swap.                                                         *)
BeginPublication(s) ==
  /\ LifecycleFree
  /\ published.state # None /\ LeagueOf[s] = LeagueOf[published.state]
  /\ writes < MaxWrites
  /\ attempts < MaxAttempts
  /\ attempts' = attempts + 1
  /\ publisher' = "draining"
  /\ working' = s
  /\ UNCHANGED <<published, futures, latest, executor, busy, store, writes, executors>>

MutantOutcome == "stored"             \* mutant: a publication does not drain the queue
Outcome == IF latest = 0 THEN "stored" ELSE futures[latest].status

(* Restart authority of a published terminal bundle, unless the durable     *)
(* generation of its State is another team's (GenerationStale in            *)
(* DurablePublication); then the working State and its artifacts.           *)
Checkpointed ==
  /\ publisher = "draining" /\ Outcome = "stored"
  /\ publisher' = "committing"
  /\ \/ /\ published.terminal
        /\ durable' = Pointer(published, durable.write)
        /\ row' = Observed(Observed(row, published.state), working)
        /\ lastGood' = AsLastGood(published.state)
     \/ /\ row' = Observed(row, working)
        /\ UNCHANGED <<durable, lastGood>>
  /\ UNCHANGED <<published, futures, latest, executor, busy, working, writes, attempts, executors>>

(* The publication fails and the lock is released: the latest checkpoint    *)
(* was skipped or refused, or 180 seconds pass; or later, the presentation  *)
(* is not promoted or the seed is no longer the published identity.         *)
MutantGivesUp == Outcome = "stale"    \* mutant: the wait has no timeout
GivesUp == Outcome # "stored"

Abandon ==
  /\ \/ publisher = "draining" /\ GivesUp
     \/ publisher = "committing"
  /\ publisher' = "idle"
  /\ working' = None
  /\ UNCHANGED <<published, futures, latest, executor, busy, store, writes, attempts, executors>>

Commit ==
  LET n == writes + 1
      promoted == [published EXCEPT !.state = working, !.evidence = n, !.terminal = TRUE,
                     !.generation = IF published.state = working THEN @ ELSE @ + 1]
  IN  /\ publisher = "committing"
      /\ writes' = n
      /\ published' = promoted
      /\ Put(promoted, n)
      /\ publisher' = "idle"
      /\ working' = None
      /\ UNCHANGED <<futures, latest, executor, busy, attempts, executors>>

(* bind_publication_generation_id: a presentation promoted for a published  *)
(* terminal bundle, which is written under the lifecycle lock, not drained. *)
Bind ==
  /\ LifecycleFree
  /\ published.terminal
  /\ attempts < MaxAttempts
  /\ attempts' = attempts + 1
  /\ Put(published, durable.write)
  /\ UNCHANGED <<published, futures, latest, executor, busy, publisher, working, writes, executors>>

Request ==
  \/ \E s \in States, t \in Maybe(Teams) : Activate(s, t)
  \/ \E terminal \in BOOLEAN : Attach(terminal)
  \/ \E t \in Teams : SelectTeam(t)

Persist(e) ==
  \/ Take(e) \/ PersistContext(e)
  \/ PersistIdentity(e) \/ SkipIdentity(e) \/ RefuseIdentity(e)
  \/ Retire(e)

Publication == Checkpointed \/ Abandon \/ Commit

Next ==
  \/ Request
  \/ \E s \in States : BeginPublication(s) \/ OtherUser(s)
  \/ Bind
  \/ \E e \in Ids : Persist(e)
  \/ Publication

(* Workers run and a publication in progress ends.  The worker shares the   *)
(* lifecycle lock with requests, publications and bindings, of which there  *)
(* are finitely many.                                                       *)
Spec ==
  /\ Init /\ [][Next]_vars
  /\ \A e \in Ids : WF_vars(Persist(e))
  /\ WF_vars(Publication)

-----------------------------------------------------------------------------
Pending == {n \in Ids : futures[n].status \in {"queued", "running"}}

(* The variables have their types, and the latest checkpoint, until it is   *)
(* done, waits or runs in the registered executor.                          *)
TypeOK ==
  /\ published \in [state : Maybe(States), team : Maybe(Teams), evidence : 0..MaxWrites,
                    terminal : BOOLEAN, generation : 0..MaxWrites]
  /\ futures \in [Ids -> [kind : Kinds, state : Maybe(States), team : Maybe(Teams),
                          evidence : 0..MaxWrites, terminal : BOOLEAN,
                          generation : 0..MaxWrites, executor : 0..MaxWrites,
                          status : Status]]
  /\ latest \in 0..MaxWrites
  /\ executor \in 0..MaxWrites
  /\ busy \in [Ids -> 0..MaxWrites]
  /\ publisher \in {"idle", "draining", "committing"}
  /\ working \in IF publisher = "idle" THEN {None} ELSE States
  /\ durable \in [state : Maybe(States), team : Maybe(Teams), evidence : 0..MaxWrites,
                  write : 0..MaxWrites]
  /\ row \in [Leagues -> Maybe(States)] /\ lastGood \in [Leagues -> Maybe(States)]
  /\ writes \in 0..MaxWrites /\ executors \in 0..MaxWrites /\ attempts \in 0..MaxAttempts
  /\ latest \in Pending => futures[latest].executor = executor

(* Checkpoints land in the order of their submission, and a publication's   *)
(* commit after every one submitted before it, through cancellations,       *)
(* refusals and retired executors.  A binding is not in that order, and an  *)
(* older snapshot may land on top of it; SettledDurable says how that ends. *)
WritesInOrder == [][durable'.write >= durable.write]_vars

(* With nothing pending the durable pointer is what readers see, the        *)
(* published State, managed team and evidence, whatever was cancelled, or   *)
(* landed on a binding, on the way.  Only the team of a choice that was     *)
(* refused may be missing, never its State or evidence.                     *)
SettledDurable ==
  Pending = {} =>
    /\ durable.state = published.state
    /\ durable.evidence = published.evidence
    /\ \/ durable.team = published.team
       \/ latest # 0 /\ futures[latest].status = "refused"

(* The barrier a publication waits for is honest.  The latest checkpoint is *)
(* never one that was cancelled or skipped, on which every publication      *)
(* would fail until the next request; and one that was refused had its own  *)
(* State written ahead of it, or a newer one: it was refused only because   *)
(* the row had moved on ("only after canonical State durability is ordered  *)
(* ahead on the same per-user checkpoint queue", persist_runtime_identity). *)
Reaches(rows, s) ==
  LET held == rows[LeagueOf[s]]
  IN  held # None /\ ObservedAt[held] >= ObservedAt[s]

BarrierHonest ==
  latest # 0 =>
    /\ futures[latest].status \notin {"cancelled", "stale"}
    /\ futures[latest].status = "refused" => Reaches(row, futures[latest].state)

(* Every submitted checkpoint is written, skipped, refused or cancelled:    *)
(* the queue empties whenever anything is in it, requests being finitely    *)
(* many.                                                                    *)
QueueDrains == Pending # {} ~> Pending = {}

(* The one lock order: a publication that waits for the latest checkpoint   *)
(* under the lifecycle lock never waits for a worker that waits for that    *)
(* lock, with nothing but the timeout to part them.                         *)
NeedsLifecycle(e) == InHand(e, "managed_team_identity") \/ Finished(e)
NoStandoff ==
  \A e \in Ids :
    ~(/\ publisher = "draining"
      /\ latest \in Pending /\ futures[latest].executor = e
      /\ NeedsLifecycle(e))
=============================================================================
