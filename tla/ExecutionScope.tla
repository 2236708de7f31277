--------------------------- MODULE ExecutionScope ---------------------------
(***************************************************************************)
(* Which State's execution results one user's process retains.  Hosted      *)
(* connects and refreshes (product/hosted_connect.py) and the State sync of *)
(* a reconciliation move the user to another State under the lifecycle lock *)
(* and pass the boundary of product/resource_coordinator.py, which clears   *)
(* one holder after another.  Meanwhile requests that captured the prior    *)
(* State, and workers that began for it, go on: each holder has its own     *)
(* lock and its own test for what it may still retain.                      *)
(*                                                                         *)
(* The holders: the Market caches (one stands for the three, which are      *)
(* taken in one order), Market enrichment, Behavioral history and Player    *)
(* history; one player and one request key stand for all.  Left out: the    *)
(* intrinsic holders (IntrinsicCoordinator), the managed team, which only   *)
(* makes the Market test refuse more, the bounds on records and pending     *)
(* requests, the sync cursor, and the reconciliation handed off             *)
(* (Reconciliation).                                                        *)
(***************************************************************************)
EXTENDS Naturals, FiniteSets

CONSTANTS
  None,
  States,          \* canonical league states, by state_id
  Leagues,
  LeagueOf,        \* state -> its league
  Readers,         \* foreground requests; each is made once
  MaxWorkers,      \* max_workers of the connect coordinator
  MaxJobs,         \* bounds of the model: connect jobs,
  MaxTasks,        \*   background submissions,
  MaxGenerations,  \*   the league generation,
  MaxSyncs,        \*   States staged by a reconciliation,
  MaxFaults        \*   clearers that raise

ASSUME ScopeAssumption ==
  /\ None \notin States \cup Leagues
  /\ LeagueOf \in [States -> Leagues]
  /\ {MaxJobs, MaxTasks, MaxGenerations, MaxSyncs, MaxFaults} \subseteq Nat
  /\ MaxWorkers \in Nat \ {0}

VARIABLES
  published,   \* the published State
  working,     \* the State of the working generation, None without one
  generation,  \* the league generation
  move,        \* the transition that holds the lifecycle lock
  job,         \* connect coordinator: job number -> job
  current,     \*   the number of the user's current job, 0 when there is none
  reader,      \* request -> the State it captured, and what it is doing
  cache,       \* the State of the retained Market results
  task,        \* submission number -> what a background worker was given
  enriched,    \* Market enrichment: submission -> the State of its record
  history,     \* Player history: State -> the status of its record
  behavior,    \* Behavioral: the State of the record, and whether it is under way
  durable,     \*   the State of the durable Behavioral context
  released,    \* the States that a boundary released since the user was there
  syncs, faults

store == <<published, working, generation>>
connects == <<job, current>>
holders == <<cache, enriched, history, behavior>>
budget == <<syncs, faults>>
vars ==
  <<store, move, connects, reader, holders, task, durable, released, budget>>

JobIds == 1..MaxJobs
TaskIds == 1..MaxTasks
Kinds == {"enrichment", "history", "behavior"}
Clearing == <<"cache", "enrichment", "behavior", "history">>
Handoff == 5                       \* the step after the last clearer

NoMove == [step |-> 0, by |-> 0, to |-> None]
NoJob ==
  [status |-> "none", op |-> "connect", league |-> None, loaded |-> FALSE,
   generation |-> 0, pc |-> "none", state |-> None]
NoTask == [kind |-> "none", state |-> None, pc |-> "none"]
NoReader == [pc |-> "idle", state |-> None]
NoRecord == [state |-> None, busy |-> FALSE]

Init ==
  /\ published = None /\ working = None /\ generation = 0
  /\ move = NoMove
  /\ job = [j \in JobIds |-> NoJob] /\ current = 0
  /\ reader = [r \in Readers |-> NoReader]
  /\ cache = None
  /\ task = [i \in TaskIds |-> NoTask]
  /\ enriched = [i \in TaskIds |-> None]
  /\ history = [s \in States |-> "none"]
  /\ behavior = NoRecord
  /\ durable = None
  /\ released = {}
  /\ syncs = 0 /\ faults = 0

Free == move.step = 0

(* _execution_state_scope_owned: the validators read the store under its    *)
(* map lock, and only the last of their reads decides.                      *)
Scope == IF working # None THEN working ELSE published

Owned(s) == s # None /\ Scope = s

In(l) == published # None /\ LeagueOf[published] = l

-----------------------------------------------------------------------------
(* LeagueConnectCoordinator.start: the request's capture and its admission. *)
UnderWay(j) == j # 0 /\ job[j].status \in {"queued", "running"}

Request(op, l) ==
  /\ op = "refresh" => In(l)
  /\ IF UnderWay(current) /\ job[current].league = l
     THEN UNCHANGED connects
     ELSE \E j \in JobIds :
            /\ job[j].status = "none" /\ \A i \in 1..(j - 1) : job[i].status # "none"
            /\ job' = [job EXCEPT ![j] =
                 [NoJob EXCEPT !.status = "queued", !.op = op, !.league = l,
                               !.loaded = In(l), !.generation = generation]]
            /\ current' = j
  /\ UNCHANGED <<store, move, reader, holders, task, durable, released, budget>>

Still == UNCHANGED <<store, move, current, reader, holders, task, durable, released, budget>>

Ended(j) == job' = [job EXCEPT ![j] = [NoJob EXCEPT !.status = "ended", !.league = job[j].league]]

Begin(j) ==
  /\ job[j].status = "queued" /\ \A i \in 1..(j - 1) : job[i].status # "queued"
  /\ Cardinality({i \in JobIds : job[i].status = "running"}) < MaxWorkers
  /\ job' = [job EXCEPT ![j].status = "running", ![j].pc = "load"]
  /\ Still

At(j, pc) == job[j].status = "running" /\ job[j].pc = pc

(* The league was loaded at the connect request, the refresh's probe        *)
(* matches its cursor, or the provider raises.                              *)
Reuse(j) ==
  /\ At(j, "load")
  /\ Ended(j)
  /\ Still

Load(j, s) ==
  /\ At(j, "load")
  /\ job[j].op = "connect" => ~job[j].loaded
  /\ LeagueOf[s] = job[j].league
  /\ job' = [job EXCEPT ![j].pc = "check", ![j].state = s]
  /\ Still

(* The test for a newer request is made before the lifecycle lock is asked. *)
Superseded(j) ==
  \/ job[current].league # job[j].league
  \/ job[j].op = "refresh" /\ (generation # job[j].generation \/ ~In(job[j].league))

Check(j) ==
  /\ At(j, "check")
  /\ IF Superseded(j) THEN Ended(j) ELSE job' = [job EXCEPT ![j].pc = "enter"]
  /\ Still

-----------------------------------------------------------------------------
(* The bounds of the model leave no room for another transition.            *)
Unused == {i \in TaskIds : task[i].kind = "none"}
Spent == generation = MaxGenerations \/ Unused = {}

(* A transition to State s takes the lifecycle lock; the boundary has work  *)
(* where the State changes.  A State staged by a sync is the scope from     *)
(* then on.                                                                 *)
Moved(by, from, to) ==
  move' = [step |-> IF from \in {None, to} THEN Handoff ELSE 1, by |-> by, to |-> to]

Activate(j) ==
  LET s == job[j].state
  IN  /\ At(j, "enter") /\ Free
      /\ ~Spent
      /\ job[j].op = "refresh" => generation = job[j].generation /\ In(job[j].league)
      /\ published' = s
      /\ working' = None
      /\ generation' = IF published = s THEN generation ELSE generation + 1
      /\ released' = released \ {s}
      /\ Moved(j, published, s)
      /\ job' = [job EXCEPT ![j].pc = "moving"]
      /\ UNCHANGED <<current, reader, holders, task, durable, budget>>

(* A refresh that meets another generation, or the facts it left behind.    *)
Unmoved(j) ==
  /\ At(j, "enter") /\ Free
  /\ job[j].op = "refresh" \/ Spent
  /\ Ended(j)
  /\ Still

Stage(s) ==
  /\ Free
  /\ syncs < MaxSyncs /\ Unused # {}
  /\ working = None /\ published \notin {None, s} /\ In(LeagueOf[s])
  /\ working' = s
  /\ syncs' = syncs + 1
  /\ released' = released \ {s}
  /\ Moved(0, published, s)
  /\ UNCHANGED <<published, generation, connects, reader, holders, task, durable, faults>>

(* The staged generation is published, or dropped: by its job, by a team    *)
(* switch.                                                                  *)
Unstage ==
  /\ Free /\ working # None
  /\ \/ /\ generation < MaxGenerations
        /\ published' = working
        /\ generation' = generation + 1
     \/ UNCHANGED <<published, generation>>
     \/ /\ generation < MaxGenerations
        /\ generation' = generation + 1
        /\ UNCHANGED published
  /\ working' = None
  /\ released' = released \ {published'}
  /\ UNCHANGED <<move, connects, reader, holders, task, durable, budget>>

(* The clearers, in order.  Each takes its holder's lock and drops the      *)
(* records; a Future that has not started is cancelled.                     *)
Over(t) == [NoTask EXCEPT !.kind = t.kind, !.pc = "over"]

Cancelled(kind) ==
  task' = [i \in TaskIds |->
    IF task[i].kind = kind /\ task[i].pc = "queued" THEN Over(task[i]) ELSE task[i]]

CacheFree == \A r \in Readers : reader[r].pc \notin {"validate", "build", "keep"}

ClearCache ==
  /\ CacheFree
  /\ cache' = None
  /\ UNCHANGED <<enriched, history, behavior, task>>

ClearEnrichment ==
  /\ enriched' = [i \in TaskIds |-> None]
  /\ Cancelled("enrichment")
  /\ UNCHANGED <<cache, history, behavior>>

ClearBehavior ==
  /\ behavior' = NoRecord
  /\ Cancelled("behavior")
  /\ UNCHANGED <<cache, enriched, history>>

ClearHistory ==
  /\ history' = [s \in States |-> "none"]
  /\ Cancelled("history")
  /\ UNCHANGED <<cache, enriched, behavior>>

Clear ==
  /\ move.step \in 1..4
  /\ CASE Clearing[move.step] = "cache" -> ClearCache
       [] Clearing[move.step] = "enrichment" -> ClearEnrichment
       [] Clearing[move.step] = "behavior" -> ClearBehavior
       [] Clearing[move.step] = "history" -> ClearHistory
  /\ move' = [move EXCEPT !.step = @ + 1]
  /\ released' = IF move.step = 4 THEN States \ {move.to} ELSE released
  /\ UNCHANGED <<store, connects, reader, durable, budget>>

(* A clearer raises: the State is active, the rest is not cleared, and the  *)
(* caller hands nothing off.  A sync's working generation is dropped.       *)
(* Nothing is promised until the next boundary: a request that hydrates may *)
(* bring a durable Behavioral context of the prior State back.              *)
MutantReturned == UNCHANGED job  \* mutant: a transition that fails leaves its job under way
Returned == IF move.by = 0 THEN UNCHANGED job ELSE Ended(move.by)

ClearFails ==
  /\ move.step \in 1..4
  /\ faults < MaxFaults
  /\ faults' = faults + 1
  /\ Returned
  /\ working' = None
  /\ released' = {}
  /\ move' = NoMove
  /\ UNCHANGED <<published, generation, current, reader, holders, task, durable, syncs>>

(* BehavioralRuntimeCoordinator.start for the new State, then the lock is   *)
(* released.  current() hydrates first, and is covered by Hydrate.          *)
Submitted(kind, s) ==
  /\ kind = "behavior" \/ Free \/ Cardinality(Unused) > 1
  /\ \E i \in TaskIds :
       /\ task[i].kind = "none" /\ \A k \in 1..(i - 1) : task[k].kind # "none"
       /\ task' = [[k \in TaskIds |->
            IF kind = "behavior" /\ task[k].kind = kind /\ task[k].pc = "queued"
            THEN Over(task[k]) ELSE task[k]]
            EXCEPT ![i] = [kind |-> kind, state |-> s, pc |-> "queued"]]

HandOff ==
  /\ move.step = Handoff
  /\ IF behavior = [state |-> move.to, busy |-> TRUE]
     THEN UNCHANGED <<behavior, task>>
     ELSE /\ behavior' = [state |-> move.to, busy |-> TRUE]
          /\ Submitted("behavior", move.to)
  /\ Returned
  /\ move' = NoMove
  /\ UNCHANGED <<store, current, reader, cache, enriched, history, durable, released, budget>>

-----------------------------------------------------------------------------
(* A request captures the published context and, some time later, uses it.  *)
Capture(r) ==
  /\ reader[r].pc = "idle" /\ published # None
  /\ reader' = [reader EXCEPT ![r] = [pc |-> "captured", state |-> published]]
  /\ UNCHANGED <<store, move, connects, holders, task, durable, released, budget>>

Captured(r) == reader[r].pc = "captured"
Leave(r) == reader' = [reader EXCEPT ![r] = [NoReader EXCEPT !.pc = "gone"]]

(* MarketDecisionEnrichmentCoordinator.start, under its lock.               *)
Retried(i) == task[i].pc = "over"

Recorded(s) ==
  enriched' = [i \in TaskIds |->
                IF task[i] = NoTask /\ task'[i] # NoTask THEN s ELSE enriched[i]]

MutantEnrich(r) ==               \* mutant: a prior State's request is retained
  /\ Captured(r)
  /\ Submitted("enrichment", reader[r].state)
  /\ Recorded(reader[r].state)
  /\ Leave(r)
  /\ UNCHANGED <<store, move, connects, cache, history, behavior, durable, released, budget>>
Enrich(r) ==
  LET s == reader[r].state
  IN  /\ Captured(r)
      /\ Owned(s)
      /\ \A i \in TaskIds : enriched[i] = s => Retried(i)
      /\ Submitted("enrichment", s)
      /\ Recorded(reader[r].state)
      /\ Leave(r)
      /\ UNCHANGED <<store, move, connects, cache, history, behavior, durable, released, budget>>

(* PlayerHistoryBackgroundCoordinator.request, under its lock.              *)
AskHistory(r) ==
  LET s == reader[r].state
  IN  /\ Captured(r)
      /\ Owned(s)
      /\ history[s] = "none"
      /\ Submitted("history", s)
      /\ history' = [history EXCEPT ![s] = "queued"]
      /\ Leave(r)
      /\ UNCHANGED <<store, move, connects, cache, enriched, behavior, durable, released, budget>>

(* A request that a holder refuses, or that finds what it wants.            *)
Answer(r) ==
  /\ Captured(r)
  /\ Leave(r)
  /\ UNCHANGED <<store, move, connects, holders, task, durable, released, budget>>

(* BehavioralRuntimeCoordinator.current: without a record it reads the      *)
(* durable context, and puts it where there is still none.                  *)
Hydrate(r) ==
  /\ reader[r].pc = "idle"
  /\ behavior = NoRecord /\ durable # None
  /\ reader' = [reader EXCEPT ![r] = [pc |-> "hydrate", state |-> durable]]
  /\ UNCHANGED <<store, move, connects, holders, task, durable, released, budget>>

Hydrated(r) ==
  /\ reader[r].pc = "hydrate"
  /\ behavior' = IF behavior = NoRecord
                 THEN [state |-> reader[r].state, busy |-> FALSE] ELSE behavior
  /\ Leave(r)
  /\ UNCHANGED <<store, move, connects, cache, enriched, history, task, durable, released, budget>>

(* A cached Market builder: under the cache's lock the context is tested, a *)
(* prior scope's entry is dropped, the result built and kept.               *)
LockCache(r) ==
  /\ Captured(r) /\ CacheFree
  /\ reader' = [reader EXCEPT ![r].pc = "validate"]
  /\ UNCHANGED <<store, move, connects, holders, task, durable, released, budget>>

MutantValidate(r) ==             \* mutant: the test asks for the lifecycle lock
  /\ reader[r].pc = "validate" /\ Free
  /\ reader' = [reader EXCEPT ![r].pc = IF Owned(reader[r].state) THEN "keep" ELSE "build"]
  /\ cache' = IF Owned(reader[r].state) /\ cache # reader[r].state THEN None ELSE cache
  /\ UNCHANGED <<store, move, connects, enriched, history, behavior, task, durable, released,
                 budget>>
Validate(r) ==
  /\ reader[r].pc = "validate"
  /\ reader' = [reader EXCEPT ![r].pc = IF Owned(reader[r].state) THEN "keep" ELSE "build"]
  /\ cache' = IF Owned(reader[r].state) /\ cache # reader[r].state THEN None ELSE cache
  /\ UNCHANGED <<store, move, connects, enriched, history, behavior, task, durable, released,
                 budget>>

Built(r) ==
  /\ reader[r].pc \in {"build", "keep"}
  /\ cache' = IF reader[r].pc = "keep" THEN reader[r].state ELSE cache
  /\ Leave(r)
  /\ UNCHANGED <<store, move, connects, enriched, history, behavior, task, durable, released,
                 budget>>

-----------------------------------------------------------------------------
(* The background workers, one per holder, and the heavy lane they share.   *)
MutantKept(i) == TRUE            \* mutant: a worker's outcome recreates its record
Kept(i) ==
  LET s == task[i].state
  IN  CASE task[i].kind = "enrichment" -> enriched[i] = s
        [] task[i].kind = "history" -> history[s] # "none"
        [] task[i].kind = "behavior" -> behavior.state = s

(* What a worker tests as it goes: Market enrichment its identity, the      *)
(* others that their record is still there.                                 *)
MayGoOn(i) == IF task[i].kind = "enrichment" THEN Owned(task[i].state) ELSE Kept(i)

StartTask(i) ==
  /\ task[i].pc = "queued"
  /\ \A k \in TaskIds :
       task[k].kind = task[i].kind =>
         task[k].pc \notin {"begun", "working", "attach"} /\ (k < i => task[k].pc # "queued")
  /\ LET goes == task[i].kind = "behavior" \/ MayGoOn(i)
     IN  /\ task' = [task EXCEPT ![i] = IF goes THEN [@ EXCEPT !.pc = "begun"] ELSE Over(@)]
         /\ history' = IF task[i].kind = "history" /\ goes
                       THEN [history EXCEPT ![task[i].state] = "running"] ELSE history
  /\ UNCHANGED <<store, move, connects, reader, cache, enriched, behavior, durable, released,
                 budget>>

Admit(i) ==
  /\ task[i].pc = "begun"
  /\ \A k \in TaskIds : task[k].pc \notin {"working", "attach"}
  /\ task' = [task EXCEPT ![i] = IF MayGoOn(i) THEN [@ EXCEPT !.pc = "working"] ELSE Over(@)]
  /\ UNCHANGED <<store, move, connects, reader, holders, durable, released, budget>>

(* The work is done.  Market enrichment tests its identity once more before *)
(* it takes the lock to attach.                                             *)
Worked(i) ==
  /\ task[i].pc = "working"
  /\ task' = [task EXCEPT ![i] =
       IF task[i].kind = "enrichment" /\ ~Owned(@.state) THEN Over(@)
       ELSE [@ EXCEPT !.pc = "attach"]]
  /\ UNCHANGED <<store, move, connects, reader, holders, durable, released, budget>>

(* Attach under the holder's lock, where the record is still kept.          *)
Attach(i) ==
  LET s == task[i].state
      on(kind) == task[i].kind = kind /\ Kept(i)
  IN  /\ task[i].pc = "attach"
      /\ task' = [task EXCEPT ![i] =
           IF on("enrichment") THEN [Over(@) EXCEPT !.pc = "settled"] ELSE Over(@)]
      /\ enriched' = IF on("enrichment") THEN [enriched EXCEPT ![i] = s] ELSE enriched
      /\ history' = IF on("history") THEN [history EXCEPT ![s] = "completed"] ELSE history
      /\ behavior' = IF on("behavior") THEN [state |-> s, busy |-> FALSE] ELSE behavior
      /\ durable' = IF on("behavior") THEN s ELSE durable
      /\ UNCHANGED <<store, move, connects, reader, cache, released, budget>>

(* The work raises.                                                         *)
Raise(i) ==
  LET s == task[i].state
  IN  /\ task[i].pc = "working"
      /\ task' = [task EXCEPT ![i] = Over(@)]
      /\ history' = IF task[i].kind = "history" /\ history[s] # "none"
                    THEN [history EXCEPT ![s] = "completed"] ELSE history
      /\ behavior' = IF task[i].kind = "behavior" /\ behavior.state = s
                     THEN [behavior EXCEPT !.busy = FALSE] ELSE behavior
      /\ UNCHANGED <<store, move, connects, reader, cache, enriched, durable, released, budget>>

-----------------------------------------------------------------------------
Connect(j) ==
  \/ Begin(j) \/ Reuse(j) \/ Check(j) \/ Activate(j) \/ Unmoved(j)
  \/ \E s \in States : Load(j, s)

Transition == Clear \/ ClearFails \/ HandOff

Serve(r) == Validate(r) \/ Built(r) \/ Hydrated(r)

Work(i) == StartTask(i) \/ Admit(i) \/ Worked(i) \/ Attach(i) \/ Raise(i)

Next ==
  \/ \E op \in {"connect", "refresh"}, l \in Leagues : Request(op, l)
  \/ \E j \in JobIds : Connect(j)
  \/ \E s \in States : Stage(s)
  \/ Unstage
  \/ Transition
  \/ \E r \in Readers :
       \/ Capture(r) \/ Enrich(r) \/ AskHistory(r) \/ Answer(r) \/ Hydrate(r) \/ LockCache(r)
       \/ Serve(r)
  \/ \E i \in TaskIds : Work(i)

(* Threads that may go on do, in whatever order: as every request is made   *)
(* once, it is enough that one of them does.  Nobody has to ask.            *)
Progress ==
  \/ \E j \in JobIds : Connect(j)
  \/ Transition
  \/ \E r \in Readers : Serve(r)

Fairness == WF_vars(Progress)

Spec == Init /\ [][Next]_vars /\ Fairness

-----------------------------------------------------------------------------
(* The variables have their types; the current job exists, and a job is in  *)
(* a transition only while that holds the lifecycle lock.                   *)
Maybe(S) == S \cup {None}

TypeOK ==
  /\ {published, working, cache, durable, behavior.state, move.to} \subseteq Maybe(States)
  /\ generation \in 0..MaxGenerations
  /\ move.step \in 0..Handoff /\ move.by \in JobIds \cup {0}
  /\ \A j \in JobIds : job[j].state \in Maybe(States) /\ job[j].league \in Maybe(Leagues)
  /\ current \in JobIds \cup {0}
  /\ current # 0 => job[current].status # "none"
  /\ \A j \in JobIds : job[j].pc = "moving" => ~Free /\ move.by = j
  /\ \A i \in TaskIds : task[i].kind \in Kinds \cup {"none"} /\ task[i].state \in Maybe(States)
  /\ \A i \in TaskIds : enriched[i] # None => task[i].kind = "enrichment"
  /\ released \subseteq States \ {Scope}

(* "Any request that captured the prior runtime before that sequence may    *)
(* finish its response only under its existing authority; it cannot         *)
(* recreate process-retained execution ownership after the boundary"        *)
(* (docs/operations/artifacts/20260929_RESOURCE_BOUNDARY_INVENTORY.md):     *)
(* between transitions no holder has anything of a State that a boundary    *)
(* released, whoever captured it, queued for it or was working on it.       *)
NothingReacquired ==
  Free =>
    /\ cache \notin released
    /\ behavior.state \notin released
    /\ \A i \in TaskIds : enriched[i] \notin released
    /\ \A s \in released : history[s] = "none"

(* A transition ends, and with it its job: no reader that builds under a    *)
(* cache's lock, and no worker, can hold up the boundary for good.          *)
TransitionsEnd ==
  /\ ~Free ~> Free
  /\ \A j \in JobIds : job[j].status = "queued" ~> job[j].status = "ended"
=============================================================================
