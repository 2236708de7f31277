------------------------ MODULE ExecutionScopeProofs ------------------------
(* That a boundary is final, for any States, leagues, requests, workers and *)
(* bounds: NothingReacquired of ExecutionScope is not inductive, because a  *)
(* transition clears the holders one after another while requests and       *)
(* workers go on.  The strengthening says from which step of a transition   *)
(* on each holder is clean, and why a request that is about to write cannot *)
(* change that: what it passed its test with is the State in scope.         *)
EXTENDS ExecutionScope, TLAPS

Statuses == {"none", "queued", "running", "ended"}
JobPcs == {"none", "load", "check", "enter", "moving"}
ReaderPcs == {"idle", "captured", "hydrate", "validate", "build", "keep", "gone"}
TaskPcs == {"none", "queued", "begun", "working", "attach", "over", "settled"}
Marks == {"none", "queued", "running", "completed"}

JobRecords ==
  [status : Statuses, op : {"connect", "refresh"}, league : Maybe(Leagues), loaded : BOOLEAN,
   generation : 0..MaxGenerations, pc : JobPcs, state : Maybe(States)]
Moves == [step : 0..Handoff, by : JobIds \cup {0}, to : Maybe(States)]
ReaderRecords == [pc : ReaderPcs, state : Maybe(States)]
TaskRecords == [kind : Kinds \cup {"none"}, state : Maybe(States), pc : TaskPcs]

StoreTypes ==
  /\ published \in Maybe(States) /\ working \in Maybe(States)
  /\ generation \in 0..MaxGenerations
  /\ move \in Moves
  /\ released \in SUBSET States

JobTypes == job \in [JobIds -> JobRecords] /\ current \in JobIds \cup {0}

HolderTypes ==
  /\ reader \in [Readers -> ReaderRecords]
  /\ task \in [TaskIds -> TaskRecords]
  /\ cache \in Maybe(States) /\ durable \in Maybe(States)
  /\ enriched \in [TaskIds -> Maybe(States)]
  /\ history \in [States -> Marks]
  /\ behavior \in [state : Maybe(States), busy : BOOLEAN]

Types == StoreTypes /\ JobTypes /\ HolderTypes

(* A job that is about to move the user has a State to move to; the current *)
(* job exists; the job in a transition is the one that holds the lock.      *)
JobsSound ==
  /\ \A j \in JobIds : job[j].pc \in {"check", "enter"} => job[j].state \in States
  /\ current # 0 => job[current].status # "none"
  /\ \A j \in JobIds : job[j].pc = "moving" => ~Free /\ move.by = j

EnrichmentTasks == \A i \in TaskIds : enriched[i] # None => task[i].kind = "enrichment"

(* A transition puts its State in scope at once; what is released is never  *)
(* in scope.                                                                *)
ScopeSound ==
  /\ ~Free => Scope = move.to /\ move.to \in States
  /\ Scope \notin released

(* The States a holder may not have, where its clearer is the k-th: before  *)
(* it has run, in a transition, none is barred.                             *)
Barred(k) ==
  IF move.step \in {0, Handoff} THEN released
  ELSE IF move.step > k THEN States \ {move.to} ELSE {}

CacheClean ==
  /\ cache \notin Barred(1)
  /\ \A r \in Readers : reader[r].pc = "keep" => reader[r].state \notin Barred(1)
EnrichmentClean == \A i \in TaskIds : enriched[i] \notin Barred(2)
HistoryClean == \A s \in Barred(4) : history[s] = "none"

(* Between transitions a record keeps a late hydration out.                 *)
BehaviorClean ==
  Free => /\ behavior.state \notin released
          /\ released # {} => behavior.state # None

Clean == CacheClean /\ EnrichmentClean /\ HistoryClean /\ BehaviorClean

Inv == Types /\ JobsSound /\ EnrichmentTasks /\ ScopeSound /\ Clean

-----------------------------------------------------------------------------
(* Initially nobody has anything.                                           *)
LEMMA InitInv == Init => Inv
  <1> SUFFICES ASSUME Init PROVE Inv
    OBVIOUS
  <1> USE ScopeAssumption DEF Init, Free, Handoff, Maybe
  <1>1. Types
    BY DEF Types, StoreTypes, JobTypes, HolderTypes, JobRecords, Moves, ReaderRecords,
           TaskRecords, Statuses, JobPcs, ReaderPcs, TaskPcs, Marks, Kinds, NoMove, NoJob,
           NoReader, NoTask, NoRecord
  <1>2. JobsSound /\ EnrichmentTasks
    BY DEF JobsSound, EnrichmentTasks, NoJob, NoMove
  <1>3. ScopeSound
    BY DEF ScopeSound, Scope, NoMove
  <1>4. Clean
    BY DEF Clean, CacheClean, EnrichmentClean, HistoryClean, BehaviorClean, Barred, NoMove,
           NoReader, NoRecord
  <1> QED
    BY <1>1, <1>2, <1>3, <1>4 DEF Inv

-----------------------------------------------------------------------------
(* Frames: who moves the user, who touches the jobs, who touches a holder.  *)
Quiet == UNCHANGED <<store, move, released>>

Asks(r) ==
  \/ Capture(r) \/ Enrich(r) \/ AskHistory(r) \/ Answer(r) \/ Hydrate(r) \/ LockCache(r)
  \/ Serve(r)

(* What the user's State, and what a boundary released, depend on.          *)
LEMMA WhoMoves ==
  [Next]_vars =>
    \/ Quiet
    \/ \E j \in JobIds : Activate(j)
    \/ \E s \in States : Stage(s)
    \/ Unstage \/ Clear \/ ClearFails \/ HandOff
  <1> SUFFICES ASSUME [Next]_vars,
                      \A j \in JobIds : ~Activate(j), \A s \in States : ~Stage(s),
                      ~Unstage, ~Clear, ~ClearFails, ~HandOff
               PROVE  Quiet
    OBVIOUS
  <1>1. ASSUME NEW op \in {"connect", "refresh"}, NEW l \in Leagues, Request(op, l)
        PROVE  Quiet
    BY <1>1 DEF Request, Quiet
  <1>2. ASSUME NEW j \in JobIds, Connect(j) PROVE Quiet
    BY <1>2 DEF Connect, Begin, Reuse, Check, Unmoved, Load, Still, Quiet
  <1>3. ASSUME NEW r \in Readers, Asks(r) PROVE Quiet
    BY <1>3 DEF Asks, Capture, Enrich, AskHistory, Answer, Hydrate, LockCache, Serve, Validate,
                Built, Hydrated, Quiet
  <1>4. ASSUME NEW i \in TaskIds, Work(i) PROVE Quiet
    BY <1>4 DEF Work, StartTask, Admit, Worked, Attach, Raise, Quiet
  <1>5. CASE UNCHANGED vars
    BY <1>5 DEF vars, Quiet
  <1> QED
    BY <1>1, <1>2, <1>3, <1>4, <1>5 DEF Next, Transition, Asks

(* What the jobs depend on.                                                 *)
LEMMA WhoConnects ==
  [Next]_vars =>
    \/ UNCHANGED connects
    \/ \E op \in {"connect", "refresh"}, l \in Leagues : Request(op, l)
    \/ \E j \in JobIds : Connect(j)
    \/ ClearFails \/ HandOff
  <1> SUFFICES ASSUME [Next]_vars,
                      \A op \in {"connect", "refresh"}, l \in Leagues : ~Request(op, l),
                      \A j \in JobIds : ~Connect(j), ~ClearFails, ~HandOff
               PROVE  UNCHANGED connects
    OBVIOUS
  <1>1. ASSUME NEW s \in States, Stage(s) PROVE UNCHANGED connects
    BY <1>1 DEF Stage
  <1>2. CASE Unstage \/ Clear \/ UNCHANGED vars
    BY <1>2 DEF Unstage, Clear, vars
  <1>3. ASSUME NEW r \in Readers, Asks(r) PROVE UNCHANGED connects
    BY <1>3 DEF Asks, Capture, Enrich, AskHistory, Answer, Hydrate, LockCache, Serve, Validate,
                Built, Hydrated
  <1>4. ASSUME NEW i \in TaskIds, Work(i) PROVE UNCHANGED connects
    BY <1>4 DEF Work, StartTask, Admit, Worked, Attach, Raise
  <1> QED
    BY <1>1, <1>2, <1>3, <1>4 DEF Next, Transition, Asks

(* What the holders and those who write them depend on.                     *)
Unheld == UNCHANGED <<reader, holders, task, durable>>

LEMMA WhoHolds ==
  [Next]_vars =>
    \/ Unheld \/ Clear \/ HandOff
    \/ \E r \in Readers : Asks(r)
    \/ \E i \in TaskIds : Work(i)
  <1> SUFFICES ASSUME [Next]_vars, ~Clear, ~HandOff, \A r \in Readers : ~Asks(r),
                      \A i \in TaskIds : ~Work(i)
               PROVE  Unheld
    OBVIOUS
  <1>1. ASSUME NEW op \in {"connect", "refresh"}, NEW l \in Leagues, Request(op, l)
        PROVE  Unheld
    BY <1>1 DEF Request, Unheld
  <1>2. ASSUME NEW j \in JobIds, Connect(j) PROVE Unheld
    BY <1>2 DEF Connect, Begin, Reuse, Check, Unmoved, Load, Activate, Still, Unheld
  <1>3. ASSUME NEW s \in States, Stage(s) PROVE Unheld
    BY <1>3 DEF Stage, Unheld
  <1>4. CASE Unstage \/ ClearFails \/ UNCHANGED vars
    BY <1>4 DEF Unstage, ClearFails, vars, Unheld
  <1> QED
    BY <1>1, <1>2, <1>3, <1>4 DEF Next, Transition, Asks

-----------------------------------------------------------------------------
(* The types.                                                               *)
LEMMA StoreTypesStep == Inv /\ [Next]_vars => StoreTypes'
  <1> SUFFICES ASSUME Inv, [Next]_vars PROVE StoreTypes'
    OBVIOUS
  <1>0. /\ published \in Maybe(States) /\ working \in Maybe(States)
        /\ generation \in 0..MaxGenerations
        /\ move \in Moves
        /\ released \in SUBSET States
    BY DEF Inv, Types, StoreTypes
  <1>1. CASE Quiet
    BY <1>0, <1>1 DEF Quiet, store, StoreTypes
  <1>2. ASSUME NEW j \in JobIds, Activate(j) PROVE StoreTypes'
    <2>1. job[j].state \in States
      BY <1>2 DEF Activate, At, Inv, JobsSound
    <2> QED
      BY <1>0, <1>2, <2>1, ScopeAssumption
      DEF Activate, Moved, Spent, StoreTypes, Moves, Maybe, Handoff
  <1>3. ASSUME NEW s \in States, Stage(s) PROVE StoreTypes'
    BY <1>0, <1>3 DEF Stage, Moved, StoreTypes, Moves, Maybe, Handoff
  <1>4. CASE Unstage
    BY <1>0, <1>4, ScopeAssumption DEF Unstage, StoreTypes, Maybe
  <1>5. CASE Clear
    BY <1>0, <1>5 DEF Clear, StoreTypes, Moves, Handoff, store
  <1>6. CASE ClearFails \/ HandOff
    BY <1>0, <1>6 DEF ClearFails, HandOff, StoreTypes, Moves, Maybe, Handoff, NoMove, store
  <1> QED
    BY <1>1, <1>2, <1>3, <1>4, <1>5, <1>6, WhoMoves

(* A step of a job, or of its transition, is a step of that job alone.      *)
LEMMA JobStep ==
  ASSUME Inv, NEW j \in JobIds
  PROVE  /\ Ended(j) => job'[j] \in JobRecords /\ job'[j].status = "ended" /\ job'[j].pc = "none"
         /\ Ended(j) => job' = [job EXCEPT ![j] = job'[j]]
         /\ Connect(j) =>
              /\ job' = [job EXCEPT ![j] = job'[j]] /\ current' = current
              /\ job'[j] \in JobRecords /\ job'[j].status # "none"
              /\ job'[j].pc \in {"check", "enter"} => job'[j].state \in States
              /\ job'[j].pc = "moving" => Activate(j)
  <1>0. job \in [JobIds -> JobRecords] /\ job[j] \in JobRecords /\ NoJob \in JobRecords
    BY ScopeAssumption DEF Inv, Types, JobTypes, NoJob, JobRecords, Maybe, Statuses, JobPcs
  <1>1. ASSUME Ended(j)
        PROVE  /\ job' = [job EXCEPT ![j] = job'[j]] /\ job'[j] \in JobRecords
               /\ job'[j].status = "ended" /\ job'[j].pc = "none"
    BY <1>0, <1>1 DEF Ended, JobRecords, NoJob, Statuses, JobPcs
  <1> DEFINE Good ==
        /\ job' = [job EXCEPT ![j] = job'[j]] /\ current' = current
        /\ job'[j] \in JobRecords /\ job'[j].status # "none"
        /\ job'[j].pc \in {"check", "enter"} => job'[j].state \in States
        /\ job'[j].pc = "moving" => Activate(j)
  <1>2. ASSUME Begin(j) PROVE Good
    BY <1>0, <1>2 DEF Begin, JobRecords, Statuses, JobPcs, Still
  <1>3. ASSUME Reuse(j) \/ Unmoved(j) PROVE Good
    BY <1>1, <1>3 DEF Reuse, Unmoved, Still
  <1>4. ASSUME Check(j) PROVE Good
    <2>1. job[j].state \in States /\ job[j].status = "running"
      BY <1>4 DEF Check, At, Inv, JobsSound
    <2> QED
      BY <1>0, <1>1, <1>4, <2>1 DEF Check, JobRecords, Statuses, JobPcs, Still
  <1>5. ASSUME Activate(j) PROVE Good
    <2>1. job' = [job EXCEPT ![j].pc = "moving"] /\ current' = current /\ job[j].status = "running"
      BY <1>5 DEF Activate, At
    <2>2. job'[j] = [job[j] EXCEPT !.pc = "moving"] /\ [job[j] EXCEPT !.pc = "moving"] \in JobRecords
      BY <1>0, <2>1 DEF JobRecords, JobPcs
    <2> QED
      BY <1>0, <1>5, <2>1, <2>2 DEF JobRecords
  <1>6. ASSUME NEW s \in States, Load(j, s) PROVE Good
    BY <1>0, <1>6 DEF Load, At, JobRecords, Statuses, JobPcs, Still, Maybe
  <1> QED
    BY <1>1, <1>2, <1>3, <1>4, <1>5, <1>6 DEF Connect

LEMMA RequestStep ==
  ASSUME Inv, NEW op \in {"connect", "refresh"}, NEW l \in Leagues, Request(op, l)
  PROVE  \/ UNCHANGED connects
         \/ \E j \in JobIds :
              /\ job' = [job EXCEPT ![j] = job'[j]] /\ current' = j
              /\ job'[j] \in JobRecords /\ job'[j].status # "none" /\ job'[j].pc = "none"
  <1>0. job \in [JobIds -> JobRecords] /\ generation \in 0..MaxGenerations
    BY DEF Inv, Types, StoreTypes, JobTypes
  <1>1. In(l) \in BOOLEAN
    BY DEF In
  <1> DEFINE New == [NoJob EXCEPT !.status = "queued", !.op = op, !.league = l,
                                  !.loaded = In(l), !.generation = generation]
  <1>2. New \in JobRecords /\ New.status # "none" /\ New.pc = "none"
    BY <1>0, <1>1 DEF NoJob, JobRecords, Maybe, Statuses, JobPcs
  <1> HIDE DEF New
  <1>3. UNCHANGED connects \/ \E j \in JobIds : job' = [job EXCEPT ![j] = New] /\ current' = j
    BY DEF Request, New
  <1> QED
    BY <1>0, <1>2, <1>3

LEMMA JobTypesStep == Inv /\ [Next]_vars => JobTypes'
  <1> SUFFICES ASSUME Inv, [Next]_vars PROVE JobTypes'
    OBVIOUS
  <1>0. job \in [JobIds -> JobRecords] /\ current \in JobIds \cup {0}
    BY DEF Inv, Types, JobTypes
  <1>1. CASE UNCHANGED connects
    BY <1>0, <1>1 DEF connects, JobTypes
  <1>2. ASSUME NEW op \in {"connect", "refresh"}, NEW l \in Leagues, Request(op, l)
        PROVE  JobTypes'
    BY <1>0, <1>1, <1>2, RequestStep DEF JobTypes
  <1>3. ASSUME NEW j \in JobIds, Connect(j) PROVE JobTypes'
    BY <1>0, <1>3, JobStep DEF JobTypes
  <1>4. CASE ClearFails \/ HandOff
    <2>1. Returned /\ current' = current /\ move.by \in JobIds \cup {0}
      BY <1>4 DEF ClearFails, HandOff, Inv, Types, StoreTypes, Moves
    <2> QED
      BY <1>0, <1>1, <2>1, JobStep DEF Returned, connects, JobTypes
  <1> QED
    BY <1>1, <1>2, <1>3, <1>4, WhoConnects

(* The jobs stay sound.                                                     *)
LEMMA JobsSoundStep == Inv /\ [Next]_vars => JobsSound'
  <1> SUFFICES ASSUME Inv, [Next]_vars PROVE JobsSound'
    OBVIOUS
  <1>0. /\ job \in [JobIds -> JobRecords] /\ current \in JobIds \cup {0}
        /\ move \in Moves /\ 0 \notin JobIds
    BY DEF Inv, Types, StoreTypes, JobTypes, JobIds
  <1>1. JobsSound
    BY DEF Inv
  <1>2. ASSUME NEW op \in {"connect", "refresh"}, NEW l \in Leagues, Request(op, l)
        PROVE  JobsSound'
    <2>1. move' = move
      BY <1>2 DEF Request
    <2> QED
      BY <1>0, <1>1, <1>2, <2>1, RequestStep DEF JobsSound, connects, Free
  <1>3. ASSUME NEW j \in JobIds, Connect(j) PROVE JobsSound'
    <2>1. CASE Activate(j)
      <3>1. /\ move'.step # 0 /\ move'.by = j
            /\ \A k \in JobIds : job[k].pc # "moving"
        BY <1>1, <2>1 DEF Activate, Moved, Free, JobsSound, Handoff
      <3> QED
        BY <1>0, <1>1, <1>3, <3>1, JobStep DEF JobsSound, Free
    <2>2. CASE ~Activate(j)
      <3>1. move' = move
        BY <1>3, <2>2 DEF Connect, Begin, Reuse, Check, Unmoved, Load, Still
      <3> QED
        BY <1>0, <1>1, <1>3, <2>2, <3>1, JobStep DEF JobsSound, Free
    <2> QED
      BY <2>1, <2>2
  <1>4. CASE ClearFails \/ HandOff
    <2>1. Returned /\ current' = current /\ move.by \in JobIds \cup {0}
      BY <1>0, <1>4 DEF ClearFails, HandOff, Moves
    <2>2. \A k \in JobIds : job'[k].pc # "moving"
      BY <1>0, <1>1, <2>1, JobStep DEF Returned, JobsSound
    <2> QED
      BY <1>0, <1>1, <2>1, <2>2, JobStep DEF Returned, JobsSound
  <1>5. CASE UNCHANGED connects /\ ~ClearFails /\ ~HandOff
    <2> DEFINE Cleared == move.step \in 1..4 /\ move' = [move EXCEPT !.step = @ + 1]
    <2>1. move' = move \/ Free \/ Cleared
      BY WhoMoves, <1>5 DEF Quiet, Activate, Stage, Unstage, Clear
    <2>2. CASE move' = move \/ Cleared
      <3>1. (move'.step = 0 <=> move.step = 0) /\ move'.by = move.by
        BY <1>0, <2>2 DEF Moves, Handoff
      <3> QED
        BY <1>0, <1>1, <1>5, <3>1 DEF JobsSound, connects, Free
    <2>3. CASE Free
      BY <1>0, <1>1, <1>5, <2>3 DEF JobsSound, connects, Free
    <2> QED
      BY <2>1, <2>2, <2>3
  <1> QED
    BY <1>2, <1>3, <1>4, <1>5, WhoConnects

-----------------------------------------------------------------------------
(* Submissions: a worker is told once what to do.                           *)
LEMMA Submission ==
  ASSUME Inv, NEW kind \in Kinds, NEW s \in States, Submitted(kind, s)
  PROVE  /\ task' \in [TaskIds -> TaskRecords]
         /\ \A i \in TaskIds : task[i].kind # "none" => task'[i].kind = task[i].kind
         /\ kind # "behavior" =>
              \A i \in TaskIds : task'[i] # task[i] => task'[i].kind = kind
  <1>0. task \in [TaskIds -> TaskRecords]
    BY DEF Inv, Types, HolderTypes
  <1>1. \A k \in TaskIds : Over(task[k]) \in TaskRecords /\ Over(task[k]).kind = task[k].kind
    BY <1>0, ScopeAssumption DEF Over, NoTask, TaskRecords, TaskPcs, Maybe
  <1>2. [kind |-> kind, state |-> s, pc |-> "queued"] \in TaskRecords
    BY DEF TaskRecords, TaskPcs, Maybe
  <1>3. PICK i \in TaskIds :
          /\ task[i].kind = "none"
          /\ task' = [[k \in TaskIds |->
               IF kind = "behavior" /\ task[k].kind = kind /\ task[k].pc = "queued"
               THEN Over(task[k]) ELSE task[k]]
               EXCEPT ![i] = [kind |-> kind, state |-> s, pc |-> "queued"]]
    BY DEF Submitted
  <1> QED
    BY <1>0, <1>1, <1>2, <1>3

(* A step of a worker is a step of its submission alone.                    *)
LEMMA WorkStep ==
  ASSUME Inv, NEW i \in TaskIds, Work(i)
  PROVE  /\ task' = [task EXCEPT ![i] = task'[i]]
         /\ task'[i] \in TaskRecords /\ task'[i].kind = task[i].kind
  <1>0. task \in [TaskIds -> TaskRecords] /\ task[i] \in TaskRecords
    BY DEF Inv, Types, HolderTypes
  <1>1. Over(task[i]) \in TaskRecords /\ Over(task[i]).kind = task[i].kind
    BY <1>0, ScopeAssumption DEF Over, NoTask, TaskRecords, TaskPcs, Maybe
  <1>2. \A pc \in TaskPcs : /\ [task[i] EXCEPT !.pc = pc] \in TaskRecords
                            /\ [task[i] EXCEPT !.pc = pc].kind = task[i].kind
    BY <1>0 DEF TaskRecords
  <1>3. [Over(task[i]) EXCEPT !.pc = "settled"] \in TaskRecords
        /\ [Over(task[i]) EXCEPT !.pc = "settled"].kind = task[i].kind
    BY <1>1 DEF TaskRecords, TaskPcs
  <1>4. {"begun", "working", "attach"} \subseteq TaskPcs
    BY DEF TaskPcs
  <1> HIDE DEF Over
  <1>5. CASE StartTask(i)
    BY <1>0, <1>1, <1>2, <1>4, <1>5 DEF StartTask
  <1>6. CASE Admit(i) \/ Worked(i)
    BY <1>0, <1>1, <1>2, <1>4, <1>6 DEF Admit, Worked
  <1>7. CASE Attach(i) \/ Raise(i)
    BY <1>0, <1>1, <1>3, <1>7 DEF Attach, Raise
  <1> QED
    BY <1>5, <1>6, <1>7 DEF Work

-----------------------------------------------------------------------------
(* What a request leaves behind in the reader that made it.                 *)
LEMMA ReaderStep ==
  ASSUME Inv, NEW r \in Readers, Asks(r)
  PROVE  /\ reader' = [reader EXCEPT ![r] = reader'[r]]
         /\ reader'[r] \in ReaderRecords
         /\ reader'[r].pc = "keep" =>
              /\ Validate(r) /\ reader'[r].state = reader[r].state
              /\ Owned(reader[r].state)
  <1>0. /\ reader \in [Readers -> ReaderRecords] /\ reader[r] \in ReaderRecords
        /\ published \in Maybe(States) /\ durable \in Maybe(States)
    BY DEF Inv, Types, StoreTypes, HolderTypes
  <1> DEFINE Good ==
        /\ reader' = [reader EXCEPT ![r] = reader'[r]]
        /\ reader'[r] \in ReaderRecords
        /\ reader'[r].pc = "keep" =>
             /\ Validate(r) /\ reader'[r].state = reader[r].state
             /\ Owned(reader[r].state)
  <1>1. ASSUME Leave(r) PROVE Good
    BY <1>0, <1>1 DEF Leave, NoReader, ReaderRecords, ReaderPcs, Maybe
  <1>2. ASSUME Enrich(r) \/ AskHistory(r) \/ Answer(r) \/ Built(r) \/ Hydrated(r) PROVE Good
    BY <1>1, <1>2 DEF Enrich, AskHistory, Answer, Built, Hydrated
  <1>3. ASSUME Capture(r) \/ Hydrate(r) PROVE Good
    BY <1>0, <1>3 DEF Capture, Hydrate, ReaderRecords, ReaderPcs
  <1>4. ASSUME LockCache(r) PROVE Good
    BY <1>0, <1>4 DEF LockCache, ReaderRecords, ReaderPcs
  <1>5. ASSUME Validate(r) PROVE Good
    BY <1>0, <1>5 DEF Validate, ReaderRecords, ReaderPcs
  <1> QED
    BY <1>2, <1>3, <1>4, <1>5 DEF Asks, Serve

(* What is written to the holders: a State in scope, one that was there, or *)
(* nothing; a submission is never reused for another kind of work.          *)
Enriched ==
  \A i \in TaskIds : enriched'[i] \in {None, enriched[i]} \/ Owned(enriched'[i])

LEMMA RequestHolds ==
  ASSUME Inv, NEW r \in Readers, Asks(r)
  PROVE  /\ HolderTypes' /\ EnrichmentTasks' /\ Enriched
         /\ cache' \in {None, cache} \/ (reader[r].pc = "keep" /\ cache' = reader[r].state)
         /\ \A s \in States : history'[s] = history[s] \/ Owned(s)
         /\ behavior' # behavior => behavior = NoRecord
  <1>0. /\ reader \in [Readers -> ReaderRecords] /\ reader[r] \in ReaderRecords
        /\ task \in [TaskIds -> TaskRecords]
        /\ cache \in Maybe(States) /\ durable \in Maybe(States)
        /\ enriched \in [TaskIds -> Maybe(States)]
        /\ history \in [States -> Marks]
        /\ behavior \in [state : Maybe(States), busy : BOOLEAN]
        /\ published \in Maybe(States) /\ working \in Maybe(States)
        /\ EnrichmentTasks
    BY DEF Inv, Types, StoreTypes, HolderTypes
  <1>1. reader' \in [Readers -> ReaderRecords]
    BY <1>0, ReaderStep
  <1>2. CASE Enrich(r)
    <2> DEFINE s == reader[r].state
    <2>1. s \in States /\ Owned(s)
      BY <1>0, <1>2 DEF Enrich, Owned, Scope, Maybe
    <2>2. Submitted("enrichment", s) /\ Recorded(s)
      BY <1>2 DEF Enrich
    <2>3. /\ task' \in [TaskIds -> TaskRecords]
          /\ \A i \in TaskIds : task[i].kind # "none" => task'[i].kind = task[i].kind
          /\ \A i \in TaskIds : task'[i] # task[i] => task'[i].kind = "enrichment"
      BY <2>1, <2>2, Submission DEF Kinds
    <2>4. /\ enriched' \in [TaskIds -> Maybe(States)]
          /\ \A i \in TaskIds : enriched'[i] = enriched[i]
                                \/ (task'[i] # task[i] /\ enriched'[i] = s)
      BY <1>0, <2>1, <2>2 DEF Recorded, Maybe
    <2>5. UNCHANGED <<cache, history, behavior, durable>>
      BY <1>2 DEF Enrich
    <2> HIDE DEF s
    <2>6. EnrichmentTasks' /\ Enriched
      BY <1>0, <2>1, <2>3, <2>4 DEF EnrichmentTasks, Enriched, Kinds
    <2> QED
      BY <1>0, <1>1, <2>3, <2>4, <2>5, <2>6 DEF HolderTypes
  <1>3. CASE AskHistory(r)
    <2> DEFINE s == reader[r].state
    <2>1. s \in States /\ Owned(s)
      BY <1>0, <1>3 DEF AskHistory, Owned, Scope, Maybe
    <2>2. /\ Submitted("history", s) /\ history' = [history EXCEPT ![s] = "queued"]
          /\ UNCHANGED <<cache, enriched, behavior, durable>>
      BY <1>3 DEF AskHistory
    <2>3. /\ task' \in [TaskIds -> TaskRecords]
          /\ \A i \in TaskIds : task[i].kind # "none" => task'[i].kind = task[i].kind
      BY <2>1, <2>2, Submission DEF Kinds
    <2> HIDE DEF s
    <2>4. EnrichmentTasks'
      BY <1>0, <2>2, <2>3 DEF EnrichmentTasks
    <2> QED
      BY <1>0, <1>1, <2>1, <2>2, <2>3, <2>4 DEF HolderTypes, Marks, Enriched
  <1>4. CASE Capture(r) \/ Answer(r) \/ Hydrate(r) \/ LockCache(r)
    <2>1. UNCHANGED <<holders, task, durable>>
      BY <1>4 DEF Capture, Answer, Hydrate, LockCache
    <2> QED
      BY <1>0, <1>1, <2>1 DEF holders, HolderTypes, EnrichmentTasks, Enriched
  <1>5. CASE Validate(r) \/ Built(r)
    <2>1. /\ UNCHANGED <<enriched, history, behavior, task, durable>>
          /\ cache' \in {None, cache} \/ (reader[r].pc = "keep" /\ cache' = reader[r].state)
      BY <1>5 DEF Validate, Built
    <2> QED
      BY <1>0, <1>1, <2>1 DEF HolderTypes, EnrichmentTasks, Enriched, ReaderRecords, Maybe
  <1>6. CASE Hydrated(r)
    <2>1. /\ UNCHANGED <<cache, enriched, history, task, durable>>
          /\ \/ behavior' = behavior
             \/ behavior = NoRecord /\ behavior' = [state |-> reader[r].state, busy |-> FALSE]
      BY <1>6 DEF Hydrated
    <2>2. reader[r].state \in Maybe(States)
      BY <1>0 DEF ReaderRecords
    <2>3. [state |-> reader[r].state, busy |-> FALSE] \in [state : Maybe(States), busy : BOOLEAN]
      BY <2>2
    <2>4. /\ behavior' \in [state : Maybe(States), busy : BOOLEAN]
          /\ behavior' # behavior => behavior = NoRecord
      BY <1>0, <2>1, <2>3
    <2> QED
      BY <1>0, <1>1, <2>1, <2>4 DEF HolderTypes, EnrichmentTasks, Enriched
  <1> QED
    BY <1>2, <1>3, <1>4, <1>5, <1>6 DEF Asks, Serve

LEMMA WorkHolds ==
  ASSUME Inv, NEW i \in TaskIds, Work(i)
  PROVE  /\ HolderTypes' /\ EnrichmentTasks' /\ Enriched
         /\ UNCHANGED <<cache, reader>>
         /\ \A s \in States : history[s] = "none" => history'[s] = "none"
         /\ behavior'.state = behavior.state
  <1>0. /\ reader \in [Readers -> ReaderRecords]
        /\ task \in [TaskIds -> TaskRecords] /\ task[i] \in TaskRecords
        /\ cache \in Maybe(States) /\ durable \in Maybe(States)
        /\ enriched \in [TaskIds -> Maybe(States)]
        /\ history \in [States -> Marks]
        /\ behavior \in [state : Maybe(States), busy : BOOLEAN]
        /\ EnrichmentTasks
    BY DEF Inv, Types, HolderTypes
  <1>1. /\ UNCHANGED <<cache, reader>>
        /\ task' \in [TaskIds -> TaskRecords]
        /\ \A k \in TaskIds : task'[k].kind = task[k].kind
    <2>1. UNCHANGED <<cache, reader>>
      BY DEF Work, StartTask, Admit, Worked, Attach, Raise, holders
    <2> QED
      BY <1>0, <2>1, WorkStep
  <1> DEFINE s == task[i].state
  <1>2. s \in Maybe(States)
    BY <1>0 DEF TaskRecords
  <1>3. enriched' = enriched
    <2>1. CASE Attach(i) /\ task[i].kind = "enrichment" /\ Kept(i)
      BY <1>0, <2>1 DEF Attach, Kept
    <2>2. CASE ~(Attach(i) /\ task[i].kind = "enrichment" /\ Kept(i))
      BY <2>2 DEF Work, StartTask, Admit, Worked, Attach, Raise, holders
    <2> QED
      BY <2>1, <2>2
  <1>4. history' = history \/ (history[s] # "none"
                               /\ \E m \in Marks : history' = [history EXCEPT ![s] = m])
    <2>1. CASE StartTask(i)
      BY <2>1 DEF StartTask, MayGoOn, Kept, Marks
    <2>2. CASE Admit(i) \/ Worked(i)
      BY <2>2 DEF Admit, Worked, holders
    <2>3. CASE Attach(i) \/ Raise(i)
      BY <2>3 DEF Attach, Raise, Kept, Marks
    <2> QED
      BY <2>1, <2>2, <2>3 DEF Work
  <1>5. /\ behavior' \in [state : Maybe(States), busy : BOOLEAN]
        /\ behavior'.state = behavior.state
        /\ durable' \in Maybe(States)
    <2>1. CASE StartTask(i) \/ Admit(i) \/ Worked(i)
      BY <1>0, <2>1 DEF StartTask, Admit, Worked, holders
    <2>2. CASE Attach(i)
      BY <1>0, <1>2, <2>2 DEF Attach, Kept
    <2>3. CASE Raise(i)
      BY <1>0, <2>3 DEF Raise
    <2> QED
      BY <2>1, <2>2, <2>3 DEF Work
  <1> HIDE DEF s
  <1>6. history' \in [States -> Marks]
        /\ \A k \in States : history[k] = "none" => history'[k] = "none"
    BY <1>0, <1>4
  <1> QED
    BY <1>0, <1>1, <1>3, <1>5, <1>6 DEF HolderTypes, EnrichmentTasks, Enriched

(* The clearers, and the hand-off to Behavioral.                            *)
LEMMA ClearHolds ==
  ASSUME Inv, Clear
  PROVE  /\ HolderTypes' /\ EnrichmentTasks'
         /\ reader' = reader
         /\ cache' \in {None, cache}
         /\ move.step = 1 => cache' = None /\ CacheFree
         /\ \A i \in TaskIds : enriched'[i] \in {None, enriched[i]}
         /\ move.step = 2 => \A i \in TaskIds : enriched'[i] = None
         /\ \A s \in States : history'[s] \in {"none", history[s]}
         /\ move.step = 4 => \A s \in States : history'[s] = "none"
  <1>0. /\ reader \in [Readers -> ReaderRecords]
        /\ task \in [TaskIds -> TaskRecords]
        /\ cache \in Maybe(States) /\ durable \in Maybe(States)
        /\ enriched \in [TaskIds -> Maybe(States)]
        /\ history \in [States -> Marks]
        /\ behavior \in [state : Maybe(States), busy : BOOLEAN]
        /\ EnrichmentTasks
    BY DEF Inv, Types, HolderTypes
  <1>1. \A k \in TaskIds : Over(task[k]) \in TaskRecords /\ Over(task[k]).kind = task[k].kind
    BY <1>0, ScopeAssumption DEF Over, NoTask, TaskRecords, TaskPcs, Maybe
  <1>2. ASSUME NEW kind, Cancelled(kind)
        PROVE  /\ task' \in [TaskIds -> TaskRecords]
               /\ \A k \in TaskIds : task'[k].kind = task[k].kind
    BY <1>0, <1>1, <1>2 DEF Cancelled
  <1>3. UNCHANGED <<reader, durable>>
    BY DEF Clear
  <1>4. \/ move.step = 1 /\ ClearCache
        \/ move.step = 2 /\ ClearEnrichment
        \/ move.step = 3 /\ ClearBehavior
        \/ move.step = 4 /\ ClearHistory
    <2>1. move.step \in {1, 2, 3, 4}
      BY DEF Clear
    <2>2. /\ Clearing[1] = "cache" /\ Clearing[2] = "enrichment"
          /\ Clearing[3] = "behavior" /\ Clearing[4] = "history"
      BY DEF Clearing
    <2> QED
      BY <2>1, <2>2 DEF Clear
  <1>5. CASE move.step = 1 /\ ClearCache
    BY <1>0, <1>3, <1>5 DEF ClearCache, HolderTypes, EnrichmentTasks, Maybe
  <1>6. CASE move.step = 2 /\ ClearEnrichment
    BY <1>0, <1>2, <1>3, <1>6 DEF ClearEnrichment, HolderTypes, EnrichmentTasks, Maybe
  <1>7. CASE move.step = 3 /\ ClearBehavior
    <2>1. behavior' \in [state : Maybe(States), busy : BOOLEAN]
      BY <1>7 DEF ClearBehavior, NoRecord, Maybe
    <2> QED
      BY <1>0, <1>2, <1>3, <1>7, <2>1 DEF ClearBehavior, HolderTypes, EnrichmentTasks
  <1>8. CASE move.step = 4 /\ ClearHistory
    BY <1>0, <1>2, <1>3, <1>8 DEF ClearHistory, HolderTypes, EnrichmentTasks, Marks
  <1> QED
    BY <1>4, <1>5, <1>6, <1>7, <1>8

LEMMA HandOffHolds ==
  ASSUME Inv, HandOff
  PROVE  /\ HolderTypes' /\ EnrichmentTasks'
         /\ UNCHANGED <<reader, cache, enriched, history>>
         /\ behavior'.state = move.to /\ move.to \in States
  <1>0. /\ reader \in [Readers -> ReaderRecords]
        /\ task \in [TaskIds -> TaskRecords]
        /\ cache \in Maybe(States) /\ durable \in Maybe(States)
        /\ enriched \in [TaskIds -> Maybe(States)]
        /\ history \in [States -> Marks]
        /\ behavior \in [state : Maybe(States), busy : BOOLEAN]
        /\ EnrichmentTasks
    BY DEF Inv, Types, HolderTypes
  <1>1. move.to \in States
    BY DEF HandOff, Inv, ScopeSound, Free, Handoff
  <1>2. UNCHANGED <<reader, cache, enriched, history, durable>>
    BY DEF HandOff
  <1>3. /\ task' \in [TaskIds -> TaskRecords]
        /\ \A k \in TaskIds : task[k].kind # "none" => task'[k].kind = task[k].kind
    <2>1. CASE task' = task
      BY <1>0, <2>1
    <2>2. CASE Submitted("behavior", move.to)
      BY <1>1, <2>2, Submission DEF Kinds
    <2> QED
      BY <2>1, <2>2 DEF HandOff
  <1>4. behavior' = [state |-> move.to, busy |-> TRUE]
    BY DEF HandOff
  <1>5. EnrichmentTasks'
    BY <1>0, <1>2, <1>3 DEF EnrichmentTasks
  <1> QED
    BY <1>0, <1>1, <1>2, <1>3, <1>4, <1>5 DEF HolderTypes, Maybe

LEMMA HolderTypesStep == Inv /\ [Next]_vars => HolderTypes' /\ EnrichmentTasks'
  <1> SUFFICES ASSUME Inv, [Next]_vars PROVE HolderTypes' /\ EnrichmentTasks'
    OBVIOUS
  <1>1. CASE Unheld
    BY <1>1 DEF Inv, Types, Unheld, holders, HolderTypes, EnrichmentTasks
  <1> QED
    BY <1>1, WhoHolds, RequestHolds, WorkHolds, ClearHolds, HandOffHolds

-----------------------------------------------------------------------------
(* The scope: the State in scope is the one the user was moved to, and no   *)
(* boundary has released it since.                                          *)
LEMMA ScopeStep == Inv /\ [Next]_vars => ScopeSound'
  <1> SUFFICES ASSUME Inv, [Next]_vars PROVE ScopeSound'
    OBVIOUS
  <1>0. /\ ScopeSound /\ released \subseteq States /\ move \in Moves
        /\ published \in Maybe(States) /\ working \in Maybe(States) /\ None \notin States
    BY ScopeAssumption DEF Inv, Types, StoreTypes
  <1>1. CASE Quiet
    BY <1>0, <1>1 DEF Quiet, store, ScopeSound, Scope, Free
  <1>2. ASSUME NEW j \in JobIds, Activate(j) PROVE ScopeSound'
    <2>1. job[j].state \in States
      BY <1>2 DEF Activate, At, Inv, JobsSound
    <2> QED
      BY <1>0, <1>2, <2>1 DEF Activate, Moved, ScopeSound, Scope
  <1>3. ASSUME NEW s \in States, Stage(s) PROVE ScopeSound'
    BY <1>0, <1>3 DEF Stage, Moved, ScopeSound, Scope
  <1>4. CASE Unstage
    BY <1>0, <1>4 DEF Unstage, ScopeSound, Scope, Free, Maybe
  <1>5. CASE Clear
    <2>1. /\ move.step \in 1..4 /\ move' = [move EXCEPT !.step = @ + 1] /\ UNCHANGED store
          /\ released' = IF move.step = 4 THEN States \ {move.to} ELSE released
      BY <1>5 DEF Clear
    <2>2. move'.to = move.to /\ move.step # 0
      BY <1>0, <2>1 DEF Moves
    <2> QED
      BY <1>0, <2>1, <2>2 DEF ScopeSound, Scope, Free, store
  <1>6. CASE ClearFails
    BY <1>6 DEF ClearFails, NoMove, ScopeSound, Scope, Free
  <1>7. CASE HandOff
    BY <1>0, <1>7 DEF HandOff, NoMove, ScopeSound, Scope, Free, store
  <1> QED
    BY <1>1, <1>2, <1>3, <1>4, <1>5, <1>6, <1>7, WhoMoves

(* No State in scope is barred, and only the k-th clearer bars anything     *)
(* from its holder.                                                         *)
LEMMA ScopeFree ==
  ASSUME Inv, NEW k \in 1..4
  PROVE  Scope \notin Barred(k) /\ Barred(k) \subseteq States
  BY DEF Inv, ScopeSound, Barred, Free, Handoff, Types, StoreTypes

LEMMA BarredStep ==
  ASSUME Inv, [Next]_vars, NEW k \in 1..4, ~(Clear /\ move.step = k)
  PROVE  Barred(k)' \subseteq Barred(k)
  <1>0. move \in Moves
    BY DEF Inv, Types, StoreTypes
  <1>1. CASE Quiet
    BY <1>1 DEF Quiet, Barred
  <1>2. ASSUME NEW j \in JobIds, Activate(j) PROVE Barred(k)' \subseteq Barred(k)
    BY <1>2 DEF Activate, Moved, Free, Barred, Handoff
  <1>3. ASSUME NEW s \in States, Stage(s) PROVE Barred(k)' \subseteq Barred(k)
    BY <1>3 DEF Stage, Moved, Free, Barred, Handoff
  <1>4. CASE Unstage
    BY <1>4 DEF Unstage, Free, Barred
  <1>5. CASE Clear
    <2>1. /\ move.step \in 1..4 /\ move' = [move EXCEPT !.step = @ + 1]
          /\ released' = IF move.step = 4 THEN States \ {move.to} ELSE released
      BY <1>5 DEF Clear
    <2>2. move'.to = move.to /\ move'.step = move.step + 1 /\ move.step # k
      BY <1>0, <1>5, <2>1 DEF Moves
    <2> QED
      BY <2>1, <2>2 DEF Barred, Handoff
  <1>6. CASE ClearFails \/ HandOff
    BY <1>6 DEF ClearFails, HandOff, NoMove, Barred, Handoff
  <1> QED
    BY <1>1, <1>2, <1>3, <1>4, <1>5, <1>6, WhoMoves

-----------------------------------------------------------------------------
(* The holders stay clean.                                                  *)
LEMMA CacheCleanStep == Inv /\ [Next]_vars => CacheClean'
  <1> SUFFICES ASSUME Inv, [Next]_vars PROVE CacheClean'
    OBVIOUS
  <1>0. /\ CacheClean /\ None \notin States
        /\ Scope \notin Barred(1) /\ Barred(1) \subseteq States /\ Barred(1)' \subseteq States
    <2>1. Barred(1)' \subseteq States
      BY StoreTypesStep DEF Barred, StoreTypes
    <2> QED
      BY <2>1, ScopeFree, ScopeAssumption DEF Inv, Clean
  <1>1. CASE Clear /\ move.step = 1
    BY <1>0, <1>1, ClearHolds DEF CacheClean, CacheFree
  <1>2. CASE ~(Clear /\ move.step = 1)
    <2>1. Barred(1)' \subseteq Barred(1)
      BY <1>2, BarredStep
    <2>2. CASE Unheld \/ Clear \/ HandOff \/ \E i \in TaskIds : Work(i)
      <3>1. reader' = reader /\ cache' \in {None, cache}
        BY <2>2, ClearHolds, HandOffHolds, WorkHolds DEF Unheld, holders
      <3> QED
        BY <1>0, <2>1, <3>1 DEF CacheClean
    <2>3. ASSUME NEW r \in Readers, Asks(r) PROVE CacheClean'
      <3>1. /\ reader \in [Readers -> ReaderRecords]
            /\ reader' = [reader EXCEPT ![r] = reader'[r]]
            /\ reader'[r].pc = "keep" => Owned(reader'[r].state)
        BY <2>3, ReaderStep DEF Inv, Types, HolderTypes
      <3>2. \A q \in Readers : reader'[q].pc = "keep" => reader'[q].state \notin Barred(1)
        BY <1>0, <3>1 DEF CacheClean, Owned
      <3>3. cache' \notin Barred(1)
        BY <1>0, <2>3, RequestHolds DEF CacheClean
      <3> QED
        BY <2>1, <3>2, <3>3 DEF CacheClean
    <2> QED
      BY <2>2, <2>3, WhoHolds
  <1> QED
    BY <1>1, <1>2

LEMMA EnrichmentCleanStep == Inv /\ [Next]_vars => EnrichmentClean'
  <1> SUFFICES ASSUME Inv, [Next]_vars PROVE EnrichmentClean'
    OBVIOUS
  <1>0. /\ EnrichmentClean /\ None \notin States
        /\ Scope \notin Barred(2) /\ Barred(2) \subseteq States /\ Barred(2)' \subseteq States
    <2>1. Barred(2)' \subseteq States
      BY StoreTypesStep DEF Barred, StoreTypes
    <2> QED
      BY <2>1, ScopeFree, ScopeAssumption DEF Inv, Clean
  <1>1. CASE Clear /\ move.step = 2
    BY <1>0, <1>1, ClearHolds DEF EnrichmentClean
  <1>2. CASE ~(Clear /\ move.step = 2)
    <2>1. Barred(2)' \subseteq Barred(2)
      BY <1>2, BarredStep
    <2>2. Enriched
      BY WhoHolds, RequestHolds, WorkHolds, ClearHolds, HandOffHolds
      DEF Unheld, holders, Enriched
    <2> QED
      BY <1>0, <2>1, <2>2 DEF EnrichmentClean, Enriched, Owned
  <1> QED
    BY <1>1, <1>2

LEMMA HistoryCleanStep == Inv /\ [Next]_vars => HistoryClean'
  <1> SUFFICES ASSUME Inv, [Next]_vars PROVE HistoryClean'
    OBVIOUS
  <1>0. /\ HistoryClean
        /\ Scope \notin Barred(4) /\ Barred(4) \subseteq States /\ Barred(4)' \subseteq States
    <2>1. Barred(4)' \subseteq States
      BY StoreTypesStep DEF Barred, StoreTypes
    <2> QED
      BY <2>1, ScopeFree DEF Inv, Clean
  <1>1. CASE Clear /\ move.step = 4
    BY <1>0, <1>1, ClearHolds DEF HistoryClean
  <1>2. CASE ~(Clear /\ move.step = 4)
    <2>1. Barred(4)' \subseteq Barred(4)
      BY <1>2, BarredStep
    <2>2. \A s \in States : history[s] = "none" => history'[s] = "none" \/ Owned(s)
      BY WhoHolds, RequestHolds, WorkHolds, ClearHolds, HandOffHolds DEF Unheld, holders
    <2> QED
      BY <1>0, <2>1, <2>2 DEF HistoryClean, Owned
  <1> QED
    BY <1>1, <1>2

LEMMA BehaviorCleanStep == Inv /\ [Next]_vars => BehaviorClean'
  <1> SUFFICES ASSUME Inv, [Next]_vars, Free'
               PROVE  /\ behavior'.state \notin released'
                      /\ released' # {} => behavior'.state # None
    BY DEF BehaviorClean
  <1>0. BehaviorClean /\ ScopeSound /\ move \in Moves /\ None \notin States
    BY ScopeAssumption DEF Inv, Clean, Types, StoreTypes
  <1>1. CASE ClearFails
    BY <1>1 DEF ClearFails
  <1>2. CASE HandOff
    <2>1. released' = released /\ ~Free
      BY <1>2 DEF HandOff, Free, Handoff
    <2> QED
      BY <1>0, <1>2, <2>1, HandOffHolds DEF ScopeSound
  <1>3. CASE ~ClearFails /\ ~HandOff
    <2>1. ~Clear
      <3>1. ASSUME Clear PROVE FALSE
        <4>1. move.step \in 1..4 /\ move' = [move EXCEPT !.step = @ + 1]
          BY <3>1 DEF Clear
        <4> QED
          BY <1>0, <4>1 DEF Free, Moves
      <3> QED
        BY <3>1
    <2>2. Free /\ released' \subseteq released
      <3>1. \A j \in JobIds : ~Activate(j)
        BY DEF Activate, Moved, Free, Handoff
      <3>2. \A s \in States : ~Stage(s)
        BY DEF Stage, Moved, Free, Handoff
      <3>3. Quiet \/ Unstage
        BY <1>3, <2>1, <3>1, <3>2, WhoMoves
      <3> QED
        BY <3>3 DEF Quiet, Unstage, Free
    <2>3. behavior'.state = behavior.state \/ behavior = NoRecord
      BY <1>3, <2>1, WhoHolds, RequestHolds, WorkHolds DEF Unheld, holders
    <2> QED
      BY <1>0, <2>2, <2>3 DEF BehaviorClean, NoRecord
  <1> QED
    BY <1>1, <1>2, <1>3

-----------------------------------------------------------------------------
LEMMA InvStep == Inv /\ [Next]_vars => Inv'
  BY StoreTypesStep, JobTypesStep, HolderTypesStep, JobsSoundStep, ScopeStep, CacheCleanStep,
     EnrichmentCleanStep, HistoryCleanStep, BehaviorCleanStep
  DEF Inv, Types, Clean

(* The strengthening is an invariant.                                       *)
THEOREM Invariance == Spec => []Inv
  <1>1. Init => Inv
    BY InitInv
  <1>2. Inv /\ [Next]_vars => Inv'
    BY InvStep
  <1> QED
    BY <1>1, <1>2, PTL DEF Spec

(* Every variable has its type, the current job exists, a job is in a       *)
(* transition only while that holds the lifecycle lock (hosted_connect.py), *)
(* and the State in scope was not released.                                 *)
THEOREM TypeCorrect == Spec => []TypeOK
  <1>1. Inv => TypeOK
    <2> SUFFICES ASSUME Inv PROVE TypeOK
      OBVIOUS
    <2>1. StoreTypes /\ JobTypes /\ HolderTypes /\ JobsSound /\ EnrichmentTasks /\ ScopeSound
      BY DEF Inv, Types
    <2>2. {published, working, cache, durable, behavior.state, move.to} \subseteq Maybe(States)
      BY <2>1 DEF StoreTypes, HolderTypes, Moves
    <2>3. /\ generation \in 0..MaxGenerations
          /\ move.step \in 0..Handoff /\ move.by \in JobIds \cup {0}
      BY <2>1 DEF StoreTypes, Moves
    <2>4. /\ \A j \in JobIds : job[j].state \in Maybe(States) /\ job[j].league \in Maybe(Leagues)
          /\ current \in JobIds \cup {0}
      BY <2>1 DEF JobTypes, JobRecords
    <2>5. \A i \in TaskIds : task[i].kind \in Kinds \cup {"none"} /\ task[i].state \in Maybe(States)
      BY <2>1 DEF HolderTypes, TaskRecords
    <2>6. released \subseteq States \ {Scope}
      BY <2>1 DEF StoreTypes, ScopeSound
    <2> QED
      BY <2>1, <2>2, <2>3, <2>4, <2>5, <2>6 DEF TypeOK, JobsSound, EnrichmentTasks
  <1> QED
    BY <1>1, Invariance, PTL

(* Between transitions no holder has anything of a State that a boundary    *)
(* released (resource_coordinator.py:168-210), whoever captured that State  *)
(* before it, queued for it or was working on it: with any number of        *)
(* requests, workers, leagues and States.                                   *)
THEOREM NothingComesBack == Spec => []NothingReacquired
  <1>1. Inv => NothingReacquired
    BY DEF Inv, Clean, CacheClean, EnrichmentClean, HistoryClean, BehaviorClean, Barred, Free,
           NothingReacquired
  <1> QED
    BY <1>1, Invariance, PTL
=============================================================================
