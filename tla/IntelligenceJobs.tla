-------------------------- MODULE IntelligenceJobs --------------------------
(***************************************************************************)
(* IntelligenceJobCoordinator of product/background_jobs.py: bounded        *)
(* admission to an executor, one current job per user, same-user starts     *)
(* serialised by the user's lock, and a durable lifecycle row per job from  *)
(* which a restarted process recovers its latest job.                       *)
(*                                                                         *)
(* The job map is changed under _lock, one step each; rows are read and     *)
(* written outside it, so each of those is a step of its own.  A row's      *)
(* computed_at is the time taken before the change it records, and the      *)
(* latest row is the one with the greatest computed_at.                     *)
(*                                                                         *)
(* Left out: phases, timings and messages (a progress report updates a job  *)
(* as its first report does), and failing persistence (_persist and         *)
(* _restore_latest swallow errors).                                         *)
(***************************************************************************)
EXTENDS Naturals, FiniteSets, FiniteSetsExt

CONSTANTS
  None,
  Users,
  StateIds,
  Starters,      \* request threads that start jobs
  Pollers,       \* request threads that ask for the current job
  MaxWorkers, MaxPending, MaxRecords,
  Cancels,       \* whether pending Futures are cancelled (nothing in product/ does)
  MaxJobs,       \* bound of the model on the jobs ever issued
  MaxTime,       \* bound of the model on the time of a call of start or a report
  MaxRestarts    \* bound of the model on restarts

Callers == Starters \cup Pollers
JobIds == 1..MaxJobs
Capacity == MaxWorkers + MaxPending

ASSUME JobsAssumption ==
  /\ None \notin Users \cup StateIds \cup Callers \cup JobIds
  /\ Callers \cap JobIds = {} /\ Starters \cap Pollers = {}
  /\ IsFiniteSet(Callers)
  /\ MaxWorkers \in Nat \ {0} /\ MaxPending \in Nat /\ MaxRecords \in Nat \ {0}
  /\ Cancels \in BOOLEAN
  /\ MaxJobs \in Nat /\ MaxTime \in Nat /\ MaxRestarts \in Nat

VARIABLES
  jobs,       \* _jobs
  current,    \* _current_by_user
  slots,      \* free slots of _admission
  userLock,   \* who holds _user_locks[user]
  future,     \* job -> where its Future is
  call,       \* caller -> its call in progress
  write,      \* job -> the row its thread has yet to persist
  durable,    \* job -> its lifecycle row
  clock, issued, restarts

memory == <<jobs, current, slots, userLock, future, call, write>>
vars == <<memory, durable, clock, issued, restarts>>

Maybe(S) == S \cup {None}
Active == {"queued", "running"}
Ended == {"completed", "failed", "interrupted"}
Jobs == [id : JobIds, user : Users, state : StateIds,
         status : Active \cup Ended, at : Nat]

ASSUME NoneAssumption == None \notin Jobs

Calls ==
  [pc : {"idle", "locking", "restoring", "marking", "installing", "deciding",
         "persisting", "submitting", "failing"},
   user : Maybe(Users), state : Maybe(StateIds), coalesce : BOOLEAN,
   now : Nat, job : Maybe(Jobs)]
Idle == [pc |-> "idle", user |-> None, state |-> None, coalesce |-> FALSE,
         now |-> 0, job |-> None]

Fresh ==
  /\ jobs = [j \in JobIds |-> None]
  /\ current = [u \in Users |-> None]
  /\ slots = Capacity
  /\ userLock = [u \in Users |-> None]
  /\ future = [j \in JobIds |-> "none"]
  /\ call = [c \in Callers |-> Idle]
  /\ write = [j \in JobIds |-> None]

Init ==
  /\ Fresh
  /\ durable = [j \in JobIds |-> None]
  /\ clock = 0 /\ issued = 0 /\ restarts = 0

-----------------------------------------------------------------------------
Known == {j \in JobIds : jobs[j] # None}
IsActive(job) == job # None /\ job.status \in Active
IsCurrent(job) == current[job.user] = job.id

Tick == clock' = clock + 1

At(c, pc) == call[c].pc = pc
Goto(c, pc) == call' = [call EXCEPT ![c].pc = pc]
Return(c) == call' = [call EXCEPT ![c] = Idle]
Unlock(u) == userLock' = [userLock EXCEPT ![u] = None]

Rows(u) == {j \in JobIds : durable[j] # None /\ durable[j].user = u}
Latest(u) == CHOOSE j \in Rows(u) : \A k \in Rows(u) : durable[k].at <= durable[j].at

-----------------------------------------------------------------------------
(* current: what is in memory, or else the latest row, with a job that was  *)
(* under way marked interrupted.  start calls it holding the user's lock,   *)
(* the requests that poll call it without.                                  *)
Poll(c, u) ==
  /\ At(c, "idle") /\ current[u] = None
  /\ call' = [call EXCEPT ![c] = [Idle EXCEPT !.pc = "restoring", !.user = u]]
  /\ UNCHANGED <<jobs, current, slots, userLock, future, write, durable, clock,
                 issued, restarts>>

Answer(c) == IF c \in Starters THEN Goto(c, "deciding") ELSE Return(c)

RestoreNothing(c) ==
  /\ At(c, "restoring")
  /\ Rows(call[c].user) = {}
  /\ Answer(c)
  /\ UNCHANGED <<jobs, current, slots, userLock, future, write, durable, clock,
                 issued, restarts>>

MutantUnderWay(row) == row.status = "running"   \* mutant: queued rows are taken as they are
UnderWay(row) == IsActive(row)

RestoreEnded(c) ==
  /\ At(c, "restoring")
  /\ Rows(call[c].user) # {}
  /\ LET row == durable[Latest(call[c].user)]
     IN  /\ ~UnderWay(row)
         /\ call' = [call EXCEPT ![c].pc = "installing", ![c].job = row]
  /\ UNCHANGED <<jobs, current, slots, userLock, future, write, durable, clock,
                 issued, restarts>>

RestoreActive(c) ==
  /\ At(c, "restoring")
  /\ Rows(call[c].user) # {}
  /\ LET row == durable[Latest(call[c].user)]
     IN  /\ UnderWay(row)
         /\ call' = [call EXCEPT ![c].pc = "marking",
                        ![c].job = [row EXCEPT !.status = "interrupted",
                                               !.at = clock + 1]]
  /\ Tick
  /\ UNCHANGED <<jobs, current, slots, userLock, future, write, durable, issued, restarts>>

Mark(c) ==
  /\ At(c, "marking")
  /\ durable' = [durable EXCEPT ![call[c].job.id] = call[c].job]
  /\ Goto(c, "installing")
  /\ UNCHANGED <<jobs, current, slots, userLock, future, write, clock, issued, restarts>>

Install(c) ==
  /\ At(c, "installing")
  /\ jobs' = [jobs EXCEPT ![call[c].job.id] = call[c].job]
  /\ current' = [current EXCEPT ![call[c].user] = call[c].job.id]
  /\ Answer(c)
  /\ UNCHANGED <<slots, userLock, future, write, durable, clock, issued, restarts>>

-----------------------------------------------------------------------------
(* start.  Its time is taken on entry, before the user's lock.              *)
Start(c, u, s, coalesce) ==
  /\ At(c, "idle") /\ clock < MaxTime
  /\ issued + Cardinality({d \in Starters : ~At(d, "idle")}) < MaxJobs
  /\ call' = [call EXCEPT ![c] = [pc |-> "locking", user |-> u, state |-> s,
                                  coalesce |-> coalesce, now |-> clock + 1, job |-> None]]
  /\ Tick
  /\ UNCHANGED <<jobs, current, slots, userLock, future, write, durable, issued, restarts>>

Enter(c) ==
  LET u == call[c].user
  IN  /\ At(c, "locking")
      /\ userLock[u] = None
      /\ userLock' = [userLock EXCEPT ![u] = c]
      /\ IF current[u] = None
         THEN Goto(c, "restoring")
         ELSE call' = [call EXCEPT ![c].pc = "deciding", ![c].job = jobs[current[u]]]
      /\ UNCHANGED <<jobs, current, slots, future, write, durable, clock, issued, restarts>>

MutantJoins(c) ==                 \* mutant: only a running job is joined
  /\ call[c].coalesce
  /\ call[c].job # None /\ call[c].job.status = "running"
  /\ call[c].job.state = call[c].state
Joins(c) ==
  /\ call[c].coalesce
  /\ IsActive(call[c].job)
  /\ call[c].job.state = call[c].state

Join(c) ==
  /\ At(c, "deciding")
  /\ Joins(c)
  /\ Unlock(call[c].user)
  /\ Return(c)
  /\ UNCHANGED <<jobs, current, slots, future, write, durable, clock, issued, restarts>>

Busy(c) ==
  /\ At(c, "deciding")
  /\ ~Joins(c)
  /\ slots = 0
  /\ Unlock(call[c].user)
  /\ Return(c)
  /\ UNCHANGED <<jobs, current, slots, future, write, durable, clock, issued, restarts>>

(* Registration first evicts the oldest ended jobs that are not current,    *)
(* while there are MaxRecords or more.                                      *)
MutantEvictable == {j \in Known : ~IsCurrent(jobs[j])}
                                  \* mutant: jobs under way are evicted too
Evictable == {j \in Known : ~IsActive(jobs[j]) /\ ~IsCurrent(jobs[j])}
Excess == IF Cardinality(Known) < MaxRecords THEN 0 ELSE Cardinality(Known) - MaxRecords + 1

Evicted(gone) ==
  /\ gone \subseteq Evictable
  /\ Cardinality(gone) = IF Cardinality(Evictable) < Excess
                         THEN Cardinality(Evictable) ELSE Excess
  /\ \A j \in gone, k \in Evictable \ gone : jobs[j].at <= jobs[k].at

Register(c) ==
  LET job == [id |-> issued + 1, user |-> call[c].user, state |-> call[c].state,
              status |-> "queued", at |-> call[c].now]
  IN  /\ At(c, "deciding")
      /\ ~Joins(c)
      /\ slots > 0
      /\ slots' = slots - 1
      /\ issued' = issued + 1
      /\ \E gone \in SUBSET Evictable :
           /\ Evicted(gone)
           /\ jobs' = [j \in JobIds |-> IF j = job.id THEN job
                                        ELSE IF j \in gone THEN None ELSE jobs[j]]
      /\ current' = [current EXCEPT ![job.user] = job.id]
      /\ call' = [call EXCEPT ![c].pc = "persisting", ![c].job = job]
      /\ UNCHANGED <<userLock, future, write, durable, clock, restarts>>

Persist(c) ==
  /\ At(c, "persisting")
  /\ durable' = [durable EXCEPT ![call[c].job.id] = call[c].job]
  /\ Goto(c, "submitting")
  /\ UNCHANGED <<jobs, current, slots, userLock, future, write, clock, issued, restarts>>

Submit(c) ==
  /\ At(c, "submitting")
  /\ future' = [future EXCEPT ![call[c].job.id] = "pending"]
  /\ Unlock(call[c].user)
  /\ Return(c)
  /\ UNCHANGED <<jobs, current, slots, write, durable, clock, issued, restarts>>

-----------------------------------------------------------------------------
(* _update of job j: its row is written by its thread afterwards, if the    *)
(* job was current.  The code raises KeyError for a job that is not in the  *)
(* map, which Retained excludes.                                            *)
MutantRow(job) == IF IsCurrent(job) /\ job.status \in Ended THEN job ELSE None
                                  \* mutant: only the end of a job is written
Row(job) == IF IsCurrent(job) THEN job ELSE None

Update(j, status) ==
  LET job == [jobs[j] EXCEPT !.status = status, !.at = clock + 1]
  IN  /\ jobs[j] # None
      /\ jobs' = [jobs EXCEPT ![j] = job]
      /\ write' = [write EXCEPT ![j] = Row(job)]
      /\ Tick

(* The executor refuses the job: it fails, and gives its slot back.         *)
SubmitFails(c) ==
  LET j == call[c].job.id
  IN  /\ At(c, "submitting")
      /\ Update(j, "failed")
      /\ Goto(c, "failing")
      /\ UNCHANGED <<current, slots, userLock, future, durable, issued, restarts>>

MutantFailing(c) == slots' = slots    \* mutant: the refused job keeps its slot
Failing(c) == slots' = slots + 1

SubmitFailed(c) ==
  LET j == call[c].job.id
  IN  /\ At(c, "failing")
      /\ IF write[j] = None
         THEN UNCHANGED durable
         ELSE durable' = [durable EXCEPT ![j] = write[j]]
      /\ write' = [write EXCEPT ![j] = None]
      /\ Failing(c)
      /\ Unlock(call[c].user)
      /\ Return(c)
      /\ UNCHANGED <<jobs, current, future, clock, issued, restarts>>

Running == {j \in JobIds : future[j] = "running"}

(* _run: a worker takes the job, reports progress and ends it, writing each *)
(* row before the next.                                                     *)
Begin(j) ==
  /\ future[j] = "pending"
  /\ Cardinality(Running) < MaxWorkers
  /\ future' = [future EXCEPT ![j] = "running"]
  /\ Update(j, "running")
  /\ UNCHANGED <<current, slots, userLock, call, durable, issued, restarts>>

Save(j) ==
  /\ future[j] \in {"running", "ending", "cancelled"}
  /\ write[j] # None
  /\ durable' = [durable EXCEPT ![write[j].id] = write[j]]
  /\ write' = [write EXCEPT ![j] = None]
  /\ userLock' = [u \in Users |-> IF userLock[u] = j THEN None ELSE userLock[u]]
  /\ UNCHANGED <<jobs, current, slots, future, call, clock, issued, restarts>>

Saved(j) == future[j] = "running" /\ write[j] = None

Report(j) ==
  /\ Saved(j) /\ clock < MaxTime
  /\ Update(j, "running")
  /\ UNCHANGED <<current, slots, userLock, future, call, durable, issued, restarts>>

End(j, status) ==
  /\ Saved(j)
  /\ future' = [future EXCEPT ![j] = "ending"]
  /\ Update(j, status)
  /\ UNCHANGED <<current, slots, userLock, call, durable, issued, restarts>>

(* update_current_league_state_id, by the work of job j, which moves the    *)
(* user's current job to the State it reached; a refusal ends the work.     *)
(* (The user is the work's own; job j is in the map to name it.)            *)
Resync(j, s) ==
  LET u == jobs[j].user
      job == jobs[current[u]]
  IN  /\ Saved(j) /\ clock < MaxTime
      /\ jobs[j] # None
      /\ userLock[u] = None
      /\ current[u] # None
      /\ IsActive(job) /\ job.state = jobs[j].state
      /\ userLock' = [userLock EXCEPT ![u] = j]
      /\ jobs' = [jobs EXCEPT ![job.id].state = s, ![job.id].at = clock + 1]
      /\ write' = [write EXCEPT ![j] = [job EXCEPT !.state = s, !.at = clock + 1]]
      /\ Tick
      /\ UNCHANGED <<current, slots, future, call, durable, issued, restarts>>

(* _finish_admitted.  A Future cancelled before its worker took it          *)
(* interrupts its job; every Future gives back one slot.                    *)
Cancel(j) ==
  /\ Cancels /\ future[j] = "pending"
  /\ future' = [future EXCEPT ![j] = "cancelled"]
  /\ IF IsActive(jobs[j])
     THEN Update(j, "interrupted")
     ELSE UNCHANGED <<jobs, write, clock>>
  /\ UNCHANGED <<current, slots, userLock, call, durable, issued, restarts>>

MutantFinished(j) ==              \* mutant: a superseded job keeps its slot
  future[j] \in {"ending", "cancelled"} /\ IsCurrent(jobs[j])
Finished(j) == future[j] \in {"ending", "cancelled"}

MutantFreed == slots + 2          \* mutant: the worker and the callback both give it back
Freed == slots + 1

Finish(j) ==
  /\ Finished(j)
  /\ write[j] = None
  /\ future' = [future EXCEPT ![j] = "none"]
  /\ slots' = Freed
  /\ UNCHANGED <<jobs, current, userLock, call, write, durable, clock, issued, restarts>>

(* The process dies and another starts: only the rows are left.             *)
Restart ==
  /\ restarts < MaxRestarts
  /\ restarts' = restarts + 1
  /\ jobs' = [j \in JobIds |-> None]
  /\ current' = [u \in Users |-> None]
  /\ slots' = Capacity
  /\ userLock' = [u \in Users |-> None]
  /\ future' = [j \in JobIds |-> "none"]
  /\ call' = [c \in Callers |-> Idle]
  /\ write' = [j \in JobIds |-> None]
  /\ UNCHANGED <<durable, clock, issued>>

-----------------------------------------------------------------------------
Proceed(c) ==
  \/ RestoreNothing(c) \/ RestoreEnded(c) \/ RestoreActive(c) \/ Mark(c) \/ Install(c)
  \/ Enter(c) \/ Join(c) \/ Busy(c) \/ Register(c) \/ Persist(c)
  \/ Submit(c) \/ SubmitFails(c) \/ SubmitFailed(c)

Work(j) == Begin(j) \/ Save(j) \/ Finish(j) \/ \E status \in Ended : End(j, status)

Next ==
  \/ \E c \in Pollers, u \in Users : Poll(c, u)
  \/ \E c \in Starters, u \in Users, s \in StateIds, b \in BOOLEAN : Start(c, u, s, b)
  \/ \E c \in Callers : Proceed(c)
  \/ \E j \in JobIds :
       \/ Work(j) \/ Report(j) \/ Cancel(j)
       \/ \E s \in StateIds : Resync(j, s)
  \/ Restart

(* Threads run, and the work of a job ends; nobody need call, cancel,       *)
(* report or restart.                                                       *)
Spec ==
  /\ Init /\ [][Next]_vars
  /\ \A c \in Callers : WF_vars(Proceed(c))
  /\ \A j \in JobIds : WF_vars(Work(j))

-----------------------------------------------------------------------------
(* The variables have their types.                                          *)
TypeOK ==
  /\ jobs \in [JobIds -> Maybe(Jobs)]
  /\ \A j \in Known : jobs[j].id = j
  /\ current \in [Users -> Maybe(JobIds)]
  /\ slots \in 0..Capacity
  /\ userLock \in [Users -> Maybe(Callers \cup JobIds)]
  /\ future \in [JobIds -> {"none", "pending", "running", "ending", "cancelled"}]
  /\ call \in [Callers -> Calls]
  /\ write \in [JobIds -> Maybe(Jobs)]
  /\ durable \in [JobIds -> Maybe(Jobs)]
  /\ clock \in Nat /\ issued \in 0..MaxJobs /\ restarts \in 0..MaxRestarts

Live == {j \in JobIds : future[j] # "none"}
Admitting == {c \in Callers : call[c].pc \in {"persisting", "submitting", "failing"}}

(* Exactly the jobs under admission, waiting, running or about to give      *)
(* their slot back hold one: none is lost to a refused, cancelled, failed   *)
(* or interrupted job, and none is given back twice.                        *)
SlotsAccounted == slots + Cardinality(Live) + Cardinality(Admitting) = Capacity

(* A job that is waiting or running, and the current job of a user, are in  *)
(* the map: the worker's updates and the user's polls find them.            *)
Retained ==
  /\ \A j \in JobIds : future[j] \in {"pending", "running"} => jobs[j] # None
  /\ \A u \in Users : current[u] # None => jobs[current[u]] # None

(* A job shown as under way is under way in this process: a row left by a   *)
(* process that died never comes back as queued or running.                 *)
NoPhantom ==
  \A j \in Known : IsActive(jobs[j]) =>
    j \in Live \/ \E c \in Admitting : call[c].job.id = j

(* Where the thread of a user's current job has nothing left to write, the  *)
(* row says what the process says.                                          *)
CurrentSaved ==
  \A u \in Users :
    LET j == current[u]
    IN  j \in Live /\ userLock[u] = None /\ write[j] = None
        => durable[j] = jobs[j]

(* A start that may join the user's latest job while that one is under way  *)
(* for the same State never makes another.                                  *)
Prior(u) == {j \in Known : jobs[j].user = u}
SingleFlight ==
  [][\A c \in Starters :
       call'[c].pc = "persisting" /\ At(c, "deciding") /\ call[c].coalesce
       => LET u == call[c].user
          IN  Prior(u) # {} => ~(/\ IsActive(jobs[Max(Prior(u))])
                                /\ jobs[Max(Prior(u))].state = call[c].state)]_vars

(* The latest row of a user, when nobody is registering or writing one, is  *)
(* that of the current job: a superseded job does not become the durable    *)
(* current one.                                                             *)
Settled(u) ==
  /\ userLock[u] = None
  /\ \A j \in JobIds : write[j] = None
  /\ \A c \in Callers : ~At(c, "marking") /\ ~At(c, "installing")
DurableLatest ==
  \A u \in Users :
    Settled(u) /\ current[u] # None => Latest(u) = current[u]

(* An admitted job ends: its Future finishes and the slot comes back.       *)
JobsFinish == \A j \in JobIds : j \in Live ~> j \notin Live
=============================================================================
