------------------------ MODULE ReconciliationProofs ------------------------
(* Proofs about Reconciliation, for any States, leagues, teams, forecasts,  *)
(* requests, jobs and generations.  Every step of the jobs and of the       *)
(* requests is a step of the store or leaves it alone, so the jobs inherit  *)
(* what RuntimeStoreProofs proves of the store; that a working generation   *)
(* is always the running job's is proved on top of it.                      *)
EXTENDS Reconciliation, TLAPS

Proved == INSTANCE RuntimeStoreProofs

USE ReconciliationAssumption, StoreAssumed DEF Store!StoreAssumption

-----------------------------------------------------------------------------
(* The operations of the store that the jobs and the requests call are      *)
(* those the store's theorems are about.                                    *)
LEMMA SameStore == Proved!StoreAssumption
BY DEF Proved!StoreAssumption

LEMMA SameInit == Store!Init <=> Proved!Init
BY DEF Store!Init, Proved!Init, Store!NoContext, Proved!NoContext, Store!NoGuard, Proved!NoGuard,
       Store!NoSnapshot, Proved!NoSnapshot

LEMMA SameDrop == Store!DropWorking <=> Proved!DropWorking
BY DEF Store!DropWorking, Proved!DropWorking, Store!NoContext, Proved!NoContext, Store!NoGuard,
       Proved!NoGuard, Store!NoSnapshot, Proved!NoSnapshot

LEMMA SameActivate == \A s : Store!SetLeagueState(s) => Proved!SetLeagueState(s)
BY SameDrop, Zenon
   DEF Store!SetLeagueState, Proved!SetLeagueState, Store!Activated, Proved!Activated,
       Store!Bumped, Proved!Bumped, Store!TeamIn, Proved!TeamIn, Store!SameLeague,
       Proved!SameLeague, Store!ForecastReusable, Proved!ForecastReusable, Store!ServedAfter,
       Proved!ServedAfter, Store!Terminal, Proved!Terminal, Store!NoSnapshot, Proved!NoSnapshot

LEMMA SameSelect == \A t : Store!SelectTeam(t) => Proved!SelectTeam(t)
BY SameDrop, Zenon DEF Store!SelectTeam, Proved!SelectTeam, Store!Unstage, Proved!Unstage

LEMMA SameBegin == \A s : Store!BeginWorking(s) => Proved!BeginWorking(s)
BY Zenon
   DEF Store!BeginWorking, Proved!BeginWorking, Store!Seed, Proved!Seed, Store!TeamIn,
       Proved!TeamIn, Store!SameLeague, Proved!SameLeague, Store!ForecastReusable,
       Proved!ForecastReusable

LEMMA SameAbort == \A g : Store!AbortIfGeneration(g) => Proved!Abort
BY SameDrop DEF Store!AbortIfGeneration, Store!Abort, Proved!Abort

LEMMA SamePublish == \A p : Store!PublishWorking(p) => Proved!PublishWorking(p)
BY SameDrop, Zenon
   DEF Store!PublishWorking, Proved!PublishWorking, Store!MayPublish, Proved!MayPublish,
       Store!WorkingActive, Proved!WorkingActive, Store!Terminal, Proved!Terminal,
       Store!Bumped, Proved!Bumped, Store!NoSnapshot, Proved!NoSnapshot

LEMMA SameForecast ==
  \A f, s, required : Store!SetForecast(f, s, required) => Proved!SetForecast(f, s, required)
BY Zenon
   DEF Store!SetForecast, Proved!SetForecast, Store!Permitted, Proved!Permitted,
       Store!WorkingActive, Proved!WorkingActive, Store!Target, Proved!Target,
       Store!StoreContext, Proved!StoreContext, Store!TeamIn, Proved!TeamIn

LEMMA SameSimulation ==
  \A s, required : Store!SetSimulation(s, required) => Proved!SetSimulation(s, required)
BY Zenon
   DEF Store!SetSimulation, Proved!SetSimulation, Store!Permitted, Proved!Permitted,
       Store!WorkingActive, Proved!WorkingActive, Store!Target, Proved!Target,
       Store!StoreContext, Proved!StoreContext, Store!TeamIn, Proved!TeamIn,
       Store!Fits, Proved!Fits

LEMMA SameValue ==
  \A s, required : Store!SetValue(s, required) => Proved!SetValue(s, required)
BY Zenon
   DEF Store!SetValue, Proved!SetValue, Store!Permitted, Proved!Permitted,
       Store!WorkingActive, Proved!WorkingActive, Store!Target, Proved!Target,
       Store!StoreContext, Proved!StoreContext, Store!TeamIn, Proved!TeamIn,
       Store!Fits, Proved!Fits

LEMMA SameBundle ==
  ASSUME NEW f, NEW s, NEW b, NEW d, NEW required, Store!SetBundle(f, s, b, d, required)
  PROVE  Proved!SetBundle(f, s, b, d, required)
<1>1. Store!Target = Proved!Target
  BY DEF Store!WorkingActive, Proved!WorkingActive, Store!Target, Proved!Target
<1>2. \A c : Store!StoreContext(c) <=> Proved!StoreContext(c)
  BY DEF Store!WorkingActive, Proved!WorkingActive, Store!StoreContext, Proved!StoreContext
<1>3. \A c : Store!TeamIn(c, s) = Proved!TeamIn(c, s)
  BY DEF Store!TeamIn, Proved!TeamIn
<1>4. Store!Permitted(required) <=> Proved!Permitted(required)
  BY DEF Store!Permitted, Proved!Permitted, Store!WorkingActive, Proved!WorkingActive
<1> QED
  BY <1>1, <1>2, <1>3, <1>4, Zenon DEF Store!SetBundle, Proved!SetBundle

LEMMA SameTypes == Proved!TypeOK => Store!TypeOK
BY Zenon
   DEF Store!TypeOK, Proved!TypeOK, Store!Contexts, Proved!Contexts, Store!Guards, Proved!Guards,
       Store!Maybe, Proved!Maybe, Store!Snapshots, Proved!Snapshots, Store!NoContext,
       Proved!NoContext, Store!NoSnapshot, Proved!NoSnapshot, Store!WorkingActive,
       Proved!WorkingActive

-----------------------------------------------------------------------------
(* What the jobs and the requests hold, and that one job runs at a time.    *)
MaybeState == States \cup {None}

Pcs == {"none", "start", "restore", "attach", "publish"} \cup Layers
Jobs ==
  [status : {"none", "queued", "running", "ended"}, pc : Pcs, sync : BOOLEAN,
   identity : Identities, row : MaybeState, target : MaybeState]
Requests ==
  [pc : {"idle", "context", "generation", "check", "admit", "answered"}, sync : BOOLEAN,
   selects : BOOLEAN, identity : Identities]

(* A request that has captured the user's league, and a job admitted by it, *)
(* have a state; a job that has staged one has a target.                    *)
RequestSound(x) == x.pc \in {"generation", "check", "admit"} => x.identity.state \in States

JobSound(x) ==
  /\ x.status = "queued" => x.pc = "start"
  /\ x.status \in {"queued", "running"} => x.identity.state \in States
  /\ x.status = "running" /\ x.pc # "start" => x.target \in States

Running(j) == job[j].status = "running"

JobsSound ==
  /\ job \in [JobIds -> Jobs] /\ \A j \in JobIds : JobSound(job[j])
  /\ \A i, j \in JobIds : Running(i) /\ Running(j) => i = j
  /\ current \in JobIds \cup {0} /\ (current # 0 => job[current].status # "none")

RequestsSound ==
  request \in [Requesters -> Requests] /\ \A r \in Requesters : RequestSound(request[r])

Bounded == generation \in 0..MaxGenerations

IInv == Proved!IInv /\ Bounded /\ RequestsSound /\ JobsSound /\ WorkingOwned

(* What the store's invariant says of the contexts a request looks at.      *)
LEMMA StoreFacts ==
  ASSUME Proved!IInv
  PROVE  /\ published.state \in MaybeState /\ published.team \in Teams \cup {None}
         /\ working.state \in MaybeState
         /\ published.state # None => LeagueOf[published.state] \in Leagues
         /\ Store!WorkingActive <=> guard.state # None
         /\ Store!WorkingActive <=> working.state # None
<1>1. published \in Proved!Contexts /\ working \in Proved!Contexts
  BY DEF Proved!IInv, Proved!Good
<1> QED
  BY <1>1 DEF Proved!IInv, Proved!Contexts, Proved!Maybe, Proved!WorkingActive,
              Store!WorkingActive, MaybeState

(* The identity that a request has not captured.                            *)
LEMMA NoIdentityTyped == NoIdentity \in Identities
BY DEF NoIdentity, Identities, Store!StoreAssumption

(* What happens to a job is one of five things.                             *)
Started(x) == [x EXCEPT !.status = "running"]
Moved(x, pc) == [x EXCEPT !.pc = pc]
Staged(x, s) == [x EXCEPT !.pc = "restore", !.target = s]
Over(x) == [NoJob EXCEPT !.status = "ended", !.identity = x.identity]
Rowed(x, s) == [x EXCEPT !.row = s]

LEMMA JobUpdates ==
  ASSUME NEW x \in Jobs, NEW pc \in Pcs, NEW s \in MaybeState
  PROVE  /\ Started(x) \in Jobs /\ Moved(x, pc) \in Jobs /\ Staged(x, s) \in Jobs
         /\ Over(x) \in Jobs /\ Rowed(x, s) \in Jobs
         /\ Started(x).status = "running" /\ Started(x).pc = x.pc
         /\ Started(x).identity = x.identity /\ Started(x).target = x.target
         /\ Moved(x, pc).status = x.status /\ Moved(x, pc).pc = pc
         /\ Moved(x, pc).identity = x.identity /\ Moved(x, pc).target = x.target
         /\ Staged(x, s).status = x.status /\ Staged(x, s).pc = "restore"
         /\ Staged(x, s).identity = x.identity /\ Staged(x, s).target = s
         /\ Over(x).status = "ended"
         /\ Rowed(x, s).status = x.status /\ Rowed(x, s).pc = x.pc
         /\ Rowed(x, s).identity = x.identity /\ Rowed(x, s).target = x.target
<1>1. NoJob \in Jobs
  BY NoIdentityTyped DEF NoJob, Jobs, Pcs, MaybeState
<1>2. /\ Started(x) \in Jobs /\ Started(x).status = "running" /\ Started(x).pc = x.pc
      /\ Started(x).identity = x.identity /\ Started(x).target = x.target
  BY DEF Jobs, Started
<1>3. /\ Moved(x, pc) \in Jobs /\ Moved(x, pc).status = x.status /\ Moved(x, pc).pc = pc
      /\ Moved(x, pc).identity = x.identity /\ Moved(x, pc).target = x.target
  BY DEF Jobs, Moved
<1>4. /\ Staged(x, s) \in Jobs /\ Staged(x, s).status = x.status
      /\ Staged(x, s).pc = "restore"
      /\ Staged(x, s).identity = x.identity /\ Staged(x, s).target = s
  <2>1. "restore" \in Pcs
    BY DEF Pcs
  <2> QED
    BY <2>1 DEF Jobs, Staged
<1>5. Over(x) \in Jobs /\ Over(x).status = "ended"
  BY <1>1 DEF Jobs, Over
<1>6. /\ Rowed(x, s) \in Jobs /\ Rowed(x, s).status = x.status /\ Rowed(x, s).pc = x.pc
      /\ Rowed(x, s).identity = x.identity /\ Rowed(x, s).target = x.target
  BY DEF Jobs, Rowed
<1> QED
  BY <1>2, <1>3, <1>4, <1>5, <1>6

(* A step of job j changes no other job, except for the row it holds.       *)
Same(i) ==
  /\ job'[i].status = job[i].status /\ job'[i].pc = job[i].pc
  /\ job'[i].identity = job[i].identity /\ job'[i].target = job[i].target

Others(j) ==
  job' \in [JobIds -> Jobs] /\ \A i \in JobIds \ {j} : Same(i)

LEMMA JobsKept ==
  ASSUME JobsSound, NEW j \in JobIds, Others(j), current' = current,
         JobSound(job'[j]), job'[j].status # "none",
         job'[j].status = "running" => \A i \in JobIds : Running(i) => i = j
  PROVE  JobsSound'
<1>1. \A i \in JobIds : JobSound(job'[i])
  BY DEF JobsSound, Others, Same, JobSound
<1>2. \A i, k \in JobIds : Running(i)' /\ Running(k)' => i = k
  BY DEF JobsSound, Others, Same, Running
<1>3. current # 0 => job'[current].status # "none"
  BY DEF JobsSound, Others, Same
<1> QED
  BY <1>1, <1>2, <1>3 DEF JobsSound, Others

(* One job is changed by the updates above.                                 *)
LEMMA Changed ==
  ASSUME JobsSound, NEW j \in JobIds, NEW x \in Jobs, job' = [job EXCEPT ![j] = x]
  PROVE  Others(j) /\ job'[j] = x
BY DEF JobsSound, Others, Same

LEMMA Goes ==
  ASSUME JobsSound, NEW j \in JobIds, NEW pc \in Pcs, Goto(j, pc)
  PROVE  job' = [job EXCEPT ![j] = Moved(job[j], pc)]
BY DEF Goto, Moved, JobsSound

(* The steps of a job, by what they do to it.                               *)
LEMMA BeginEffect ==
  ASSUME JobsSound, NEW j \in JobIds, Begin(j)
  PROVE  JobsSound' /\ Others(j) /\ UNCHANGED store /\ \A i \in JobIds : ~Running(i)
<1>1. job' = [job EXCEPT ![j] = Started(job[j])]
  BY DEF Begin, Started
<1>2. job[j] \in Jobs /\ JobSound(job[j]) /\ job[j].status = "queued"
  BY DEF JobsSound, Begin
<1>3. Started(job[j]) \in Jobs /\ Started(job[j]).status = "running"
      /\ Started(job[j]).pc = job[j].pc /\ Started(job[j]).identity = job[j].identity
  BY <1>2, JobUpdates DEF Pcs, MaybeState
<1>4. Others(j) /\ job'[j] = Started(job[j])
  BY <1>1, <1>3, Changed
<1>5. JobSound(job'[j])
  BY <1>2, <1>3, <1>4 DEF JobSound
<1>6. \A i \in JobIds : ~Running(i)
  BY DEF Begin, Running
<1>7. JobsSound'
  BY <1>3, <1>4, <1>5, <1>6, JobsKept DEF Begin
<1> QED
  BY <1>4, <1>6, <1>7 DEF Begin, store

LEMMA EndEffect ==
  ASSUME JobsSound, NEW j \in JobIds, Ended(j), current' = current
  PROVE  JobsSound' /\ Others(j) /\ ~Running(j)'
<1>1. job' = [job EXCEPT ![j] = Over(job[j])]
  BY DEF Ended, Over
<1>2. job[j] \in Jobs /\ Over(job[j]) \in Jobs /\ Over(job[j]).status = "ended"
  BY JobUpdates DEF JobsSound, Pcs, MaybeState
<1>3. Others(j) /\ job'[j] = Over(job[j])
  BY <1>1, <1>2, Changed
<1>4. JobSound(job'[j])
  BY <1>2, <1>3 DEF JobSound
<1>5. JobsSound'
  BY <1>2, <1>3, <1>4, JobsKept
<1> QED
  BY <1>2, <1>3, <1>5 DEF Running

LEMMA GotoEffect ==
  ASSUME JobsSound, NEW j \in JobIds, NEW pc \in Pcs \ {"start"}, Goto(j, pc), Running(j),
         job[j].pc # "start", current' = current
  PROVE  /\ JobsSound' /\ Others(j)
         /\ Running(j)' /\ job'[j].pc # "start"
         /\ job'[j].identity = job[j].identity /\ job'[j].target = job[j].target
<1>1. job' = [job EXCEPT ![j] = Moved(job[j], pc)]
  BY Goes
<1>2. job[j] \in Jobs /\ JobSound(job[j]) /\ job[j].status = "running"
  BY DEF JobsSound, Running
<1>3. /\ Moved(job[j], pc) \in Jobs /\ Moved(job[j], pc).status = "running"
      /\ Moved(job[j], pc).pc = pc /\ Moved(job[j], pc).identity = job[j].identity
      /\ Moved(job[j], pc).target = job[j].target
  BY <1>2, JobUpdates DEF MaybeState
<1>4. Others(j) /\ job'[j] = Moved(job[j], pc)
  BY <1>1, <1>3, Changed
<1>5. JobSound(job'[j])
  BY <1>2, <1>3, <1>4 DEF JobSound
<1>6. JobsSound'
  BY <1>2, <1>3, <1>4, <1>5, JobsKept DEF JobsSound, Running
<1> QED
  BY <1>3, <1>4, <1>6 DEF Running

(* Staging state s for job j.                                               *)
StagedFor(j, s) ==
  /\ Others(j)
  /\ job'[j].status = "running" /\ job'[j].pc = "restore"
  /\ job'[j].identity = job[j].identity /\ job'[j].target = s

LEMMA SeedEffect ==
  ASSUME JobsSound, NEW j \in JobIds, Seed(j)
  PROVE  StagedFor(j, job[j].identity.state) /\ job[j].identity.state \in States
<1> DEFINE s == job[j].identity.state
<1>1. job[j] \in Jobs /\ JobSound(job[j]) /\ job[j].status = "running"
  BY DEF JobsSound, Seed, At
<1>2. s \in States
  BY <1>1 DEF JobSound
<1>3. job' = [job EXCEPT ![j] = Staged(job[j], s)]
  BY DEF Seed, Staged
<1> HIDE DEF s
<1>4. /\ Staged(job[j], s) \in Jobs /\ Staged(job[j], s).status = "running"
      /\ Staged(job[j], s).pc = "restore" /\ Staged(job[j], s).target = s
      /\ Staged(job[j], s).identity = job[j].identity
  BY <1>1, <1>2, JobUpdates DEF MaybeState, Pcs
<1>5. StagedFor(j, s)
  BY <1>3, <1>4, Changed DEF StagedFor
<1> QED
  BY <1>2, <1>5 DEF s

LEMMA SyncEffect ==
  ASSUME JobsSound, NEW j \in JobIds, NEW s \in States, Sync(j, s)
  PROVE  StagedFor(j, s)
<1>1. job[j] \in Jobs /\ JobSound(job[j]) /\ job[j].status = "running"
  BY DEF JobsSound, Sync, At
<1>2. CASE s = Store!Target.state
  <2>1. job' = [job EXCEPT ![j] = Staged(job[j], s)]
    BY <1>2 DEF Sync, Resynced, Staged
  <2>2. /\ Staged(job[j], s) \in Jobs /\ Staged(job[j], s).status = "running"
        /\ Staged(job[j], s).pc = "restore" /\ Staged(job[j], s).target = s
        /\ Staged(job[j], s).identity = job[j].identity
    BY <1>1, JobUpdates DEF MaybeState, Pcs
  <2> QED
    BY <2>1, <2>2, Changed DEF StagedFor
<1>3. CASE s # Store!Target.state
  <2> DEFINE y(i) == [job[i] EXCEPT !.row = IF i = current THEN s ELSE @,
                                    !.pc = IF i = j THEN "restore" ELSE @,
                                    !.target = IF i = j THEN s ELSE @]
  <2>1. job' = [i \in JobIds |-> y(i)]
    BY <1>3 DEF Sync, Resynced
  <2>2. ASSUME NEW i \in JobIds
        PROVE  /\ y(i) \in Jobs /\ y(i).status = job[i].status
               /\ y(i).identity = job[i].identity
               /\ y(i).pc = (IF i = j THEN "restore" ELSE job[i].pc)
               /\ y(i).target = (IF i = j THEN s ELSE job[i].target)
    <3>1. job[i] \in Jobs /\ s \in MaybeState /\ "restore" \in Pcs
      BY DEF JobsSound, MaybeState, Pcs
    <3> QED
      BY <3>1 DEF Jobs
  <2> HIDE DEF y
  <2>3. \A i \in JobIds : job'[i] = y(i)
    BY <2>1
  <2>4. Others(j)
    BY <2>1, <2>2, <2>3 DEF Others, Same
  <2> QED
    BY <1>1, <2>2, <2>3, <2>4 DEF StagedFor
<1> QED
  BY <1>2, <1>3

LEMMA StagedSound ==
  ASSUME JobsSound, NEW j \in JobIds, NEW s \in States, Running(j), StagedFor(j, s),
         current' = current
  PROVE  JobsSound'
<1>1. JobSound(job[j]) /\ job[j].status = "running"
  BY DEF JobsSound, Running
<1>2. JobSound(job'[j])
  BY <1>1 DEF JobSound, StagedFor
<1> QED
  BY <1>2, JobsKept DEF StagedFor, JobsSound, Running

-----------------------------------------------------------------------------
(* The working generation is the running job's: no other one runs.          *)
LEMMA RunningOwns ==
  ASSUME JobsSound, WorkingOwned, Store!WorkingActive, NEW j \in JobIds, Running(j)
  PROVE  /\ job[j].pc # "start"
         /\ guard.generation = job[j].identity.generation
         /\ guard.team = job[j].identity.team
         /\ working.state = job[j].target
BY DEF JobsSound, WorkingOwned, Running

(* A job that ends leaves no working generation.                            *)
LEMMA Drops == Store!DropWorking => ~Store!WorkingActive'
BY DEF Store!DropWorking, Store!WorkingActive, Store!NoContext

LEMMA CleanUpEffect ==
  ASSUME IInv, NEW j \in JobIds, Running(j), CleanUp(j)
  PROVE  ~Store!WorkingActive' /\ published' = published /\ generation' = generation
<1>1. Store!WorkingActive => guard.state # None /\ guard.generation = job[j].identity.generation
  BY RunningOwns, StoreFacts DEF IInv
<1>2. CASE Store!AbortIfGeneration(job[j].identity.generation)
  BY <1>2, Drops DEF Store!AbortIfGeneration, Store!Abort
<1>3. CASE UNCHANGED store /\ ~Store!WorkingActive
  BY <1>3 DEF store, Store!WorkingActive
<1> QED
  BY <1>1, <1>2, <1>3 DEF CleanUp

(* What a layer or a restored bundle is stored in.                          *)
LEMMA StoreContextEffect ==
  ASSUME NEW c, Store!StoreContext(c), UNCHANGED guard
  PROVE  /\ Store!WorkingActive => working'.state = c.state /\ guard' = guard
         /\ ~Store!WorkingActive => ~Store!WorkingActive'
BY DEF Store!StoreContext, Store!WorkingActive

LEMMA RestoreEffect ==
  ASSUME IInv, NEW j \in JobIds, Restore(j)
  PROVE  /\ Running(j) /\ job[j].pc = "restore" /\ Goto(j, AfterRestore)
         /\ guard' = guard /\ generation' = generation
         /\ Store!WorkingActive' => Store!WorkingActive
         /\ Store!WorkingActive => working'.state \in {working.state, job[j].target}
<1>1. Running(j) /\ job[j].pc = "restore" /\ Goto(j, AfterRestore)
  BY DEF Restore, At, Running
<1>2. CASE UNCHANGED store
  BY <1>1, <1>2 DEF store, Store!WorkingActive
<1>3. ASSUME NEW f \in Forecasts, NEW b \in BOOLEAN, NEW d \in BOOLEAN,
             Store!SetBundle(f, job[j].target, b, d, Store!WorkingActive)
      PROVE  /\ guard' = guard /\ generation' = generation
             /\ Store!WorkingActive' => Store!WorkingActive
             /\ Store!WorkingActive => working'.state = job[j].target
  <2>1. PICK c : Store!StoreContext(c) /\ c.state = job[j].target
    BY <1>3 DEF Store!SetBundle
  <2> QED
    BY <1>3, <2>1, StoreContextEffect DEF Store!SetBundle
<1> QED
  BY <1>1, <1>2, <1>3 DEF Restore

LEMMA AttachEffect ==
  ASSUME IInv, NEW j \in JobIds, Attach(j)
  PROVE  /\ Running(j) /\ job[j].pc = "attach"
         /\ \E pc \in {"simulation", "value", "publish"} : Goto(j, pc)
         /\ guard' = guard /\ generation' = generation
         /\ Store!WorkingActive
         /\ working'.state = job[j].target
<1> DEFINE s == job[j].target
<1>1. Running(j) /\ job[j].pc = "attach"
  BY DEF Attach, At, Running
<1>2. \E pc \in {"simulation", "value", "publish"} : Goto(j, pc)
  BY DEF Attach
<1>3. ASSUME NEW f \in Forecasts, Store!SetForecast(f, s, TRUE)
      PROVE  /\ guard' = guard /\ generation' = generation /\ Store!WorkingActive
             /\ working'.state = s
  <2>1. Store!WorkingActive /\ UNCHANGED <<guard, generation>>
    BY <1>3 DEF Store!SetForecast, Store!Permitted
  <2>2. PICK c : Store!StoreContext(c) /\ c.state = s
    BY <1>3 DEF Store!SetForecast
  <2> QED
    BY <2>1, <2>2, StoreContextEffect
<1>4. working \in Proved!Contexts
  BY DEF IInv, Proved!IInv, Proved!Good
<1>5. CASE Store!SetSimulation(s, TRUE)
  <2>1. Store!WorkingActive /\ UNCHANGED <<guard, generation>> /\ working.state = s
    BY <1>5 DEF Store!SetSimulation, Store!Permitted, Store!Fits, Store!Target
  <2>2. working' = [working EXCEPT !.team = Store!TeamIn(working, working.state),
                                   !.simulation = s, !.value = None, !.publication = None]
    BY <1>5, <2>1 DEF Store!SetSimulation, Store!StoreContext, Store!Target
  <2>3. working'.state = working.state
    BY <1>4, <2>2 DEF Proved!Contexts
  <2> QED
    BY <1>1, <1>2, <2>1, <2>3
<1>6. CASE Store!SetValue(s, TRUE)
  <2>1. Store!WorkingActive /\ UNCHANGED <<guard, generation>> /\ working.state = s
    BY <1>6 DEF Store!SetValue, Store!Permitted, Store!Fits, Store!Target
  <2>2. working' = [working EXCEPT !.team = Store!TeamIn(working, working.state),
                                   !.value = s, !.publication = None]
    BY <1>6, <2>1 DEF Store!SetValue, Store!StoreContext, Store!Target
  <2>3. working'.state = working.state
    BY <1>4, <2>2 DEF Proved!Contexts
  <2> QED
    BY <1>1, <1>2, <2>1, <2>3
<1> QED
  BY <1>1, <1>2, <1>3, <1>5, <1>6 DEF Attach

-----------------------------------------------------------------------------
(* The step of a request neither touches the store nor a job admitted.      *)
LEMMA AdmitEffect ==
  ASSUME IInv, NEW r \in Requesters, NEW j \in JobIds, Admit(r, j)
  PROVE  JobsSound' /\ Others(j) /\ ~Running(j) /\ UNCHANGED store
<1> DEFINE x == [NoJob EXCEPT !.status = "queued", !.pc = "start", !.sync = request[r].sync,
                   !.identity = request[r].identity, !.row = request[r].identity.state]
<1>1. request[r] \in Requests /\ request[r].identity.state \in States
  BY DEF IInv, RequestsSound, RequestSound, Admit
<1>2. NoJob \in Jobs /\ "start" \in Pcs
  BY NoIdentityTyped DEF NoJob, Jobs, Pcs, MaybeState
<1>3. /\ x \in Jobs /\ x.status = "queued" /\ x.pc = "start"
      /\ x.identity = request[r].identity
  <2> DEFINE i == request[r].identity  b == request[r].sync
  <2>1. i \in Identities /\ b \in BOOLEAN /\ i.state \in MaybeState
    BY <1>1 DEF Requests, MaybeState
  <2> HIDE DEF i, b
  <2> DEFINE y == [NoJob EXCEPT !.status = "queued", !.pc = "start"]
             z == [y EXCEPT !.sync = b, !.identity = i]
  <2>2. y \in Jobs /\ y.status = "queued" /\ y.pc = "start"
    BY <1>2 DEF Jobs
  <2>3. z \in Jobs /\ z.status = "queued" /\ z.pc = "start" /\ z.identity = i
    <3> HIDE DEF y
    <3> QED
      BY <2>1, <2>2 DEF Jobs
  <2>4. x = [z EXCEPT !.row = i.state]
    BY DEF i, b
  <2> HIDE DEF z
  <2>5. x \in Jobs /\ x.status = "queued" /\ x.pc = "start" /\ x.identity = i
    BY <2>1, <2>3, <2>4 DEF Jobs
  <2> QED
    BY <2>5 DEF i
<1>4. job' = [job EXCEPT ![j] = x] /\ current' = j /\ job[j].status = "none"
  BY DEF Admit
<1> HIDE DEF x
<1>5. Others(j) /\ job'[j] = x
  BY <1>3, <1>4, Changed DEF IInv
<1>6. JobSound(x)
  BY <1>1, <1>3 DEF JobSound
<1>7. \A i \in JobIds : JobSound(job'[i])
  BY <1>5, <1>6 DEF IInv, JobsSound, Others, Same, JobSound
<1>8. \A i, k \in JobIds : Running(i)' /\ Running(k)' => i = k
  BY <1>3, <1>5 DEF IInv, JobsSound, Others, Same, Running
<1>9. current' # 0 => job'[current'].status # "none"
  BY <1>3, <1>4, <1>5
<1> QED
  BY <1>4, <1>5, <1>7, <1>8, <1>9 DEF JobsSound, Others, Admit, Running, store

Asks(r) ==
  \/ CaptureContext(r) \/ CaptureGeneration(r) \/ Check(r) \/ Join(r) \/ Busy(r)
  \/ Return(r) \/ \E sync \in BOOLEAN : Ask(r, sync)

(* What the next-state relation is made of.                                 *)
LEMMA Who ==
  ASSUME [Next]_vars
  PROVE  \/ \E s \in States : Activate(s)
         \/ \E r \in Requesters : \/ Asks(r)
                                  \/ \E t \in Teams : SelectTeam(r, t)
                                  \/ \E j \in JobIds : Admit(r, j)
         \/ \E j \in JobIds : Work(j)
         \/ UNCHANGED vars
BY DEF Next, Proceed, Asks

LEMMA AsksEffect ==
  ASSUME NEW r \in Requesters, Asks(r)
  PROVE  UNCHANGED <<store, job, current>>
BY DEF Asks, CaptureContext, CaptureGeneration, Check, Join, Busy, Return, Ask

(* What a job does, by the way it goes.                                     *)
Ends(j) == End(j) /\ Running(j)

LEMMA WorkCases ==
  ASSUME JobsSound, NEW j \in JobIds, Work(j)
  PROVE  \/ Begin(j) \/ Ends(j)
         \/ \E s \in States : Sync(j, s)
         \/ Seed(j) \/ Restore(j) \/ Pass(j) \/ Build(j) \/ Attach(j) \/ Publish(j)
BY DEF Work, Fail, Interrupted, AlreadyCurrent, Ends, At, Running

-----------------------------------------------------------------------------
(* Every step is a step of the store, or leaves it alone.                   *)
LEMMA StoreStep ==
  ASSUME IInv, [Next]_vars
  PROVE  [Proved!Next]_Proved!vars
<1>1. ASSUME UNCHANGED store PROVE UNCHANGED Proved!vars
  BY <1>1 DEF store, Proved!vars
<1>2. ASSUME NEW s \in States, Activate(s) PROVE Proved!Next
  BY <1>2, SameActivate DEF Activate, Proved!Next, Proved!Switch
<1>3. ASSUME NEW r \in Requesters, Asks(r) \/ \E j \in JobIds : Admit(r, j)
      PROVE  UNCHANGED store
  BY <1>3, AsksEffect DEF Admit
<1>4. ASSUME NEW r \in Requesters, NEW t \in Teams, SelectTeam(r, t) PROVE Proved!Next
  BY <1>4, SameSelect DEF SelectTeam, Proved!Next, Proved!Switch
<1>5. ASSUME NEW j \in JobIds, Work(j) PROVE Proved!Next \/ UNCHANGED store
  <2>1. CASE Begin(j) \/ Pass(j) \/ Build(j)
    BY <2>1 DEF Begin, Pass, Build
  <2>2. CASE Ends(j)
    BY <2>2, SameAbort DEF Ends, End, CleanUp, Proved!Next, Proved!Reconcile
  <2>3. ASSUME NEW s \in States, Sync(j, s) PROVE Proved!Next
    BY <2>3, SameBegin DEF Sync, Proved!Next, Proved!Reconcile
  <2>4. CASE Seed(j)
    <3>1. job[j].identity.state \in States
      BY <2>4, SeedEffect DEF IInv
    <3> QED
      BY <2>4, <3>1, SameBegin DEF Seed, Proved!Next, Proved!Reconcile
  <2>5. JobSound(job[j])
    BY DEF IInv, JobsSound
  <2>6. CASE Restore(j)
    <3>1. job[j].target \in States
      BY <2>5, <2>6 DEF JobSound, Restore, At
    <3>2. ASSUME NEW f \in Forecasts, NEW b \in BOOLEAN, NEW d \in BOOLEAN,
                 Store!SetBundle(f, job[j].target, b, d, Store!WorkingActive)
          PROVE  Proved!Next
      <4>1. \E required \in BOOLEAN : Store!SetBundle(f, job[j].target, b, d, required)
        BY <3>2 DEF Store!WorkingActive
      <4>2. PICK required \in BOOLEAN : Proved!SetBundle(f, job[j].target, b, d, required)
        BY <4>1, SameBundle
      <4> QED
        BY <3>1, <4>2 DEF Proved!Next, Proved!Reconcile, Proved!Attach
    <3> QED
      BY <2>6, <3>2 DEF Restore
  <2>7. CASE Attach(j)
    <3>1. job[j].target \in States
      BY <2>5, <2>7 DEF JobSound, Attach, At
    <3>2. Proved!Attach(TRUE)
      BY <2>7, <3>1, SameForecast, SameSimulation, SameValue DEF Attach, Proved!Attach
    <3> QED
      BY <3>2 DEF Proved!Next, Proved!Reconcile
  <2>8. CASE Publish(j)
    BY <2>8, SamePublish DEF Publish, Proved!Next, Proved!Reconcile, Proved!Publish
  <2> QED
    BY <1>5, <2>1, <2>2, <2>3, <2>4, <2>6, <2>7, <2>8, WorkCases DEF IInv
<1>6. UNCHANGED vars => UNCHANGED store
  BY DEF vars, store
<1> QED
  BY <1>1, <1>2, <1>3, <1>4, <1>5, <1>6, Who

LEMMA BoundedStep ==
  ASSUME IInv, [Next]_vars
  PROVE  Bounded'
<1>1. ASSUME \/ generation' = generation
             \/ generation' = generation + 1 /\ generation < MaxGenerations
      PROVE  Bounded'
  BY <1>1 DEF IInv, Bounded, Store!StoreAssumption
<1>2. ASSUME UNCHANGED store PROVE Bounded'
  BY <1>1, <1>2 DEF store
<1>3. ASSUME NEW s \in States, Activate(s) PROVE Bounded'
  BY <1>1, <1>3 DEF Activate, Store!SetLeagueState, Store!Bumped
<1>4. ASSUME NEW r \in Requesters, Asks(r) \/ \E j \in JobIds : Admit(r, j) PROVE Bounded'
  BY <1>2, <1>4, AsksEffect DEF Admit
<1>5. ASSUME NEW r \in Requesters, NEW t \in Teams, SelectTeam(r, t) PROVE Bounded'
  BY <1>1, <1>5 DEF SelectTeam, Store!SelectTeam
<1>6. ASSUME NEW j \in JobIds, Work(j) PROVE Bounded'
  <2>1. CASE Begin(j) \/ Pass(j) \/ Build(j)
    BY <1>2, <2>1 DEF Begin, Pass, Build
  <2>2. CASE Ends(j)
    BY <1>1, <2>2, CleanUpEffect DEF Ends, End
  <2>3. CASE Seed(j) \/ \E s \in States : Sync(j, s)
    BY <1>1, <2>3 DEF Seed, Sync, Store!BeginWorking
  <2>4. CASE Restore(j) \/ Attach(j)
    BY <1>1, <2>4, RestoreEffect, AttachEffect
  <2>5. CASE Publish(j)
    BY <1>1, <2>5 DEF Publish, Store!PublishWorking, Store!Bumped
  <2> QED
    BY <1>6, <2>1, <2>2, <2>3, <2>4, <2>5, WorkCases DEF IInv
<1>7. UNCHANGED vars => UNCHANGED store
  BY DEF vars, store
<1> QED
  BY <1>2, <1>3, <1>4, <1>5, <1>6, <1>7, Who

(* The jobs stay sound: what a job moves to, and what an admission adds.    *)
LEMMA JobsStep ==
  ASSUME IInv, [Next]_vars
  PROVE  JobsSound'
<1>0. JobsSound
  BY DEF IInv
<1>1. ASSUME UNCHANGED <<job, current>> PROVE JobsSound'
  BY <1>0, <1>1 DEF JobsSound, Running
<1>2. ASSUME NEW j \in JobIds, Work(j) PROVE JobsSound'
  <2>1. current' = current
    BY <1>2 DEF Work, Begin, Fail, Interrupted, AlreadyCurrent, End, Sync, Seed, Restore, Pass,
                Build, Attach, Publish
  <2>2. CASE Begin(j)
    BY <1>0, <2>2, BeginEffect
  <2>3. CASE Ends(j) \/ Publish(j)
    BY <1>0, <2>1, <2>3, EndEffect DEF Ends, End, Publish
  <2>4. ASSUME NEW s \in States, Sync(j, s) PROVE JobsSound'
    BY <1>0, <2>1, <2>4, SyncEffect, StagedSound DEF Sync, At, Running
  <2>5. CASE Seed(j)
    BY <1>0, <2>1, <2>5, SeedEffect, StagedSound DEF Seed, At, Running
  <2>6. ASSUME NEW pc \in Pcs \ {"start"}, Goto(j, pc), Running(j), job[j].pc # "start"
        PROVE  JobsSound'
    BY <1>0, <2>1, <2>6, GotoEffect
  <2>7. CASE Restore(j)
    BY <2>6, <2>7, RestoreEffect DEF AfterRestore, Pcs, Layers
  <2>8. CASE Attach(j)
    BY <2>6, <2>8, AttachEffect DEF Pcs, Layers
  <2>9. CASE Pass(j)
    BY <2>6, <2>9 DEF Pass, Following, Pcs, Layers, Running
  <2>10. CASE Build(j)
    BY <2>6, <2>10 DEF Build, Pcs, Layers, Running
  <2> QED
    BY <1>0, <1>2, <2>2, <2>3, <2>4, <2>5, <2>7, <2>8, <2>9, <2>10, WorkCases
<1>3. UNCHANGED vars => UNCHANGED <<job, current>>
  BY DEF vars
<1>4. ASSUME NEW s \in States, Activate(s) PROVE UNCHANGED <<job, current>>
  BY <1>4 DEF Activate
<1>5. ASSUME NEW r \in Requesters, NEW t \in Teams, SelectTeam(r, t)
      PROVE  UNCHANGED <<job, current>>
  BY <1>5 DEF SelectTeam
<1> QED
  BY <1>1, <1>2, <1>3, <1>4, <1>5, AsksEffect, AdmitEffect, Who

(* A working generation that a step leaves alone keeps its job.             *)
Owner(j) ==
  /\ Running(j) /\ job[j].pc # "start"
  /\ guard.generation = job[j].identity.generation
  /\ guard.team = job[j].identity.team
  /\ working.state = job[j].target

LEMMA OwnedByJob == WorkingOwned <=> (Store!WorkingActive => \E j \in JobIds : Owner(j))
BY DEF WorkingOwned, Owner, Running

LEMMA OwnerKept ==
  ASSUME IInv, NEW j \in JobIds, Others(j), guard' = guard,
         Store!WorkingActive' => Store!WorkingActive,
         Store!WorkingActive => \/ working'.state = working.state
                                \/ Running(j) /\ working'.state = job[j].target,
         Running(j) => /\ Running(j)' /\ job'[j].pc # "start"
                       /\ job'[j].identity = job[j].identity
                       /\ job'[j].target = job[j].target
  PROVE  WorkingOwned'
<1> SUFFICES ASSUME Store!WorkingActive' PROVE \E k \in JobIds : Owner(k)'
  BY OwnedByJob DEF WorkingOwned, Owner, Running
<1>1. PICK k \in JobIds : Owner(k)
  BY OwnedByJob DEF IInv
<1>2. working'.state = working.state
  BY <1>1, RunningOwns DEF IInv, Owner
<1>3. CASE k = j
  BY <1>1, <1>2, <1>3 DEF Owner
<1>4. CASE k # j
  BY <1>1, <1>2, <1>4 DEF Owner, Others, Same, Running
<1> QED
  BY <1>3, <1>4

LEMMA OwnedStep ==
  ASSUME IInv, [Next]_vars
  PROVE  WorkingOwned'
<1>1. ASSUME ~Store!WorkingActive' PROVE WorkingOwned'
  BY <1>1 DEF WorkingOwned
<1>2. ASSUME UNCHANGED store, UNCHANGED job PROVE WorkingOwned'
  BY <1>2 DEF IInv, WorkingOwned, store, Store!WorkingActive
<1>3. ASSUME NEW s \in States, Activate(s) PROVE WorkingOwned'
  BY <1>1, <1>3, Drops DEF Activate, Store!SetLeagueState
<1>4. ASSUME NEW r \in Requesters, NEW t \in Teams, SelectTeam(r, t) PROVE WorkingOwned'
  BY <1>1, <1>4, Drops DEF SelectTeam, Store!SelectTeam, Store!Unstage
<1>5. ASSUME NEW r \in Requesters, NEW j \in JobIds, Admit(r, j) PROVE WorkingOwned'
  <2>1. Others(j) /\ ~Running(j) /\ UNCHANGED store
    BY <1>5, AdmitEffect
  <2> QED
    BY <2>1, OwnerKept DEF store, Store!WorkingActive
<1>6. ASSUME NEW j \in JobIds, Work(j) PROVE WorkingOwned'
  <2>1. CASE Begin(j)
    BY <1>1, <2>1, BeginEffect, OwnedByJob DEF IInv, Owner, store, Store!WorkingActive
  <2>2. CASE Ends(j)
    BY <1>1, <2>2, CleanUpEffect DEF Ends, End
  <2>3. CASE Publish(j)
    BY <1>1, <2>3, Drops DEF Publish, Store!PublishWorking
  <2>4. ASSUME NEW s \in States, StagedFor(j, s), Owns(j), Store!BeginWorking(s)
        PROVE  WorkingOwned'
    <3>1. /\ guard'.generation = generation /\ guard'.team = published.team
          /\ working'.state = s
      BY <2>4 DEF Store!BeginWorking, Store!Seed
    <3>2. Owner(j)'
      BY <2>4, <3>1 DEF Owner, StagedFor, Owns, Running
    <3> QED
      BY <3>2, OwnedByJob DEF WorkingOwned, Owner, Running
  <2>5. CASE Seed(j)
    BY <2>4, <2>5, SeedEffect DEF IInv, Seed
  <2>6. ASSUME NEW s \in States, Sync(j, s) PROVE WorkingOwned'
    BY <2>4, <2>6, SyncEffect DEF IInv, Sync
  <2>7. ASSUME NEW pc \in Pcs \ {"start"}, Goto(j, pc), Running(j), job[j].pc # "start",
               guard' = guard, Store!WorkingActive' => Store!WorkingActive,
               Store!WorkingActive => working'.state \in {working.state, job[j].target},
               current' = current
        PROVE  WorkingOwned'
    BY <2>7, GotoEffect, OwnerKept DEF IInv
  <2>8. CASE Restore(j)
    <3>1. current' = current /\ AfterRestore \in Pcs \ {"start"}
      BY <2>8 DEF Restore, AfterRestore, Pcs, Layers
    <3> QED
      BY <2>7, <2>8, <3>1, RestoreEffect
  <2>9. CASE Attach(j)
    <3>1. current' = current /\ {"simulation", "value", "publish"} \subseteq Pcs \ {"start"}
      BY <2>9 DEF Attach, Pcs, Layers
    <3> QED
      BY <2>7, <2>9, <3>1, AttachEffect
  <2>10. CASE Pass(j) \/ Build(j)
    <3>1. UNCHANGED <<store, current>> /\ Running(j) /\ job[j].pc # "start"
      BY <2>10 DEF Pass, Build, Layers, Running
    <3>2. \E pc \in Pcs \ {"start"} : Goto(j, pc)
      BY <2>10 DEF Pass, Build, Following, Pcs, Layers
    <3> QED
      BY <2>7, <3>1, <3>2 DEF store, Store!WorkingActive
  <2> QED
    BY <1>6, <2>1, <2>2, <2>3, <2>5, <2>6, <2>8, <2>9, <2>10, WorkCases DEF IInv
<1>7. ASSUME NEW r \in Requesters, Asks(r) PROVE WorkingOwned'
  BY <1>2, <1>7, AsksEffect
<1>8. UNCHANGED vars => UNCHANGED <<store, job>>
  BY DEF vars, store
<1> QED
  BY <1>2, <1>3, <1>4, <1>5, <1>6, <1>7, <1>8, Who

(* The requests stay sound: an identity is captured from the store.         *)
LEMMA RequestKept ==
  ASSUME RequestsSound, NEW r \in Requesters, NEW x \in Requests, RequestSound(x),
         request' = [request EXCEPT ![r] = x]
  PROVE  RequestsSound'
BY DEF RequestsSound

LEMMA AnsweredKept ==
  ASSUME RequestsSound, NEW r \in Requesters, Answered(r)
  PROVE  RequestsSound'
<1> DEFINE x == IF request[r].selects THEN [request[r] EXCEPT !.pc = "answered"] ELSE NoRequest
<1>1. request' = [request EXCEPT ![r] = x]
  BY DEF Answered
<1>2. request[r] \in Requests
  BY DEF RequestsSound
<1>3. x \in Requests /\ x.pc \in {"answered", "idle"}
  BY <1>2, NoIdentityTyped DEF Requests, NoRequest
<1>4. RequestSound(x)
  BY <1>3 DEF RequestSound
<1> HIDE DEF x
<1> QED
  BY <1>1, <1>3, <1>4, RequestKept

LEMMA AsksKept ==
  ASSUME IInv, NEW r \in Requesters, Asks(r)
  PROVE  RequestsSound'
<1>1. request[r] \in Requests /\ RequestSound(request[r]) /\ RequestsSound
  BY DEF IInv, RequestsSound
<1>2. Answered(r) => RequestsSound'
  BY <1>1, AnsweredKept
<1>3. ASSUME NEW x \in Requests, x.pc \in {"idle", "context", "answered"} \/ x.identity.state \in States,
             request' = [request EXCEPT ![r] = x]
      PROVE  RequestsSound'
  BY <1>1, <1>3, RequestKept DEF RequestSound
<1>4. CASE request' = [request EXCEPT ![r] = NoRequest]
  BY <1>3, <1>4, NoIdentityTyped DEF NoRequest, Requests
<1>5. ASSUME NEW sync \in BOOLEAN, Ask(r, sync) PROVE RequestsSound'
  <2> DEFINE x == [NoRequest EXCEPT !.pc = "context", !.sync = sync]
  <2>1. x \in Requests /\ x.pc = "context"
    BY NoIdentityTyped DEF Requests, NoRequest
  <2> QED
    BY <1>3, <1>5, <2>1 DEF Ask
<1>6. CASE CaptureContext(r) /\ Loaded
  <2> DEFINE i == [generation |-> 0, league |-> LeagueOf[published.state],
                   team |-> published.team, state |-> published.state]
             x == [request[r] EXCEPT !.pc = "generation", !.identity = i]
  <2>1. i \in Identities /\ i.state \in States
    BY <1>6, StoreFacts DEF IInv, Loaded, Identities, MaybeState, Bounded
  <2>2. request' = [request EXCEPT ![r] = x]
    BY <1>6 DEF CaptureContext
  <2> HIDE DEF i
  <2>3. x \in Requests /\ x.identity = i
    BY <1>1, <2>1 DEF Requests
  <2> QED
    BY <1>3, <2>1, <2>2, <2>3
<1>7. CASE CaptureGeneration(r)
  <2> DEFINE x == [request[r] EXCEPT !.pc = "check", !.identity.generation = generation]
  <2>1. request[r].identity.state \in States /\ generation \in 0..MaxGenerations
    BY <1>1, <1>7 DEF CaptureGeneration, RequestSound, IInv, Bounded
  <2>2. x \in Requests /\ x.identity.state \in States
    BY <1>1, <2>1 DEF Requests, Identities
  <2>3. request' = [request EXCEPT ![r] = x]
    <3> DEFINE y == [request[r] EXCEPT !.pc = "check"]
               z == [request EXCEPT ![r] = y]
    <3>1. request \in [Requesters -> Requests]
      BY DEF IInv, RequestsSound
    <3>2. request' = [z EXCEPT ![r].identity.generation = generation]
      BY <1>7 DEF CaptureGeneration
    <3>3. x = [y EXCEPT !.identity.generation = generation]
      OBVIOUS
    <3> HIDE DEF x, y
    <3>4. z[r] = y
      BY <3>1
    <3>5. request' = [z EXCEPT ![r] = x]
      BY <3>2, <3>3, <3>4
    <3> QED
      BY <3>1, <3>5
  <2> HIDE DEF x
  <2> QED
    BY <1>3, <2>2, <2>3
<1>8. CASE Check(r) /\ ~SameOwner(r)
  <2> DEFINE x == [request[r] EXCEPT !.pc = "admit"]
  <2>1. x \in Requests /\ x.identity = request[r].identity
    BY <1>1 DEF Requests
  <2>2. request[r].identity.state \in States
    BY <1>1, <1>8 DEF Check, RequestSound
  <2> QED
    BY <1>3, <1>8, <2>1, <2>2 DEF Check
<1>9. (CaptureContext(r) /\ ~Loaded) \/ (Check(r) /\ SameOwner(r)) \/ Join(r) => Answered(r)
  BY DEF CaptureContext, Check, Join
<1>10. Busy(r) \/ Return(r) => request' = [request EXCEPT ![r] = NoRequest]
  BY DEF Busy, Return
<1> QED
  BY <1>2, <1>4, <1>5, <1>6, <1>7, <1>8, <1>9, <1>10 DEF Asks

LEMMA RequestsStep ==
  ASSUME IInv, [Next]_vars
  PROVE  RequestsSound'
<1>1. ASSUME UNCHANGED request PROVE RequestsSound'
  BY <1>1 DEF IInv, RequestsSound
<1>2. ASSUME NEW r \in Requesters, NEW t \in Teams, SelectTeam(r, t) PROVE RequestsSound'
  <2> DEFINE x == [NoRequest EXCEPT !.pc = "context", !.selects = TRUE]
  <2>1. x \in Requests /\ x.pc = "context"
    BY NoIdentityTyped DEF Requests, NoRequest
  <2>2. RequestSound(x)
    BY <2>1 DEF RequestSound
  <2> QED
    BY <1>2, <2>1, <2>2, RequestKept DEF SelectTeam, IInv
<1>3. ASSUME NEW r \in Requesters, NEW j \in JobIds, Admit(r, j) PROVE RequestsSound'
  BY <1>3, AnsweredKept DEF Admit, IInv
<1>4. ASSUME NEW j \in JobIds, Work(j) PROVE UNCHANGED request
  BY <1>4 DEF Work, Begin, Fail, Interrupted, AlreadyCurrent, End, Sync, Seed, Restore, Pass,
              Build, Attach, Publish
<1>5. ASSUME NEW s \in States, Activate(s) PROVE UNCHANGED request
  BY <1>5 DEF Activate
<1>6. UNCHANGED vars => UNCHANGED request
  BY DEF vars
<1> QED
  BY <1>1, <1>2, <1>3, <1>4, <1>5, <1>6, AsksKept, Who

-----------------------------------------------------------------------------
LEMMA InitInv == Init => IInv
<1> SUFFICES ASSUME Init PROVE IInv
  OBVIOUS
<1>1. Proved!IInv
  BY SameInit, SameStore, Proved!InitInv DEF Init
<1>2. generation = 0 /\ ~Store!WorkingActive
  BY DEF Init, Store!Init, Store!NoContext, Store!WorkingActive
<1>3. RequestsSound
  BY NoIdentityTyped DEF Init, RequestsSound, RequestSound, NoRequest, Requests
<1>4. NoJob \in Jobs /\ NoJob.status = "none"
  BY NoIdentityTyped DEF NoJob, Jobs, Pcs, MaybeState
<1>5. JobsSound
  BY <1>4 DEF Init, JobsSound, JobSound, Running
<1> QED
  BY <1>1, <1>2, <1>3, <1>5 DEF IInv, Bounded, WorkingOwned, Store!StoreAssumption

LEMMA StepInv == IInv /\ [Next]_vars => IInv'
<1> SUFFICES ASSUME IInv, [Next]_vars PROVE IInv'
  OBVIOUS
<1>1. Proved!IInv'
  BY StoreStep, SameStore, Proved!StepInv DEF IInv
<1> QED
  BY <1>1, BoundedStep, RequestsStep, JobsStep, OwnedStep DEF IInv

(* The store's invariant, what jobs and requests hold, and whose the        *)
(* working generation is are inductive together.                            *)
THEOREM Invariance == Spec => []IInv
BY InitInv, StepInv, PTL DEF Spec

(* The requests and the jobs of webapp.py use the store of runtime.py only  *)
(* as its specification says: whatever is proved of RuntimeStore holds of   *)
(* it while they run.                                                       *)
THEOREM JobsUseTheStore == Spec => Proved!Spec
<1>1. Init => Proved!Init
  BY SameInit DEF Init
<1>2. IInv /\ [Next]_vars => [Proved!Next]_Proved!vars
  BY StoreStep
<1> QED
  BY <1>1, <1>2, Invariance, PTL DEF Spec, Proved!Spec

(* The variables have their types.                                          *)
THEOREM TypeCorrect == Spec => []TypeOK
<1>1. IInv => TypeOK
  <2> SUFFICES ASSUME IInv PROVE TypeOK
    OBVIOUS
  <2>1. Store!TypeOK
    BY SameStore, SameTypes, Proved!InvariantParts DEF IInv
  <2>2. \A r \in Requesters : request[r].identity \in Identities
    BY DEF IInv, RequestsSound, Requests
  <2>3. \A j \in JobIds : job[j] \in Jobs
    BY DEF IInv, JobsSound
  <2>4. \A j \in JobIds : job[j].identity \in Identities
                          /\ {job[j].row, job[j].target} \subseteq States \cup {None}
    BY <2>3 DEF Jobs, MaybeState
  <2> QED
    BY <2>1, <2>2, <2>4 DEF TypeOK, IInv, JobsSound
<1> QED
  BY <1>1, Invariance, PTL

(* A working generation is the running job's: none is left over by a job    *)
(* that was interrupted, failed or found nothing to do.                     *)
THEOREM WorkIsTheJobs == Spec => []WorkingOwned
<1>1. IInv => WorkingOwned
  BY DEF IInv
<1> QED
  BY <1>1, Invariance, PTL

(* Whatever happened since its request, a job publishes for the identity it *)
(* was asked for, the state it staged and a terminal bundle.                *)
THEOREM PublicationIsTheJobs == Spec => PublishedOwned
<1> DEFINE Right(j) ==
      At(j, "publish") /\ published' # published /\ job'[j].status = "ended"
      => /\ generation = job[j].identity.generation
         /\ published.team = job[j].identity.team
         /\ published'.team = job[j].identity.team
         /\ published'.state = job[j].target
         /\ Store!Terminal(published')
<1>1. IInv /\ [Next]_vars => \A j \in JobIds : Right(j)
  <2> SUFFICES ASSUME IInv, [Next]_vars, NEW j \in JobIds, At(j, "publish"),
                      published' # published, job'[j].status = "ended"
               PROVE  Right(j)!2
    OBVIOUS
  <2>1. Running(j)
    BY DEF At, Running
  <2>2. Publish(j)
    <3>1. job[j].status # "ended"
      BY <2>1 DEF Running
    <3>2. UNCHANGED vars \/ (\E s \in States : Activate(s)) => job' = job
      BY DEF vars, Activate
    <3>3. ASSUME NEW r \in Requesters, NEW t \in Teams, SelectTeam(r, t) PROVE job' = job
      BY <3>3 DEF SelectTeam
    <3>4. ASSUME NEW r \in Requesters, NEW i \in JobIds, Admit(r, i) PROVE published' = published
      BY <3>4 DEF Admit, store
    <3>5. PICK i \in JobIds : Work(i)
      BY <3>1, <3>2, <3>3, <3>4, AsksEffect, Who
    <3>6. CASE Begin(i) \/ Pass(i) \/ Build(i)
      BY <3>6 DEF Begin, Pass, Build, store
    <3>7. CASE Ends(i)
      BY <3>7, CleanUpEffect DEF Ends, End
    <3>8. CASE Seed(i) \/ \E s \in States : Sync(i, s)
      BY <3>8 DEF Seed, Sync, Store!BeginWorking
    <3>9. CASE Restore(i) \/ Attach(i)
      <4>1. Running(i) /\ job[i].pc # "publish"
        BY <3>9, RestoreEffect, AttachEffect
      <4> QED
        BY <2>1, <4>1 DEF IInv, JobsSound, At
    <3>10. CASE Publish(i)
      BY <2>1, <3>10 DEF Publish, At, Running, IInv, JobsSound
    <3> QED
      BY <3>5, <3>6, <3>7, <3>8, <3>9, <3>10, WorkCases DEF IInv
  <2>3. PICK p \in PublicationIds : Store!PublishWorking(p)
    BY <2>2 DEF Publish
  <2>4. /\ Store!WorkingActive /\ Store!Terminal(working) /\ published.team = working.team
        /\ guard.team = published.team
        /\ published' = [working EXCEPT !.served = Store!NoSnapshot, !.publication = p]
    BY <2>3 DEF Store!PublishWorking, Store!MayPublish
  <2>5. /\ published'.team = working.team /\ published'.state = working.state
        /\ published'.forecast = working.forecast /\ published'.value = working.value
        /\ published'.simulation = working.simulation
    BY <2>4 DEF IInv, Proved!IInv, Proved!Good, Proved!Contexts
  <2>6. Store!Terminal(published')
    BY <2>4, <2>5 DEF Store!Terminal
  <2>7. generation = job[j].identity.generation
    BY <2>2 DEF Publish
  <2> QED
    BY <2>1, <2>4, <2>5, <2>6, <2>7, RunningOwns DEF IInv
<1> QED
  BY <1>1, Invariance, PTL DEF Spec, PublishedOwned
=============================================================================
