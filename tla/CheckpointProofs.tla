--------------------------- MODULE CheckpointProofs ---------------------------
(* That the durable pointer of a user ends where readers are, for any       *)
(* States, leagues, teams and bounds.  The argument: of the executors ever  *)
(* made one at most is in use, so checkpoints are taken in the order of     *)
(* submission; the latest submission is the last to end and says what is    *)
(* published; the State and evidence of a pointer are those of the last     *)
(* snapshot, whose only deputy is another snapshot, and a binding can only  *)
(* bring them forward.  A second induction on top of it, Ahead, says why a  *)
(* choice of team is refused only when another observation overtook it.     *)
EXTENDS CheckpointQueue, TLAPS

Contexts ==
  [state : Maybe(States), team : Maybe(Teams), evidence : 0..MaxWrites,
   terminal : BOOLEAN, generation : 0..MaxWrites]
Checkpoints ==
  [kind : Kinds, state : Maybe(States), team : Maybe(Teams),
   evidence : 0..MaxWrites, terminal : BOOLEAN, generation : 0..MaxWrites,
   executor : 0..MaxWrites, status : Status]
Pointers ==
  [state : Maybe(States), team : Maybe(Teams), evidence : 0..MaxWrites,
   write : 0..MaxWrites]
Rows == [Leagues -> Maybe(States)]

Types ==
  /\ published \in Contexts
  /\ futures \in [Ids -> Checkpoints]
  /\ latest \in 0..MaxWrites /\ executor \in 0..MaxWrites
  /\ busy \in [Ids -> 0..MaxWrites]
  /\ publisher \in {"idle", "draining", "committing"}
  /\ working \in IF publisher = "idle" THEN {None} ELSE States
  /\ durable \in Pointers
  /\ row \in Rows /\ lastGood \in Rows
  /\ writes \in 0..MaxWrites /\ executors \in 0..MaxWrites /\ attempts \in 0..MaxAttempts

(* Everything is numbered by the writes so far.                             *)
Numbered ==
  /\ published.evidence <= writes /\ published.generation <= writes
  /\ durable.write <= writes
  /\ latest <= writes /\ executor <= executors /\ executors <= writes
  /\ \A n \in Ids : futures[n].status # "none" => n <= latest
  /\ latest # 0 => futures[latest].status \notin {"none", "cancelled", "stale"}
  /\ publisher # "idle" => writes < MaxWrites

(* One executor is in use: what is pending is in it, and its worker has the *)
(* oldest in hand.                                                          *)
OneExecutor ==
  /\ \A n \in Pending : executor # 0 /\ futures[n].executor = executor
  /\ \A n \in Ids : futures[n].status = "running" => busy[executor] = n
  /\ \A e \in Ids : busy[e] # 0 =>
       /\ e = executor
       /\ futures[busy[e]].status \in {"running", "stored", "stale", "refused"}
       /\ \A m \in Ids : futures[m].status = "queued" => busy[e] < m

(* The latest checkpoint is the last to end, and says what is published.    *)
LatestLast ==
  /\ Pending # {} => latest \in Pending
  /\ latest \in Pending =>
       /\ futures[latest].state = published.state
       /\ futures[latest].team = published.team
       /\ futures[latest].evidence = published.evidence
       /\ futures[latest].generation = published.generation
  /\ publisher = "committing" => Pending = {}

(* The pointer is behind all that is pending.  The State and the evidence   *)
(* it lacks are in a snapshot to come, its team in any checkpoint to come,  *)
(* unless the last one was refused.                                         *)
Snapshots == {n \in Pending : futures[n].kind = "snapshot"}

Says(c) == c.state = published.state /\ c.evidence = published.evidence

Behind ==
  /\ \A n \in Pending : durable.write < n
  /\ Pending = {} =>
       \/ durable.team = published.team
       \/ latest # 0 /\ futures[latest].status = "refused"
  /\ Snapshots = {} => Says(durable)
  /\ \A n \in Snapshots : (\A m \in Snapshots : m <= n) => Says(futures[n])

Inv == Types /\ Numbered /\ OneExecutor /\ LatestLast /\ Behind

-----------------------------------------------------------------------------
LEMMA InitInv == Init => Inv
  <1> SUFFICES ASSUME Init PROVE Inv
    OBVIOUS
  <1>1. Types
    BY QueueAssumption
    DEF Init, Types, Contexts, Checkpoints, Pointers, Rows, NoCheckpoint, Kinds, Status, Maybe,
        Ids
  <1>2. \A n \in Ids : futures[n].status = "none"
    BY DEF Init, NoCheckpoint
  <1>3. Pending = {}
    BY <1>2 DEF Pending
  <1>4. Numbered
    BY <1>2 DEF Init, Numbered
  <1>5. OneExecutor /\ LatestLast /\ Behind
    BY <1>2, <1>3 DEF Init, OneExecutor, LatestLast, Behind, Says, Snapshots
  <1> QED
    BY <1>1, <1>4, <1>5 DEF Inv

(* The facts of the state before a step that every case below uses.         *)
LEMMA Before ==
  ASSUME Inv
  PROVE  /\ MaxWrites \in Nat /\ MaxAttempts \in Nat /\ Ids = 1..MaxWrites
         /\ Types /\ Numbered /\ OneExecutor /\ LatestLast /\ Behind
         /\ \A n \in Ids : futures[n] \in Checkpoints
  BY QueueAssumption DEF Inv, Ids, Types

(* A checkpoint changes its status, and nothing else.                       *)
LEMMA Restated ==
  ASSUME NEW c \in Checkpoints, NEW status \in Status
  PROVE  LET d == [c EXCEPT !.status = status]
         IN  /\ d \in Checkpoints /\ d.status = status
             /\ d.kind = c.kind /\ d.state = c.state /\ d.team = c.team
             /\ d.evidence = c.evidence /\ d.generation = c.generation
             /\ d.executor = c.executor
  BY DEF Checkpoints

(* What a put leaves in the store.                                          *)
LEMMA Observing ==
  ASSUME NEW rows \in Rows, NEW s \in Maybe(States)
  PROVE  Observed(rows, s) \in Rows
  BY DEF Observed, Rows, Maybe

LEMMA Putting ==
  ASSUME row \in Rows, lastGood \in Rows,
         NEW c, c.state \in Maybe(States), c.team \in Maybe(Teams),
         c.evidence \in 0..MaxWrites, NEW n \in 0..MaxWrites, Put(c, n)
  PROVE  /\ row' \in Rows /\ lastGood' \in Rows /\ durable' \in Pointers
         /\ durable'.state = c.state /\ durable'.team = c.team
         /\ durable'.evidence = c.evidence /\ durable'.write = n
  <1>1. row' \in Rows
    BY Observing DEF Put
  <1>2. lastGood' \in Rows
    BY DEF Put, AsLastGood, Rows
  <1> QED
    BY <1>1, <1>2 DEF Put, Pointer, Pointers

-----------------------------------------------------------------------------
(* A submission queues a checkpoint after all the others, and cancels at    *)
(* most the one it subsumes.                                                *)
LEMMA Submitting ==
  ASSUME Inv, NEW kind \in {"snapshot", "managed_team_identity"}, NEW context,
         context \in [state : Maybe(States), team : Maybe(Teams), evidence : 0..(writes + 1),
                      terminal : BOOLEAN, generation : 0..(writes + 1)],
         context.state \in Maybe(States), context.team \in Maybe(Teams),
         Submit(kind, context)
  PROVE  LET n == writes + 1
             e == ExecutorFor
         IN  /\ n \in Ids /\ writes' = n /\ executor' = e /\ latest' = n
             /\ executors' = IF e > executors THEN e ELSE executors
             /\ UNCHANGED <<busy, publisher, working, durable, row, attempts>>
             /\ e \in 1..n /\ executors' \in 1..n /\ e <= executors'
             /\ e = executor \/ (executor = 0 /\ e = executors + 1)
             /\ futures' \in [Ids -> Checkpoints]
             /\ futures'[n].status = "queued" /\ futures'[n].kind = kind
             /\ futures'[n].executor = e
             /\ futures'[n].state = context.state /\ futures'[n].team = context.team
             /\ futures'[n].evidence = context.evidence
             /\ futures'[n].generation = context.generation
             /\ \A m \in Ids \ {n} :
                  \/ futures'[m] = futures[m]
                  \/ /\ m = latest /\ futures[m].status = "queued" /\ futures[m].kind = kind
                     /\ futures'[m] = [futures[m] EXCEPT !.status = "cancelled"]
                     /\ futures'[m].status = "cancelled"
             /\ \A m \in Ids : futures[m].status # "none" => m < n
             /\ n \in Pending'
             /\ \A m \in Pending' : m = n \/ (m \in Pending /\ futures'[m] = futures[m])
  <1> DEFINE n == writes + 1
             e == ExecutorFor
             checkpoint == [kind |-> kind, state |-> context.state, team |-> context.team,
                            evidence |-> context.evidence, terminal |-> context.terminal,
                            generation |-> context.generation, executor |-> e,
                            status |-> "queued"]
  <1>0. /\ MaxWrites \in Nat /\ Ids = 1..MaxWrites
        /\ Types /\ Numbered
        /\ \A m \in Ids : futures[m] \in Checkpoints
    BY Before
  <1>1. /\ n \in Ids /\ writes' = n /\ executor' = e /\ latest' = n
        /\ executors' = IF e > executors THEN e ELSE executors
        /\ UNCHANGED <<busy, publisher, working, durable, row, attempts>>
    BY <1>0 DEF Submit, Types
  <1>2. /\ e \in 1..n /\ executors' \in 1..n /\ e <= executors'
        /\ e = executor \/ (executor = 0 /\ e = executors + 1)
    BY <1>0, <1>1 DEF ExecutorFor, Types, Numbered
  <1>3. checkpoint \in Checkpoints
    <2>1. /\ context.evidence \in 0..MaxWrites /\ context.generation \in 0..MaxWrites
          /\ context.terminal \in BOOLEAN /\ e \in 0..MaxWrites
      BY <1>0, <1>1, <1>2
    <2>2. kind \in Kinds /\ "queued" \in Status
      BY DEF Kinds, Status
    <2> HIDE DEF e
    <2> QED
      BY <2>1, <2>2 DEF Checkpoints
  <1>4. /\ futures'[n] = checkpoint
        /\ \A m \in Ids \ {n} :
             \/ futures'[m] = futures[m]
             \/ /\ m = latest /\ futures[m].status = "queued" /\ futures[m].kind = kind
                /\ futures'[m] = [futures[m] EXCEPT !.status = "cancelled"]
        /\ futures' \in [Ids -> Checkpoints]
    <2> DEFINE subsumed == {m \in {latest} : Subsumes(kind, m) /\ futures[m].state = context.state}
    <2>1. futures' = [m \in Ids |-> IF m = n THEN checkpoint
                                    ELSE IF m \in subsumed
                                    THEN [futures[m] EXCEPT !.status = "cancelled"]
                                    ELSE futures[m]]
      BY DEF Submit
    <2>2. \A m \in Ids : [futures[m] EXCEPT !.status = "cancelled"] \in Checkpoints
      BY <1>0 DEF Checkpoints, Status
    <2>3. \A m \in subsumed : m = latest /\ futures[m].status = "queued" /\ futures[m].kind = kind
      BY DEF Subsumes
    <2> HIDE DEF subsumed, checkpoint, n
    <2> QED
      BY <1>0, <1>1, <1>3, <2>1, <2>2, <2>3
  <1>5. /\ futures'[n].status = "queued" /\ futures'[n].kind = kind
        /\ futures'[n].executor = e
        /\ futures'[n].state = context.state /\ futures'[n].team = context.team
        /\ futures'[n].evidence = context.evidence
        /\ futures'[n].generation = context.generation
    BY <1>4
  <1>6. \A m \in Ids \ {n} :
          \/ futures'[m] = futures[m]
          \/ /\ m = latest /\ futures[m].status = "queued" /\ futures[m].kind = kind
             /\ futures'[m] = [futures[m] EXCEPT !.status = "cancelled"]
             /\ futures'[m].status = "cancelled"
    BY <1>0, <1>4 DEF Checkpoints
  <1> HIDE DEF checkpoint, e
  <1>7. \A m \in Ids : futures[m].status # "none" => m < n
    BY <1>0, <1>1 DEF Numbered, Types
  <1>8. /\ n \in Pending'
        /\ \A m \in Pending' : m = n \/ (m \in Pending /\ futures'[m] = futures[m])
    BY <1>1, <1>5, <1>6 DEF Pending
  <1> QED
    BY <1>1, <1>2, <1>4, <1>5, <1>6, <1>7, <1>8 DEF e

LEMMA Submitted ==
  ASSUME Inv, LifecycleFree,
         NEW kind \in {"snapshot", "managed_team_identity"}, NEW context,
         published' = context, context.state \in Maybe(States), context.team \in Maybe(Teams),
         context \in [state : Maybe(States), team : Maybe(Teams), evidence : 0..(writes + 1),
                      terminal : BOOLEAN, generation : 0..(writes + 1)],
         kind = "snapshot" \/ Says(context),
         lastGood' \in Rows,
         Submit(kind, context)
  PROVE  Inv'
  <1> DEFINE n == writes + 1
             e == ExecutorFor
  <1>0. /\ MaxWrites \in Nat /\ Ids = 1..MaxWrites
        /\ Types /\ Numbered /\ OneExecutor /\ LatestLast /\ Behind
        /\ \A m \in Ids : futures[m] \in Checkpoints
    BY Before
  <1>1. /\ n \in Ids /\ writes' = n /\ executor' = e /\ latest' = n
        /\ executors' = IF e > executors THEN e ELSE executors
        /\ UNCHANGED <<busy, publisher, working, durable, row, attempts>>
    BY Submitting
  <1>2. /\ e \in 1..n /\ executors' \in 1..n /\ e <= executors'
        /\ e = executor \/ (executor = 0 /\ e = executors + 1)
    BY Submitting
  <1>3. futures' \in [Ids -> Checkpoints]
    BY Submitting
  <1>4. /\ futures'[n].status = "queued" /\ futures'[n].kind = kind
        /\ futures'[n].executor = e
        /\ futures'[n].state = context.state /\ futures'[n].team = context.team
        /\ futures'[n].evidence = context.evidence
        /\ futures'[n].generation = context.generation
    BY Submitting
  <1>5. \A m \in Ids \ {n} :
          \/ futures'[m] = futures[m]
          \/ /\ m = latest /\ futures[m].status = "queued" /\ futures[m].kind = kind
             /\ futures'[m].status = "cancelled"
    BY Submitting
  <1>6. \A m \in Ids : futures[m].status # "none" => m < n
    BY Submitting
  <1>7. /\ n \in Pending'
         /\ \A m \in Pending' : m = n \/ (m \in Pending /\ futures'[m] = futures[m])
    BY Submitting
  <1> HIDE DEF e
  <1>8. Types'
    BY <1>0, <1>1, <1>2, <1>3 DEF Types, Contexts
  <1>9. Numbered'
    <2>1. published'.evidence <= n /\ published'.generation <= n
      BY <1>0, <1>1 DEF Types
    <2>2. durable'.write <= n
      BY <1>0, <1>1 DEF Numbered, Types, Pointers
    <2>3. \A m \in Ids : futures'[m].status # "none" => m <= n
      BY <1>0, <1>1, <1>5, <1>6
    <2>4. latest' = n /\ executor' <= executors' /\ executors' <= n /\ publisher' = "idle"
      BY <1>0, <1>1, <1>2 DEF LifecycleFree
    <2> QED
      BY <1>1, <1>4, <2>1, <2>2, <2>3, <2>4 DEF Numbered
  <1>10. OneExecutor'
    <2>1. \A m \in Pending' : futures'[m].executor = e
      BY <1>0, <1>2, <1>4, <1>7 DEF OneExecutor
    <2>2. \A m \in Ids : futures'[m].status = "running" =>
                           m # n /\ futures[m].status = "running" /\ m \in Pending
      BY <1>4, <1>5 DEF Pending
    <2>3. \A m \in Ids : futures'[m].status = "running" => busy[e] = m
      BY <1>0, <1>2, <2>2 DEF OneExecutor
    <2>4. ASSUME NEW d \in Ids, busy[d] # 0
          PROVE  /\ d = e
                 /\ futures'[busy[d]].status \in {"running", "stored", "stale", "refused"}
                 /\ \A m \in Ids : futures'[m].status = "queued" => busy[d] < m
      <3>1. busy[d] \in Ids /\ busy[d] < n
        BY <1>0, <1>6, <2>4 DEF OneExecutor, Types
      <3>2. futures'[busy[d]] = futures[busy[d]]
        BY <1>0, <1>5, <2>4, <3>1 DEF OneExecutor
      <3> QED
        BY <1>0, <1>2, <1>4, <1>5, <2>4, <3>1, <3>2 DEF OneExecutor
    <2> QED
      BY <1>1, <1>2, <2>1, <2>3, <2>4 DEF OneExecutor
  <1>11. LatestLast'
    BY <1>0, <1>1, <1>4, <1>7 DEF LatestLast, LifecycleFree
  <1>12. Behind'
    <2>0. Says(context)' /\ Pending' # {}
      BY <1>7 DEF Says
    <2>1. \A m \in Pending' : durable.write < m
      BY <1>0, <1>7 DEF Behind, Numbered, Types, Pointers
    <2>2. CASE kind = "snapshot"
      <3>1. n \in Snapshots' /\ \A m \in Snapshots' : m <= n
        BY <1>0, <1>1, <1>4, <1>6, <1>7, <2>2 DEF Snapshots, Pending
      <3>2. \A m \in Snapshots' : (\A k \in Snapshots' : k <= m) => m = n
        BY <1>0, <1>1, <3>1 DEF Snapshots, Pending
      <3> QED
        BY <1>1, <1>4, <2>0, <2>1, <3>1, <3>2 DEF Behind, Says
    <2>3. CASE kind # "snapshot"
      <3>1. Snapshots' = Snapshots
        BY <1>0, <1>1, <1>4, <1>5, <1>6, <2>3 DEF Snapshots, Pending
      <3>2. \A m \in Snapshots : Says(futures[m]) => Says(futures[m])'
        <4>1. \A m \in Snapshots : futures'[m] = futures[m]
          BY <1>1, <1>4, <1>5, <1>6, <2>3, <3>1 DEF Snapshots, Pending
        <4> QED
          BY <2>3, <4>1 DEF Says
      <3>3. Says(durable) => Says(durable)'
        BY <1>1, <2>3 DEF Says
      <3> QED
        <4>1. \A m \in Snapshots' : (\A k \in Snapshots' : k <= m) => Says(futures[m])'
          BY <1>0, <3>1, <3>2 DEF Behind
        <4>2. Snapshots' = {} => Says(durable)'
          BY <1>0, <3>1, <3>3 DEF Behind
        <4> QED
          BY <1>1, <2>0, <2>1, <4>1, <4>2 DEF Behind
    <2> QED
      BY <2>2, <2>3
  <1> QED
    BY <1>8, <1>9, <1>10, <1>11, <1>12 DEF Inv

(* Every request submits what it publishes, a choice of team nothing else;  *)
(* another State has another generation.                                    *)
Requested(kind) ==
  /\ LifecycleFree
  /\ published' \in [state : Maybe(States), team : Maybe(Teams), evidence : 0..(writes + 1),
                      terminal : BOOLEAN, generation : 0..(writes + 1)]
  /\ published'.state \in States /\ published'.team \in Maybe(Teams)
  /\ kind = "snapshot" \/ Says(published')
  /\ published'.generation >= published.generation
  /\ published'.state # published.state => published'.generation # published.generation
  /\ lastGood' \in Rows
  /\ Submit(kind, published')

LEMMA Requests ==
  ASSUME Inv, Request
  PROVE  \E kind \in {"snapshot", "managed_team_identity"} : Requested(kind)
  <1>0. /\ MaxWrites \in Nat /\ published \in Contexts /\ writes \in 0..MaxWrites
        /\ published.evidence <= writes /\ published.generation <= writes
        /\ lastGood \in Rows
    BY Before DEF Types, Numbered
  <1> DEFINE Kept(context) ==
        context \in [state : Maybe(States), team : Maybe(Teams), evidence : 0..(writes + 1),
                     terminal : BOOLEAN, generation : 0..(writes + 1)]
  <1>1. ASSUME NEW s \in Maybe(States), NEW t \in Maybe(Teams), NEW v \in 0..(writes + 1),
               NEW b \in BOOLEAN, NEW g \in 0..(writes + 1)
        PROVE  Kept([published EXCEPT !.state = s, !.team = t, !.evidence = v, !.terminal = b,
                                      !.generation = g])
    BY <1>0, <1>1 DEF Contexts
  <1>2. /\ published.evidence \in 0..(writes + 1) /\ 0 \in 0..(writes + 1)
        /\ published.generation \in 0..(writes + 1) /\ published.generation + 1 \in 0..(writes + 1)
        /\ published.state \in Maybe(States) /\ published.team \in Maybe(Teams)
        /\ writes + 1 \in 0..(writes + 1)
    BY <1>0 DEF Contexts
  <1>3. ASSUME NEW s \in States, NEW t \in Maybe(Teams), Activate(s, t) PROVE Requested("snapshot")
    <2> DEFINE v == IF published.state = s THEN published.evidence ELSE 0
               b == published.state = s /\ published.terminal
               g == IF published.state = s THEN published.generation ELSE published.generation + 1
    <2>1. /\ published' = [published EXCEPT !.state = s, !.team = t, !.evidence = v,
                                            !.terminal = b, !.generation = g]
          /\ LifecycleFree /\ Submit("snapshot", published')
      BY <1>3 DEF Activate
    <2>2. v \in 0..(writes + 1) /\ b \in BOOLEAN /\ g \in 0..(writes + 1) /\ s \in Maybe(States)
      BY <1>0, <1>2 DEF Contexts, Maybe
    <2>3. lastGood' \in Rows
      BY <1>0, <1>2, <1>3 DEF Activate, AsLastGood, Rows
    <2>4. Kept(published')
      <3> HIDE DEF v, b, g
      <3> QED
        BY <1>1, <2>1, <2>2
    <2>5. /\ published'.state = s /\ published'.team = t /\ published'.generation = g
      <3> HIDE DEF v, b, g
      <3> QED
        BY <1>0, <2>1 DEF Contexts
    <2>6. g >= published.generation /\ (published.state # s => g # published.generation)
      BY <1>0, <1>2
    <2> QED
      BY <2>1, <2>3, <2>4, <2>5, <2>6 DEF Requested
  <1>4. ASSUME NEW terminal \in BOOLEAN, Attach(terminal) PROVE Requested("snapshot")
    <2>1. /\ published' = [published EXCEPT !.evidence = writes + 1, !.terminal = terminal]
          /\ LifecycleFree /\ lastGood' = lastGood /\ Submit("snapshot", published')
      BY <1>4 DEF Attach
    <2>2. Kept(published')
      BY <1>0, <1>2, <2>1 DEF Contexts
    <2>3. /\ published'.state = published.state /\ published'.team = published.team
          /\ published'.generation = published.generation
      BY <1>0, <2>1 DEF Contexts
    <2>4. published.state \in States
      BY <1>2, <1>4 DEF Attach, Maybe
    <2> QED
      BY <1>0, <1>2, <2>1, <2>2, <2>3, <2>4 DEF Requested
  <1>5. ASSUME NEW t \in Teams, SelectTeam(t) PROVE Requested("managed_team_identity")
    <2> DEFINE g == IF published.team = t THEN published.generation ELSE published.generation + 1
    <2>1. /\ published' = [published EXCEPT !.team = t, !.generation = g]
          /\ LifecycleFree /\ lastGood' = lastGood
          /\ Submit("managed_team_identity", published')
      BY <1>5 DEF SelectTeam
    <2>2. g \in 0..(writes + 1) /\ t \in Maybe(Teams)
      BY <1>2 DEF Maybe
    <2>3. /\ Kept(published') /\ Says(published')
          /\ published'.state = published.state /\ published'.team = t
          /\ published'.generation = g
      <3> HIDE DEF g
      <3> QED
        BY <1>0, <1>2, <2>1, <2>2 DEF Contexts, Says
    <2>4. g >= published.generation
      BY <1>0, <1>2
    <2>5. published.state \in States
      BY <1>2, <1>5 DEF SelectTeam, Maybe
    <2> QED
      BY <1>0, <2>1, <2>2, <2>3, <2>4, <2>5 DEF Requested
  <1> QED
    BY <1>3, <1>4, <1>5 DEF Request

LEMMA RequestStep == Inv /\ Request => Inv'
  <1> SUFFICES ASSUME Inv, Request PROVE Inv'
    OBVIOUS
  <1>1. PICK kind \in {"snapshot", "managed_team_identity"} : Requested(kind)
    BY Requests
  <1>2. published'.state \in Maybe(States)
    BY <1>1 DEF Requested, Maybe
  <1> QED
    BY <1>1, <1>2, Submitted DEF Requested

-----------------------------------------------------------------------------
(* The worker.                                                              *)
LEMMA TakeStep == ASSUME Inv, NEW e \in Ids, Take(e) PROVE Inv'
  <1>0. /\ MaxWrites \in Nat /\ Ids = 1..MaxWrites
        /\ Types /\ Numbered /\ OneExecutor /\ LatestLast /\ Behind
        /\ \A m \in Ids : futures[m] \in Checkpoints
    BY Before
  <1>1. PICK n \in Queued(e) :
          /\ busy[e] = 0
          /\ \A m \in Queued(e) : n <= m
          /\ busy' = [busy EXCEPT ![e] = n]
          /\ futures' = [futures EXCEPT ![n].status = "running"]
    BY DEF Take
  <1>2. UNCHANGED <<published, latest, executor, publisher, working, durable, row, lastGood,
                    writes, attempts, executors>>
    BY DEF Take, store
  <1>3. n \in Ids /\ futures[n].status = "queued" /\ futures[n].executor = e /\ n \in Pending
    BY <1>1 DEF Queued, Pending
  <1>4. e = executor /\ executor # 0
    BY <1>0, <1>3 DEF OneExecutor
  <1>5. /\ futures' \in [Ids -> Checkpoints]
        /\ futures'[n].status = "running"
        /\ \A m \in Ids \ {n} : futures'[m] = futures[m]
        /\ \A m \in Ids : /\ futures'[m].kind = futures[m].kind
                          /\ futures'[m].state = futures[m].state
                          /\ futures'[m].team = futures[m].team
                          /\ futures'[m].evidence = futures[m].evidence
                          /\ futures'[m].generation = futures[m].generation
                          /\ futures'[m].executor = futures[m].executor
    <2> DEFINE c == [futures[n] EXCEPT !.status = "running"]
    <2>1. /\ c \in Checkpoints /\ c.status = "running"
          /\ c.kind = futures[n].kind /\ c.state = futures[n].state /\ c.team = futures[n].team
          /\ c.evidence = futures[n].evidence /\ c.generation = futures[n].generation
          /\ c.executor = futures[n].executor
      BY <1>0, <1>3, Restated DEF Status
    <2>2. futures' = [futures EXCEPT ![n] = c]
      BY <1>1
    <2> HIDE DEF c
    <2> QED
      BY <1>0, <1>3, <2>1, <2>2 DEF Types
  <1>6. Pending' = Pending
    BY <1>3, <1>5 DEF Pending
  <1>7. Types'
    BY <1>0, <1>1, <1>2, <1>3, <1>5 DEF Types
  <1>8. Numbered'
    <2>1. \A m \in Ids : futures'[m].status # "none" => m <= latest
      BY <1>0, <1>3, <1>5 DEF Numbered
    <2>2. latest # 0 => futures'[latest].status \notin {"none", "cancelled", "stale"}
      BY <1>0, <1>5 DEF Numbered, Types
    <2> QED
      BY <1>0, <1>2, <2>1, <2>2 DEF Numbered
  <1>9. OneExecutor'
    <2>1. \A m \in Ids : futures[m].status # "running"
      BY <1>0, <1>1, <1>4 DEF OneExecutor
    <2>2. \A m \in Ids : futures'[m].status = "queued" => m \in Queued(e) /\ m # n
      BY <1>0, <1>4, <1>5 DEF OneExecutor, Queued, Pending
    <2>3. \A m \in Ids : futures'[m].status = "queued" => n < m
      BY <1>0, <1>1, <1>3, <2>2
    <2>4. busy'[e] = n /\ \A d \in Ids : d # e => busy'[d] = 0
      BY <1>0, <1>1, <1>4 DEF OneExecutor, Types
    <2>5. \A m \in Pending' : executor # 0 /\ futures'[m].executor = executor
      BY <1>0, <1>5, <1>6 DEF OneExecutor, Pending
    <2>6. \A m \in Ids : futures'[m].status = "running" => m = n
      BY <1>5, <2>1
    <2> QED
      BY <1>2, <1>4, <1>5, <2>3, <2>4, <2>5, <2>6 DEF OneExecutor
  <1>10. LatestLast'
    BY <1>0, <1>2, <1>5, <1>6 DEF LatestLast, Pending
  <1>11. Behind'
    <2>1. Snapshots' = Snapshots
      BY <1>5, <1>6 DEF Snapshots, Pending
    <2> QED
      BY <1>0, <1>2, <1>3, <1>5, <1>6, <2>1 DEF Behind, Says, Snapshots, Pending
  <1> QED
    BY <1>7, <1>8, <1>9, <1>10, <1>11 DEF Inv

(* What ending the checkpoint in hand does to what is pending: it was the   *)
(* oldest.                                                                  *)
LEMMA Ending ==
  ASSUME Inv, NEW e \in Ids, NEW status \in {"stored", "stale", "refused"},
         busy[e] # 0, futures[busy[e]].status = "running",
         futures' = [futures EXCEPT ![busy[e]].status = status],
         UNCHANGED <<published, latest, executor, busy, publisher, working, writes, attempts,
                     executors>>
  PROVE  /\ busy[e] \in Pending
         /\ Pending' = Pending \ {busy[e]}
         /\ \A m \in Pending' : busy[e] < m
         /\ busy[e] = latest <=> Pending' = {}
         /\ futures' \in [Ids -> Checkpoints]
         /\ \A m \in Ids \ {busy[e]} : futures'[m] = futures[m]
         /\ futures'[busy[e]].status = status
         /\ \A m \in Ids : /\ futures'[m].kind = futures[m].kind
                           /\ futures'[m].state = futures[m].state
                           /\ futures'[m].generation = futures[m].generation
         /\ OneExecutor'
         /\ LatestLast'
  <1> DEFINE n == busy[e]
  <1>0. /\ MaxWrites \in Nat /\ Ids = 1..MaxWrites
        /\ Types /\ Numbered /\ OneExecutor /\ LatestLast /\ Behind
        /\ \A m \in Ids : futures[m] \in Checkpoints
    BY Before
  <1>1. n \in Ids /\ n \in Pending
    BY <1>0 DEF Types, Pending
  <1>2. /\ futures' \in [Ids -> Checkpoints]
        /\ \A m \in Ids \ {n} : futures'[m] = futures[m]
        /\ futures'[n].status = status
        /\ \A m \in Ids : /\ futures'[m].kind = futures[m].kind
                          /\ futures'[m].state = futures[m].state
                          /\ futures'[m].generation = futures[m].generation
    <2> DEFINE c == [futures[n] EXCEPT !.status = status]
    <2>1. /\ c \in Checkpoints /\ c.status = status /\ c.kind = futures[n].kind
          /\ c.state = futures[n].state /\ c.generation = futures[n].generation
      <3>1. futures[n] \in Checkpoints
        BY <1>0, <1>1
      <3>2. status \in Status
        BY DEF Status
      <3> HIDE DEF n
      <3> QED
        BY <3>1, <3>2, Restated
    <2>2. futures' = [futures EXCEPT ![n] = c]
      OBVIOUS
    <2> HIDE DEF c, n
    <2> QED
      BY <1>0, <1>1, <2>1, <2>2 DEF Types
  <1>3. e = executor
    BY <1>0 DEF OneExecutor
  <1> HIDE DEF n
  <1>4. Pending' = Pending \ {n}
    BY <1>1, <1>2 DEF Pending
  <1>5. \A m \in Pending' : n < m
    <2>1. ASSUME NEW m \in Pending' PROVE n < m
      <3>1. m \in Ids /\ m # n /\ futures[m].status \in {"queued", "running"}
        BY <1>4 DEF Pending
      <3>2. futures[m].status = "running" => m = n
        BY <1>0, <1>3, <3>1 DEF OneExecutor, n
      <3> QED
        BY <1>0, <3>1, <3>2 DEF OneExecutor, n
    <2> QED
      BY <2>1
  <1>6. latest \in Pending /\ latest \in Ids
    BY <1>0, <1>1 DEF LatestLast, Pending
  <1>7. \A m \in Pending : m <= latest
    BY <1>0 DEF Numbered, Pending
  <1>8. n = latest <=> Pending' = {}
    <2>1. CASE n = latest
      BY <1>0, <1>1, <1>4, <1>5, <1>6, <1>7, <2>1 DEF Pending
    <2>2. CASE n # latest
      BY <1>4, <1>6, <2>2
    <2> QED
      BY <2>1, <2>2
  <1>9. OneExecutor'
    <2>1. \A m \in Pending' : executor # 0 /\ futures'[m].executor = executor
      BY <1>0, <1>2, <1>4 DEF OneExecutor, Pending
    <2>2. \A m \in Ids : futures'[m].status = "running" => busy[executor] = m
      BY <1>0, <1>2 DEF OneExecutor
    <2>3. \A d \in Ids : busy[d] # 0 => d = executor /\ busy[d] = n
      BY <1>0, <1>3 DEF OneExecutor, n
    <2>4. \A m \in Ids : futures'[m].status = "queued" => n < m
      BY <1>5 DEF Pending
    <2> QED
      BY <1>2, <2>1, <2>2, <2>3, <2>4 DEF OneExecutor
  <1>10. LatestLast'
    BY <1>0, <1>1, <1>2, <1>4, <1>6, <1>8 DEF LatestLast
  <1> QED
    BY <1>1, <1>2, <1>4, <1>5, <1>8, <1>9, <1>10 DEF n

LEMMA PersistContextStep == ASSUME Inv, NEW e \in Ids, PersistContext(e) PROVE Inv'
  <1> DEFINE n == busy[e]
  <1>0. /\ MaxWrites \in Nat /\ Ids = 1..MaxWrites
        /\ Types /\ Numbered /\ OneExecutor /\ LatestLast /\ Behind
        /\ \A m \in Ids : futures[m] \in Checkpoints
    BY Before
  <1>1. /\ busy[e] # 0 /\ futures[n].status = "running" /\ futures[n].kind = "snapshot"
        /\ futures' = [futures EXCEPT ![n].status = "stored"]
        /\ Put(futures[n], n)
        /\ UNCHANGED <<published, latest, executor, busy, publisher, working, writes, attempts,
                       executors>>
    BY DEF PersistContext, InHand, Ends
  <1>2. /\ n \in Pending
        /\ Pending' = Pending \ {n}
        /\ \A m \in Pending' : n < m
        /\ n = latest <=> Pending' = {}
        /\ futures' \in [Ids -> Checkpoints]
        /\ \A m \in Ids \ {n} : futures'[m] = futures[m]
        /\ futures'[n].status = "stored"
        /\ OneExecutor'
        /\ LatestLast'
    BY <1>1, Ending
  <1> HIDE DEF n
  <1>3. n \in Ids /\ n <= latest
    BY <1>0, <1>2 DEF Pending, Numbered
  <1>4. /\ durable'.state = futures[n].state /\ durable'.team = futures[n].team
        /\ durable'.evidence = futures[n].evidence /\ durable'.write = n
        /\ durable' \in Pointers /\ row' \in Rows /\ lastGood' \in Rows
    <2>1. /\ futures[n].state \in Maybe(States) /\ futures[n].team \in Maybe(Teams)
          /\ futures[n].evidence \in 0..MaxWrites /\ n \in 0..MaxWrites
      BY <1>0, <1>3 DEF Checkpoints
    <2> QED
      BY <1>0, <1>1, <2>1, Putting DEF Types
  <1>5. Types'
    BY <1>0, <1>1, <1>2, <1>4 DEF Types
  <1>6. Numbered'
    BY <1>0, <1>1, <1>2, <1>3, <1>4 DEF Numbered, Types, Pending
  <1>7. Behind'
    <2>1. Pending' = {} => durable'.team = published.team
      BY <1>0, <1>2, <1>4 DEF LatestLast
    <2>2. Snapshots' = Snapshots \ {n} /\ n \in Snapshots
      BY <1>1, <1>2 DEF Snapshots, Pending
    <2>3. \A m \in Snapshots' : n < m
      BY <1>2 DEF Snapshots
    <2>4. Snapshots' = {} => Says(futures[n])
      <3>1. ASSUME Snapshots' = {} PROVE \A m \in Snapshots : m <= n
        BY <1>0, <1>3, <2>2, <3>1
      <3> QED
        BY <1>0, <2>2, <3>1 DEF Behind
    <2>5. ASSUME NEW m \in Snapshots', \A k \in Snapshots' : k <= m
          PROVE  Says(futures'[m])
      <3>1. m \in Snapshots /\ n < m /\ futures'[m] = futures[m] /\ m \in Ids
        BY <1>2, <2>2, <2>3, <2>5 DEF Snapshots, Pending
      <3>2. \A k \in Snapshots : k <= m
        BY <1>0, <1>3, <2>2, <2>5, <3>1
      <3> QED
        BY <1>0, <3>1, <3>2 DEF Behind
    <2> QED
      BY <1>1, <1>2, <1>4, <2>1, <2>4, <2>5 DEF Behind, Says
  <1> QED
    BY <1>2, <1>5, <1>6, <1>7 DEF Inv

LEMMA IdentityStep ==
  ASSUME Inv, NEW e \in Ids, PersistIdentity(e) \/ SkipIdentity(e) \/ RefuseIdentity(e)
  PROVE  Inv'
  <1> DEFINE n == busy[e]
  <1>0. /\ MaxWrites \in Nat /\ Ids = 1..MaxWrites
        /\ Types /\ Numbered /\ OneExecutor /\ LatestLast /\ Behind
        /\ \A m \in Ids : futures[m] \in Checkpoints
    BY Before
  <1>1. PICK status \in {"stored", "stale", "refused"} :
        /\ futures' = [futures EXCEPT ![n].status = status]
        /\ \/ /\ status = "stored" /\ StillPublished(futures[n])
              /\ durable' = Pointer([futures[n] EXCEPT !.evidence = durable.evidence], n)
           \/ /\ status = "stale" /\ ~StillPublished(futures[n])
              /\ durable' = durable
           \/ /\ status = "refused"
              /\ durable' = durable
    BY DEF PersistIdentity, SkipIdentity, RefuseIdentity, Ends, store
  <1>2. /\ busy[e] # 0 /\ futures[n].status = "running"
        /\ futures[n].kind = "managed_team_identity"
        /\ UNCHANGED <<published, latest, executor, busy, publisher, working, row, lastGood, writes,
                       attempts, executors>>
    BY DEF PersistIdentity, SkipIdentity, RefuseIdentity, InHand, Ends, store
  <1>3. /\ n \in Pending
        /\ Pending' = Pending \ {n}
        /\ \A m \in Pending' : n < m
        /\ n = latest <=> Pending' = {}
        /\ futures' \in [Ids -> Checkpoints]
        /\ \A m \in Ids \ {n} : futures'[m] = futures[m]
        /\ futures'[n].status = status
        /\ OneExecutor'
        /\ LatestLast'
    BY <1>1, <1>2, Ending
  <1> HIDE DEF n
  <1>4. n \in Ids /\ n <= latest
    BY <1>0, <1>3 DEF Pending, Numbered
  (* The latest checkpoint is never skipped. *)
  <1>5. status = "stale" => n # latest
    BY <1>0, <1>1, <1>3 DEF LatestLast, StillPublished
  <1>6. /\ durable' \in Pointers /\ durable'.evidence = durable.evidence
        /\ status = "stored" => /\ durable'.state = futures[n].state
                                /\ durable'.state = published.state
                                /\ durable'.team = futures[n].team
                                /\ durable'.write = n
        /\ status # "stored" => durable' = durable
    <2>1. /\ futures[n] \in Checkpoints /\ n \in 0..MaxWrites /\ durable \in Pointers
      BY <1>0, <1>4 DEF Types
    <2>2. CASE status = "stored"
      <3>1. durable' = [state |-> futures[n].state, team |-> futures[n].team,
                        evidence |-> durable.evidence, write |-> n]
        BY <1>1, <2>1, <2>2 DEF Pointer, Checkpoints
      <3> QED
        BY <1>1, <2>1, <2>2, <3>1 DEF Checkpoints, Pointers, StillPublished
    <2>3. CASE status # "stored"
      BY <1>1, <2>1, <2>3
    <2> QED
      BY <2>2, <2>3
  <1>7. Types'
    BY <1>0, <1>2, <1>3, <1>6 DEF Types
  <1>8. Numbered'
    BY <1>0, <1>1, <1>2, <1>3, <1>4, <1>5, <1>6 DEF Numbered, Types, Pending
  <1>9. Behind'
    <2>1. Pending' = {} =>
            durable'.team = published.team \/ futures'[latest].status = "refused"
      BY <1>0, <1>1, <1>3, <1>5, <1>6 DEF LatestLast
    <2>2. Snapshots' = Snapshots
      BY <1>2, <1>3 DEF Snapshots, Pending
    <2>3. \A m \in Snapshots : futures'[m] = futures[m]
      BY <1>2, <1>3 DEF Snapshots, Pending
    <2>4. \A m \in Pending' : durable'.write < m
      BY <1>0, <1>1, <1>3, <1>6 DEF Behind
    <2>5. Says(durable) => Says(durable')
      BY <1>6 DEF Says
    <2> QED
      BY <1>0, <1>2, <1>3, <1>4, <2>1, <2>2, <2>3, <2>4, <2>5 DEF Behind, Says, Numbered, Pending
  <1> QED
    BY <1>3, <1>7, <1>8, <1>9 DEF Inv

LEMMA RetireStep == ASSUME Inv, NEW e \in Ids, Retire(e) PROVE Inv'
  <1>0. /\ MaxWrites \in Nat /\ Ids = 1..MaxWrites
        /\ Types /\ Numbered /\ OneExecutor /\ LatestLast /\ Behind
    BY Before
  <1>1. /\ busy[e] # 0 /\ futures[busy[e]].status \in {"stored", "stale", "refused"}
        /\ executor' = IF latest = busy[e] THEN 0 ELSE executor
        /\ busy' = [busy EXCEPT ![e] = 0]
        /\ UNCHANGED <<published, futures, latest, publisher, working, durable, row, lastGood,
                       writes, attempts, executors>>
    BY DEF Retire, Finished, IsLatest, store
  <1>2. e = executor /\ busy[e] \in Ids /\ \A d \in Ids : busy'[d] = 0
    BY <1>0, <1>1 DEF OneExecutor, Types
  <1>3. Pending' = Pending /\ Snapshots' = Snapshots
    BY <1>1 DEF Pending, Snapshots
  <1>4. executor' # executor => Pending = {}
    BY <1>0, <1>1 DEF LatestLast, Pending
  <1>5. \A m \in Ids : futures[m].status # "running"
    BY <1>0, <1>1, <1>2 DEF OneExecutor
  <1>6. Types'
    BY <1>0, <1>1 DEF Types
  <1>7. Numbered'
    BY <1>0, <1>1 DEF Numbered, Types
  <1>8. OneExecutor'
    BY <1>0, <1>1, <1>2, <1>3, <1>4, <1>5 DEF OneExecutor
  <1>9. LatestLast' /\ Behind'
    BY <1>0, <1>1, <1>3 DEF LatestLast, Behind, Says
  <1> QED
    BY <1>6, <1>7, <1>8, <1>9 DEF Inv

-----------------------------------------------------------------------------
(* Nothing but the store is written, the pointer either not at all or with  *)
(* the published context.                                                   *)
Writes ==
  \/ durable' = durable
  \/ durable' \in Pointers /\ durable'.write = durable.write /\ Says(durable')
     /\ durable'.team = published.team

LEMMA StoreStep ==
  ASSUME Inv, row' \in Rows, lastGood' \in Rows, Writes,
         attempts' \in 0..MaxAttempts,
         publisher' \in {"idle", "draining", "committing"},
         working' \in IF publisher' = "idle" THEN {None} ELSE States,
         publisher' = "committing" => Pending = {},
         publisher' # "idle" => writes < MaxWrites,
         UNCHANGED <<published, futures, latest, executor, busy, writes, executors>>
  PROVE  Inv'
  <1>0. /\ MaxWrites \in Nat /\ Ids = 1..MaxWrites
        /\ Types /\ Numbered /\ OneExecutor /\ LatestLast /\ Behind
    BY Before
  <1>1. Pending' = Pending /\ Snapshots' = Snapshots
    BY DEF Pending, Snapshots
  <1>2. durable' \in Pointers /\ durable'.write = durable.write
    BY <1>0 DEF Writes, Types
  <1>3. Types'
    BY <1>0, <1>2 DEF Types
  <1>4. Numbered' /\ OneExecutor' /\ LatestLast'
    BY <1>0, <1>1, <1>2 DEF Numbered, OneExecutor, LatestLast
  <1>5. Behind'
    <2>1. \A n \in Pending' : durable'.write < n
      BY <1>0, <1>1, <1>2 DEF Behind
    <2>2. Pending' = {} =>
            \/ durable'.team = published.team
            \/ latest # 0 /\ futures[latest].status = "refused"
      BY <1>0, <1>1 DEF Behind, Writes
    <2>3. Snapshots' = {} => Says(durable')
      BY <1>0, <1>1 DEF Behind, Writes, Says
    <2>4. \A n \in Snapshots' : (\A m \in Snapshots' : m <= n) => Says(futures'[n])
      BY <1>0, <1>1 DEF Behind
    <2>5. \A c : Says(c)' <=> Says(c')
      BY DEF Says
    <2> QED
      BY <2>1, <2>2, <2>3, <2>4 DEF Behind, Says
  <1> QED
    BY <1>3, <1>4, <1>5 DEF Inv

LEMMA BindStep == Inv /\ Bind => Inv'
  <1> SUFFICES ASSUME Inv, Bind PROVE Inv'
    OBVIOUS
  <1>0. /\ MaxWrites \in Nat /\ MaxAttempts \in Nat /\ Types /\ published \in Contexts
        /\ durable \in Pointers /\ durable.write \in 0..MaxWrites
        /\ row \in Rows /\ lastGood \in Rows /\ attempts \in 0..MaxAttempts
    BY Before DEF Types, Pointers
  <1>1. /\ publisher = "idle" /\ attempts < MaxAttempts /\ attempts' = attempts + 1
        /\ Put(published, durable.write)
        /\ UNCHANGED <<published, futures, latest, executor, busy, publisher, working, writes,
                       executors>>
    BY DEF Bind, LifecycleFree
  <1>2. /\ row' \in Rows /\ lastGood' \in Rows /\ durable' \in Pointers
        /\ durable'.state = published.state /\ durable'.team = published.team
        /\ durable'.evidence = published.evidence /\ durable'.write = durable.write
    BY <1>0, <1>1, Putting DEF Contexts
  <1>3. Writes
    BY <1>2 DEF Writes, Says
  <1>4. working' \in IF publisher' = "idle" THEN {None} ELSE States
    BY <1>0, <1>1 DEF Types
  <1> QED
    BY <1>0, <1>1, <1>2, <1>3, <1>4, StoreStep

LEMMA OtherUserStep == ASSUME Inv, NEW s \in States, OtherUser(s) PROVE Inv'
  <1>0. /\ MaxAttempts \in Nat /\ Types /\ Numbered /\ LatestLast
        /\ row \in Rows /\ lastGood \in Rows /\ attempts \in 0..MaxAttempts
    BY Before DEF Types
  <1>1. /\ attempts < MaxAttempts /\ attempts' = attempts + 1
        /\ row' = Observed(row, s)
        /\ UNCHANGED <<published, futures, latest, executor, busy, publisher, working, durable,
                       lastGood, writes, executors>>
    BY DEF OtherUser
  <1>2. row' \in Rows
    BY <1>0, <1>1, Observing DEF Maybe
  <1>3. /\ working' \in IF publisher' = "idle" THEN {None} ELSE States
        /\ publisher' \in {"idle", "draining", "committing"}
        /\ publisher' = "committing" => Pending = {}
        /\ publisher' # "idle" => writes < MaxWrites
    BY <1>0, <1>1 DEF Types, Numbered, LatestLast
  <1> QED
    BY <1>0, <1>1, <1>2, <1>3, StoreStep DEF Writes

(* A publication.                                                           *)
LEMMA PublicationStep ==
  Inv /\ ((\E s \in States : BeginPublication(s)) \/ Publication) => Inv'
  <1> SUFFICES ASSUME Inv, (\E s \in States : BeginPublication(s)) \/ Publication PROVE Inv'
    OBVIOUS
  <1>0. /\ MaxWrites \in Nat /\ MaxAttempts \in Nat /\ Ids = 1..MaxWrites
        /\ Types /\ Numbered /\ OneExecutor /\ LatestLast /\ Behind
        /\ published \in Contexts /\ row \in Rows /\ lastGood \in Rows
        /\ durable \in Pointers /\ durable.write \in 0..MaxWrites
        /\ attempts \in 0..MaxAttempts
    BY Before DEF Types, Pointers
  <1>1. ASSUME NEW s \in States, BeginPublication(s) PROVE Inv'
    <2>1. /\ writes < MaxWrites /\ attempts' \in 0..MaxAttempts
          /\ publisher' = "draining" /\ working' = s
          /\ UNCHANGED <<published, futures, latest, executor, busy, durable, row, lastGood,
                         writes, executors>>
      BY <1>0, <1>1 DEF BeginPublication, store
    <2> QED
      BY <1>0, <2>1, StoreStep DEF Writes
  <1>2. CASE Checkpointed
    <2>1. /\ publisher = "draining" /\ publisher' = "committing" /\ Outcome = "stored"
          /\ UNCHANGED <<published, futures, latest, executor, busy, working, writes, attempts,
                         executors>>
      BY <1>2 DEF Checkpointed
    <2>2. Pending = {}
      BY <1>0, <2>1 DEF Outcome, LatestLast, Pending
    <2>3. working \in States /\ working \in Maybe(States) /\ published.state \in Maybe(States)
          /\ published.team \in Maybe(Teams) /\ published.evidence \in 0..MaxWrites
      BY <1>0, <2>1 DEF Types, Maybe, Contexts
    <2>4. row' \in Rows /\ lastGood' \in Rows /\ Writes
      <3>1. CASE /\ durable' = Pointer(published, durable.write)
                 /\ row' = Observed(Observed(row, published.state), working)
                 /\ lastGood' = AsLastGood(published.state)
        <4>1. row' \in Rows
          BY <1>0, <2>3, <3>1, Observing
        <4>2. lastGood' \in Rows
          BY <1>0, <2>3, <3>1 DEF AsLastGood, Rows
        <4>3. Writes
          BY <1>0, <2>3, <3>1 DEF Writes, Pointer, Pointers, Says
        <4> QED
          BY <4>1, <4>2, <4>3
      <3>2. CASE /\ row' = Observed(row, working)
                 /\ UNCHANGED <<durable, lastGood>>
        BY <1>0, <2>3, <3>2, Observing DEF Writes
      <3> QED
        BY <1>2, <3>1, <3>2 DEF Checkpointed
    <2>5. writes < MaxWrites
      BY <1>0, <2>1 DEF Numbered
    <2> QED
      BY <1>0, <2>1, <2>2, <2>3, <2>4, <2>5, StoreStep
  <1>3. CASE Abandon
    <2>1. /\ publisher' = "idle" /\ working' = None
          /\ UNCHANGED <<published, futures, latest, executor, busy, durable, row, lastGood,
                         writes, attempts, executors>>
      BY <1>3 DEF Abandon, store
    <2> QED
      BY <1>0, <2>1, StoreStep DEF Writes
  <1>4. CASE Commit
    <2> DEFINE n == writes + 1
               g == IF published.state = working THEN published.generation
                    ELSE published.generation + 1
    <2>1. /\ publisher = "committing" /\ publisher' = "idle" /\ writes' = n /\ working' = None
          /\ published' = [published EXCEPT !.state = working, !.evidence = n, !.terminal = TRUE,
                                            !.generation = g]
          /\ Put(published', n)
          /\ UNCHANGED <<futures, latest, executor, busy, attempts, executors>>
      BY <1>4 DEF Commit
    <2>2. /\ n \in Ids /\ n \in 0..MaxWrites /\ g \in 0..n /\ g \in 0..MaxWrites
          /\ working \in Maybe(States)
      BY <1>0, <2>1 DEF Numbered, Types, Contexts, Maybe
    <2> HIDE DEF g, n
    <2>3. /\ published' \in Contexts /\ published'.state = working
          /\ published'.team = published.team /\ published'.evidence = n
          /\ published'.generation = g
      BY <1>0, <2>1, <2>2 DEF Contexts
    <2>4. /\ row' \in Rows /\ lastGood' \in Rows /\ durable' \in Pointers
          /\ durable'.state = published'.state /\ durable'.team = published'.team
          /\ durable'.evidence = published'.evidence /\ durable'.write = n
      <3>1. /\ published'.state \in Maybe(States) /\ published'.team \in Maybe(Teams)
            /\ published'.evidence \in 0..MaxWrites
        BY <2>3 DEF Contexts
      <3> HIDE DEF Put
      <3> QED
        BY <1>0, <2>1, <2>2, <3>1, Putting
    <2>5. Pending = {} /\ Pending' = {} /\ Snapshots' = {}
      BY <1>0, <2>1 DEF LatestLast, Pending, Snapshots
    <2>6. Types'
      BY <1>0, <2>1, <2>2, <2>3, <2>4 DEF Types
    <2>7. Numbered'
      BY <1>0, <2>1, <2>2, <2>3, <2>4 DEF Numbered, Types, n
    <2>8. OneExecutor'
      BY <1>0, <2>1, <2>5 DEF OneExecutor
    <2>9. LatestLast' /\ Behind'
      BY <2>1, <2>4, <2>5 DEF LatestLast, Behind, Says
    <2> QED
      BY <2>6, <2>7, <2>8, <2>9 DEF Inv
  <1> QED
    BY <1>1, <1>2, <1>3, <1>4 DEF Publication

LEMMA InvStep == Inv /\ [Next]_vars => Inv'
  <1> SUFFICES ASSUME Inv, [Next]_vars PROVE Inv'
    OBVIOUS
  <1>1. CASE UNCHANGED vars
    <2>1. Pending' = Pending /\ Snapshots' = Snapshots
      BY <1>1 DEF vars, store, Pending, Snapshots
    <2> QED
      BY <1>1, <2>1 DEF vars, store, Inv, Types, Numbered, OneExecutor, LatestLast, Behind, Says
  <1> QED
    BY <1>1, RequestStep, TakeStep, PersistContextStep, IdentityStep, RetireStep, PublicationStep,
       BindStep, OtherUserStep
    DEF Next, Persist

(* The strengthening is an invariant.                                       *)
THEOREM Invariance == Spec => []Inv
  <1>1. Init => Inv
    BY InitInv
  <1>2. Inv /\ [Next]_vars => Inv'
    BY InvStep
  <1> QED
    BY <1>1, <1>2, PTL DEF Spec

(* The queue's variables keep their types, and the latest checkpoint, until *)
(* it is done, is in the registered executor (persistent_runtime.py).       *)
THEOREM TypeCorrect == Spec => []TypeOK
  <1>1. Inv => TypeOK
    BY DEF Inv, Types, Contexts, Checkpoints, Pointers, Rows, OneExecutor, TypeOK
  <1> QED
    BY <1>1, Invariance, PTL

(* With nothing pending the durable pointer has the published State and     *)
(* evidence, whatever was cancelled, skipped or retired on the way, and     *)
(* whatever landed on a binding; it has the published team too, unless the  *)
(* last choice was refused (persist_runtime_identity).                      *)
THEOREM RestartFindsPublished == Spec => []SettledDurable
  <1>1. Inv => SettledDurable
    BY DEF Inv, LatestLast, Behind, Snapshots, Says, SettledDurable
  <1> QED
    BY <1>1, Invariance, PTL

(* Checkpoints and commits write the pointer in the order of submission: no *)
(* older checkpoint lands after a newer one, though executors are retired   *)
(* and made anew.  A binding keeps the number it finds.                     *)
THEOREM CheckpointsLandInOrder == Spec => WritesInOrder
  <1>1. Inv /\ [Next]_vars => [durable'.write >= durable.write]_vars
    <2> SUFFICES ASSUME Inv, Next PROVE durable'.write >= durable.write
      BY Before DEF vars, store, Types, Pointers
    <2>0. /\ MaxWrites \in Nat /\ Ids = 1..MaxWrites
          /\ Types /\ Numbered /\ OneExecutor /\ LatestLast /\ Behind
          /\ durable \in Pointers /\ durable.write \in 0..MaxWrites
      BY Before DEF Types, Pointers
    <2>1. ASSUME NEW e \in Ids, PersistContext(e) \/ PersistIdentity(e)
          PROVE  durable'.write >= durable.write
      <3>1. durable'.write = busy[e] /\ busy[e] # 0 /\ futures[busy[e]].status = "running"
        BY <2>1 DEF PersistContext, PersistIdentity, InHand, Put, Pointer
      <3>2. busy[e] \in Pending
        BY <2>0, <3>1 DEF Types, Pending
      <3> QED
        BY <2>0, <3>1, <3>2 DEF Behind, Pending
    <2>2. CASE Commit
      BY <2>0, <2>2 DEF Commit, Put, Pointer, Numbered, Types
    <2>3. CASE durable'.write = durable.write
      BY <2>0, <2>3
    <2>4. CASE Request
      BY <2>3, <2>4 DEF Request, Activate, Attach, SelectTeam, Submit
    <2>5. CASE Bind \/ Checkpointed \/ Abandon
      BY <2>3, <2>5 DEF Bind, Put, Pointer, Checkpointed, Abandon, store
    <2>6. ASSUME NEW s \in States, BeginPublication(s) \/ OtherUser(s)
          PROVE  durable'.write >= durable.write
      BY <2>3, <2>6 DEF BeginPublication, OtherUser, store
    <2>7. ASSUME NEW e \in Ids, Take(e) \/ SkipIdentity(e) \/ RefuseIdentity(e) \/ Retire(e)
          PROVE  durable'.write >= durable.write
      BY <2>3, <2>7 DEF Take, SkipIdentity, RefuseIdentity, Retire, store
    <2> QED
      BY <2>1, <2>2, <2>4, <2>5, <2>6, <2>7 DEF Next, Persist, Publication
  <1> QED
    BY <1>1, Invariance, PTL DEF Spec, WritesInOrder
-----------------------------------------------------------------------------
(* Ahead of a choice of team its State is in the league row, or was and a   *)
(* newer one is there, or is in a snapshot of the same executor to come.    *)
Covered(n) ==
  \/ Reaches(row, published.state)
  \/ \E m \in Snapshots : m < n /\ futures[m].state = published.state

Ahead ==
  /\ \A n \in Ids : futures[n].status # "none" => futures[n].state \in States
  /\ published.terminal => published.state \in States
  /\ \A n \in Ids : futures[n].generation <= published.generation
  /\ published.state # None => Covered(latest + 1)
  /\ \A n \in Pending \ Snapshots :
       futures[n].generation = published.generation =>
         futures[n].state = published.state /\ Covered(n)
  /\ latest # 0 /\ futures[latest].status = "refused" => Reaches(row, futures[latest].state)

LEMMA InitAhead == Init => Ahead
  <1> SUFFICES ASSUME Init PROVE Ahead
    OBVIOUS
  <1>1. \A n \in Ids : futures[n].status = "none" /\ futures[n].generation = 0
    BY DEF Init, NoCheckpoint
  <1>2. Pending = {}
    BY <1>1 DEF Pending
  <1> QED
    BY <1>1, <1>2 DEF Init, Ahead

(* An observation reaches its State, and what the row had reached.          *)
LEMMA ObservingReaches ==
  ASSUME NEW rows \in Rows, NEW t \in States
  PROVE  /\ Reaches(Observed(rows, t), t)
         /\ \A s \in States : Reaches(rows, s) => Reaches(Observed(rows, t), s)
  <1>1. /\ LeagueOf \in [States -> Leagues] /\ ObservedAt \in [States -> Nat]
        /\ None \notin States /\ LeagueOf[t] \in Leagues
    BY QueueAssumption
  <1> DEFINE held == rows[LeagueOf[t]]
             now == IF held # None /\ ObservedAt[held] > ObservedAt[t] THEN held ELSE t
  <1>2. /\ Observed(rows, t)[LeagueOf[t]] = now
        /\ \A l \in Leagues \ {LeagueOf[t]} : Observed(rows, t)[l] = rows[l]
    BY <1>1 DEF Observed, Rows
  <1>3. held \in Maybe(States)
    BY <1>1 DEF Rows
  <1>4. now \in States /\ ObservedAt[now] >= ObservedAt[t]
    BY <1>1, <1>3 DEF Maybe
  <1>5. ASSUME NEW s \in States, Reaches(rows, s) PROVE Reaches(Observed(rows, t), s)
    <2>1. LeagueOf[s] \in Leagues
      BY <1>1
    <2>2. CASE LeagueOf[s] = LeagueOf[t]
      <3>1. held # None /\ held \in States /\ ObservedAt[held] >= ObservedAt[s]
        BY <1>3, <1>5, <2>2 DEF Reaches, Maybe
      <3>2. ObservedAt[now] >= ObservedAt[s]
        BY <1>1, <3>1
      <3> QED
        BY <1>1, <1>2, <1>4, <2>2, <3>2 DEF Reaches
    <2>3. CASE LeagueOf[s] # LeagueOf[t]
      BY <1>2, <1>5, <2>1, <2>3 DEF Reaches
    <2> QED
      BY <2>2, <2>3
  <1> QED
    BY <1>1, <1>2, <1>4, <1>5 DEF Reaches

(* A step that publishes nothing and submits nothing: a snapshot that ends  *)
(* has reached the row, and so has the State of a refused choice.           *)
LEMMA AheadKept ==
  ASSUME Inv, Ahead,
         \A s \in States : Reaches(row, s) => Reaches(row', s),
         UNCHANGED <<published, latest>>,
         \A n \in Ids : /\ futures'[n].kind = futures[n].kind
                        /\ futures'[n].state = futures[n].state
                        /\ futures'[n].generation = futures[n].generation
                        /\ futures'[n].status # "none" => futures[n].status # "none",
         Pending' \subseteq Pending,
         \A m \in Snapshots \ Pending' : Reaches(row', futures[m].state),
         latest # 0 /\ futures'[latest].status = "refused" =>
           \/ futures[latest].status = "refused"
           \/ Reaches(row', futures[latest].state)
  PROVE  Ahead'
  <1>0. /\ latest \in 0..MaxWrites /\ published.state \in Maybe(States) /\ Ids = 1..MaxWrites
        /\ MaxWrites \in Nat
    BY Before DEF Types, Contexts
  <1>1. Snapshots' = Snapshots \cap Pending'
    BY DEF Snapshots, Pending
  <1>2. ASSUME NEW n, published.state # None, Covered(n) PROVE Covered(n)'
    <2>1. published.state \in States
      BY <1>0, <1>2 DEF Maybe
    <2>2. CASE Reaches(row, published.state)
      BY <2>1, <2>2 DEF Covered, Reaches
    <2>3. ASSUME NEW m \in Snapshots, m < n, futures[m].state = published.state PROVE Covered(n)'
      <3>1. m \in Ids
        BY DEF Snapshots, Pending
      <3>2. CASE m \in Pending'
        BY <1>1, <2>3, <3>1, <3>2 DEF Covered
      <3>3. CASE m \notin Pending'
        BY <2>3, <3>3 DEF Covered, Reaches
      <3> QED
        BY <3>2, <3>3
    <2> QED
      BY <1>2, <2>2, <2>3 DEF Covered
  <1>3. /\ \A n \in Ids : futures'[n].status # "none" => futures'[n].state \in States
        /\ published'.terminal => published'.state \in States
        /\ \A n \in Ids : futures'[n].generation <= published'.generation
    BY DEF Ahead
  <1>4. published'.state # None => Covered(latest + 1)'
    BY <1>0, <1>2 DEF Ahead
  <1>5. ASSUME NEW n \in Pending' \ Snapshots', futures'[n].generation = published'.generation
        PROVE  futures'[n].state = published'.state /\ Covered(n)'
    <2>1. n \in Ids /\ n \in Pending \ Snapshots /\ futures[n].status # "none"
      BY <1>1, <1>5 DEF Pending
    <2>2. futures[n].state = published.state /\ Covered(n)
      BY <1>5, <2>1 DEF Ahead
    <2>3. published.state # None
      BY <2>1, <2>2, QueueAssumption DEF Ahead
    <2> QED
      BY <1>2, <2>1, <2>2, <2>3
  <1>6. latest' # 0 /\ futures'[latest'].status = "refused" =>
          Reaches(row', futures'[latest'].state)
    <2> SUFFICES ASSUME latest # 0, futures'[latest].status = "refused"
                 PROVE  Reaches(row', futures'[latest].state)
      OBVIOUS
    <2>1. latest \in Ids /\ futures[latest].state \in States
      BY <1>0, <1>3 DEF Ahead
    <2> QED
      BY <2>1 DEF Ahead
  <1> QED
    BY <1>3, <1>4, <1>5, <1>6 DEF Ahead, Reaches

LEMMA RequestAhead == Inv /\ Ahead /\ Request => Ahead'
  <1> SUFFICES ASSUME Inv, Ahead, Request PROVE Ahead'
    OBVIOUS
  <1>0. /\ MaxWrites \in Nat /\ Ids = 1..MaxWrites /\ latest \in 0..MaxWrites /\ Numbered
        /\ \A m \in Ids : futures[m] \in Checkpoints
        /\ published \in Contexts /\ writes \in 0..MaxWrites
    BY Before DEF Types
  <1>n. PICK n : n = writes + 1
    OBVIOUS
  <1>1. PICK kind \in {"snapshot", "managed_team_identity"} : Requested(kind)
    BY Requests
  <1>2. /\ published'.state \in States /\ published'.state \in Maybe(States)
        /\ published'.generation >= published.generation
        /\ published'.state # published.state => published'.generation # published.generation
        /\ published'.generation \in 0..n
        /\ kind = "snapshot" \/ published'.state = published.state
    BY <1>1, <1>n DEF Requested, Maybe, Says
  <1>3. /\ n \in Ids /\ latest' = n /\ row' = row
        /\ futures'[n].status = "queued" /\ futures'[n].kind = kind
        /\ futures'[n].state = published'.state
        /\ futures'[n].generation = published'.generation
        /\ \A m \in Ids : futures[m].status # "none" => m < n
        /\ n \in Pending'
        /\ \A m \in Pending' : m = n \/ (m \in Pending /\ futures'[m] = futures[m])
        /\ \A m \in Ids \ {n} :
             \/ futures'[m] = futures[m]
             \/ /\ m = latest /\ futures[m].status = "queued" /\ futures[m].kind = kind
                /\ futures'[m] = [futures[m] EXCEPT !.status = "cancelled"]
    BY <1>1, <1>2, <1>n, Submitting DEF Requested
  <1>4. \A m \in Ids \ {n} :
          /\ futures'[m].state = futures[m].state
          /\ futures'[m].generation = futures[m].generation
          /\ futures'[m].status # "none" => futures[m].status # "none"
    BY <1>0, <1>3 DEF Checkpoints
  <1>5. /\ \A m \in Ids : futures'[m].status # "none" => futures'[m].state \in States
        /\ \A m \in Ids : futures'[m].generation <= published'.generation
    <2>1. \A m \in Ids : futures[m].generation \in 0..MaxWrites
      BY <1>0 DEF Checkpoints
    <2>2. published.generation \in 0..MaxWrites /\ n \in 0..MaxWrites
      BY <1>0, <1>3 DEF Contexts
    <2>3. ASSUME NEW m \in Ids PROVE futures'[m].generation <= published'.generation
      <3>1. CASE m = n
        BY <1>2, <1>3, <2>2, <3>1
      <3>2. CASE m # n
        BY <1>0, <1>2, <1>4, <2>1, <2>2, <3>2 DEF Ahead
      <3> QED
        BY <3>1, <3>2
    <2> QED
      BY <1>2, <1>3, <1>4, <2>3 DEF Ahead
  (* A snapshot of the State, or what covered the State before. *)
  <1>6. Covered(n + 1)'
    <2>1. CASE kind = "snapshot"
      <3>1. n \in Snapshots' /\ n < n + 1
        BY <1>0, <1>3, <2>1 DEF Snapshots
      <3> QED
        BY <1>3, <3>1 DEF Covered
    <2>2. CASE kind # "snapshot"
      <3>1. published.state # None /\ published'.state = published.state
        BY <1>2, <2>2, QueueAssumption
      <3>2. Covered(latest + 1)
        BY <3>1 DEF Ahead
      <3>3. CASE Reaches(row, published.state)
        BY <1>3, <3>1, <3>3 DEF Covered, Reaches
      <3>4. ASSUME NEW m \in Snapshots, futures[m].state = published.state PROVE Covered(n + 1)'
        <4>1. m \in Ids /\ m < n /\ futures[m].kind = "snapshot" /\ futures[m].status # "none"
          BY <1>3 DEF Snapshots, Pending
        <4>2. futures'[m] = futures[m]
          <5>1. m # n
            BY <1>0, <1>3, <4>1
          <5>2. futures'[m] = futures[m] \/ futures[m].kind = kind
            BY <1>3, <4>1, <5>1
          <5> QED
            BY <2>2, <4>1, <5>2
        <4>3. m \in Snapshots' /\ m < n + 1
          BY <1>0, <1>3, <4>1, <4>2 DEF Snapshots, Pending
        <4> QED
          BY <3>1, <3>4, <4>2, <4>3 DEF Covered
      <3> QED
        BY <3>2, <3>3, <3>4 DEF Covered
    <2> QED
      BY <2>1, <2>2
  <1>7. ASSUME NEW m \in Pending' \ Snapshots', futures'[m].generation = published'.generation
        PROVE  futures'[m].state = published'.state /\ Covered(m)'
    <2>1. CASE m = n
      <3>1. kind # "snapshot"
        BY <1>3, <1>7, <2>1 DEF Snapshots
      <3>2. CASE Reaches(row', published'.state)
        BY <1>3, <2>1, <3>2 DEF Covered, Reaches
      <3>3. ASSUME NEW k \in Snapshots', futures'[k].state = published'.state PROVE Covered(m)'
        <4>1. k # n /\ k \in Ids /\ k \in Pending
          BY <1>3, <3>1 DEF Snapshots, Pending
        <4>2. k < m
          BY <1>3, <2>1, <4>1 DEF Pending
        <4> QED
          BY <3>3, <4>2 DEF Covered
      <3> QED
        BY <1>3, <1>6, <2>1, <3>2, <3>3 DEF Covered, Reaches
    <2>2. CASE m # n
      <3>1. m \in Ids /\ m \in Pending /\ futures'[m] = futures[m] /\ m \notin Snapshots
        BY <1>3, <1>7, <2>2 DEF Snapshots, Pending
      <3>2. published'.generation = published.generation /\ published'.state = published.state
        <4>1. /\ futures[m].generation \in 0..MaxWrites /\ published.generation \in 0..MaxWrites
              /\ futures[m].generation <= published.generation
              /\ futures[m].generation = published'.generation
          BY <1>0, <1>7, <3>1 DEF Checkpoints, Contexts, Ahead
        <4> QED
          BY <1>2, <4>1
      <3>3. futures[m].state = published.state /\ Covered(m)
        BY <1>7, <3>1, <3>2 DEF Ahead
      <3>4. CASE Reaches(row, published.state)
        BY <1>3, <3>1, <3>2, <3>3, <3>4 DEF Covered, Reaches
      <3>5. ASSUME NEW k \in Snapshots, k < m, futures[k].state = published.state
            PROVE  Covered(m)'
        <4>1. /\ k \in Ids /\ k \in Pending /\ k # n
              /\ futures[m].status # "none" /\ m <= latest
          BY <1>0, <1>3, <3>1 DEF Snapshots, Pending, Numbered
        <4>2. k # latest
          BY <1>0, <3>1, <3>5, <4>1
        <4>3. futures'[k] = futures[k]
          BY <1>3, <4>1, <4>2
        <4>4. k \in Snapshots'
          BY <4>1, <4>3 DEF Snapshots, Pending
        <4> QED
          BY <3>2, <3>5, <4>3, <4>4 DEF Covered
      <3> QED
        BY <3>1, <3>2, <3>3, <3>4, <3>5 DEF Covered
    <2> QED
      BY <2>1, <2>2
  <1> QED
    BY <1>2, <1>3, <1>5, <1>6, <1>7 DEF Ahead

LEMMA WorkerAhead == ASSUME Inv, Ahead, NEW e \in Ids, Persist(e) PROVE Ahead'
  <1>0. /\ MaxWrites \in Nat /\ Ids = 1..MaxWrites
        /\ Types /\ Numbered /\ OneExecutor
        /\ \A m \in Ids : futures[m] \in Checkpoints
        /\ futures \in [Ids -> Checkpoints] /\ row \in Rows /\ latest \in 0..MaxWrites
    BY Before DEF Types
  <1>1. CASE Take(e)
    <2>1. PICK n \in Queued(e) : futures' = [futures EXCEPT ![n].status = "running"]
      BY <1>1 DEF Take
    <2>2. n \in Ids /\ futures[n].status = "queued" /\ n \in Pending
      BY <2>1 DEF Queued, Pending
    <2>3. UNCHANGED <<published, latest, row>>
      BY <1>1 DEF Take, store
    <2> DEFINE c == [futures[n] EXCEPT !.status = "running"]
    <2>4. /\ c.status = "running" /\ c.kind = futures[n].kind
          /\ c.state = futures[n].state /\ c.generation = futures[n].generation
      BY <1>0, <2>2, Restated DEF Status
    <2>5. futures'[n] = c /\ \A m \in Ids \ {n} : futures'[m] = futures[m]
      BY <1>0, <2>1, <2>2
    <2> HIDE DEF c
    <2>6. Pending' = Pending
      BY <2>2, <2>4, <2>5 DEF Pending
    <2>7. \A m \in Ids : /\ futures'[m].kind = futures[m].kind
                         /\ futures'[m].state = futures[m].state
                         /\ futures'[m].generation = futures[m].generation
                         /\ futures'[m].status # "none" => futures[m].status # "none"
      BY <2>2, <2>4, <2>5
    <2>8. latest # 0 /\ futures'[latest].status = "refused" => futures[latest].status = "refused"
      BY <1>0, <2>4, <2>5
    <2> QED
      BY <2>3, <2>6, <2>7, <2>8, AheadKept DEF Snapshots
  <1>2. CASE PersistContext(e) \/ PersistIdentity(e) \/ SkipIdentity(e) \/ RefuseIdentity(e)
    <2> DEFINE n == busy[e]
    <2>1. PICK status \in {"stored", "stale", "refused"} :
          /\ futures' = [futures EXCEPT ![n].status = status]
          /\ status = "refused" => RefuseIdentity(e)
      BY <1>2 DEF PersistContext, PersistIdentity, SkipIdentity, RefuseIdentity, Ends
    <2>2. /\ n # 0 /\ futures[n].status = "running"
          /\ UNCHANGED <<published, latest, executor, busy, publisher, working, writes, attempts,
                         executors>>
      BY <1>2 DEF PersistContext, PersistIdentity, SkipIdentity, RefuseIdentity, InHand, Ends
    <2>3. \/ futures[n].kind = "snapshot" /\ row' = Observed(row, futures[n].state)
          \/ futures[n].kind = "managed_team_identity" /\ row' = row
      BY <1>2 DEF PersistContext, PersistIdentity, SkipIdentity, RefuseIdentity, InHand, Put, store
    <2>4. /\ n \in Pending /\ Pending' = Pending \ {n}
          /\ \A m \in Pending' : n < m
          /\ \A m \in Ids \ {n} : futures'[m] = futures[m]
          /\ futures'[n].status = status
          /\ \A m \in Ids : /\ futures'[m].kind = futures[m].kind
                            /\ futures'[m].state = futures[m].state
                            /\ futures'[m].generation = futures[m].generation
      BY <2>1, <2>2, Ending
    <2> HIDE DEF n
    <2>5. n \in Ids /\ futures[n].state \in States
      BY <2>2, <2>4 DEF Ahead, Pending
    <2>6. \A s \in States : Reaches(row, s) => Reaches(row', s)
      BY <1>0, <2>3, <2>5, ObservingReaches
    <2>7. \A m \in Snapshots \ Pending' : Reaches(row', futures[m].state)
      <3>1. \A m \in Snapshots \ Pending' : m = n /\ futures[m].kind = "snapshot"
        BY <2>4 DEF Snapshots
      <3> QED
        BY <1>0, <2>3, <2>5, <3>1, ObservingReaches
    (* The choice in hand is the oldest checkpoint: no snapshot is to come   *)
    (* before it, so its State has reached the row.                          *)
    <2>8. status = "refused" => Reaches(row', futures[n].state)
      <3> SUFFICES ASSUME RefuseIdentity(e) PROVE Reaches(row', futures[n].state)
        BY <2>1
      <3>1. /\ futures[n].kind = "managed_team_identity"
            /\ futures[n].generation = published.generation /\ row' = row
        BY DEF RefuseIdentity, InHand, StillPublished, store, n
      <3>2. n \in Pending \ Snapshots
        BY <2>4, <3>1 DEF Snapshots
      <3>3. futures[n].state = published.state /\ Covered(n)
        BY <3>1, <3>2 DEF Ahead
      <3>4. ~ \E m \in Snapshots : m < n
        <4>1. \A m \in Snapshots : m \in Ids /\ (m = n \/ m \in Pending')
          BY <2>4 DEF Snapshots, Pending
        <4> QED
          BY <1>0, <2>4, <2>5, <4>1
      <3> QED
        BY <3>1, <3>3, <3>4 DEF Covered
    <2>9. latest # 0 /\ futures'[latest].status = "refused" =>
            futures[latest].status = "refused" \/ Reaches(row', futures[latest].state)
      BY <1>0, <2>4, <2>8
    <2>10. \A m \in Ids : futures'[m].status # "none" => futures[m].status # "none"
      BY <2>2, <2>4
    <2> QED
      BY <2>2, <2>4, <2>6, <2>7, <2>9, <2>10, AheadKept
  <1>3. CASE Retire(e)
    <2>1. UNCHANGED <<published, latest, futures, row>> /\ Pending' = Pending
      BY <1>3 DEF Retire, store, Pending
    <2> QED
      BY <2>1, AheadKept DEF Snapshots
  <1> QED
    BY <1>1, <1>2, <1>3 DEF Persist

(* What writes the store beside the worker observes States in its rows.     *)
LEMMA StoreAhead ==
  ASSUME Inv, Ahead, UNCHANGED <<published, futures, latest>>,
         \/ row' = row
         \/ \E t \in States : row' = Observed(row, t)
         \/ \E t, u \in States : row' = Observed(Observed(row, t), u)
  PROVE  Ahead'
  <1>0. row \in Rows
    BY Before DEF Types
  <1>1. \A t \in States : t \in Maybe(States) /\ Observed(row, t) \in Rows
    BY <1>0, Observing DEF Maybe
  <1>2. \A s \in States : Reaches(row, s) => Reaches(row', s)
    <2>1. CASE \E t \in States : row' = Observed(row, t)
      BY <1>0, <2>1, ObservingReaches
    <2>2. ASSUME NEW t \in States, NEW u \in States, row' = Observed(Observed(row, t), u)
          PROVE  \A s \in States : Reaches(row, s) => Reaches(row', s)
      <3> DEFINE rows == Observed(row, t)
      <3>1. rows \in Rows /\ \A s \in States : Reaches(row, s) => Reaches(rows, s)
        BY <1>0, <1>1, ObservingReaches
      <3> HIDE DEF rows
      <3>2. \A s \in States : Reaches(rows, s) => Reaches(Observed(rows, u), s)
        BY <3>1, ObservingReaches
      <3> QED
        BY <2>2, <3>1, <3>2 DEF rows
    <2> QED
      BY <2>1, <2>2
  <1>3. Pending' = Pending
    BY DEF Pending
  <1> QED
    BY <1>2, <1>3, AheadKept DEF Snapshots

LEMMA CommitAhead == ASSUME Inv, Ahead, Commit PROVE Ahead'
  <1> DEFINE g == IF published.state = working THEN published.generation
                  ELSE published.generation + 1
  <1>0. /\ MaxWrites \in Nat /\ Ids = 1..MaxWrites /\ LatestLast /\ row \in Rows
        /\ publisher = "committing" /\ working \in States /\ published \in Contexts
        /\ \A m \in Ids : futures[m] \in Checkpoints
        /\ latest \in 0..MaxWrites
    BY Before DEF Types, Commit
  <1>1. /\ published' = [published EXCEPT !.state = working, !.evidence = writes + 1,
                                          !.terminal = TRUE, !.generation = g]
        /\ row' = Observed(row, published'.state)
        /\ UNCHANGED <<futures, latest>>
    BY DEF Commit, Put
  <1> HIDE DEF g
  <1>2. published'.state = working /\ published'.generation = g
    BY <1>0, <1>1 DEF Contexts
  <1>3. /\ Reaches(row', published'.state)
        /\ \A s \in States : Reaches(row, s) => Reaches(row', s)
    BY <1>0, <1>1, <1>2, ObservingReaches
  <1>4. Pending' = {}
    BY <1>0, <1>1 DEF LatestLast, Pending
  <1>5. \A n \in Ids : futures'[n].generation <= published'.generation
    <2>1. \A n \in Ids : futures[n].generation \in 0..MaxWrites
      BY <1>0 DEF Checkpoints
    <2>2. g \in Nat /\ g >= published.generation /\ published.generation \in 0..MaxWrites
      BY <1>0 DEF Contexts, g
    <2> QED
      BY <1>0, <1>1, <1>2, <2>1, <2>2 DEF Ahead
  <1>6. latest # 0 /\ futures[latest].status = "refused" => Reaches(row', futures[latest].state)
    BY <1>0, <1>3 DEF Ahead
  <1> QED
    BY <1>0, <1>1, <1>2, <1>3, <1>4, <1>5, <1>6 DEF Ahead, Covered, Reaches

LEMMA AheadStep == Inv /\ Ahead /\ [Next]_vars => Ahead'
  <1> SUFFICES ASSUME Inv, Ahead, [Next]_vars PROVE Ahead'
    OBVIOUS
  <1>0. Types /\ published.terminal => published.state \in States
    BY Before DEF Ahead
  <1>1. CASE UNCHANGED vars
    BY <1>1, StoreAhead DEF vars, store
  <1>2. ASSUME NEW s \in States, BeginPublication(s) \/ OtherUser(s) PROVE Ahead'
    BY <1>2, StoreAhead DEF BeginPublication, OtherUser, store
  <1>3. CASE Bind
    BY <1>0, <1>3, Before, StoreAhead DEF Bind, Put
  <1>4. CASE Checkpointed
    <2>1. working \in States
      BY <1>4, Before DEF Checkpointed, Types
    <2> QED
      BY <1>0, <1>4, <2>1, Before, StoreAhead DEF Checkpointed
  <1>5. CASE Abandon
    BY <1>5, StoreAhead DEF Abandon, store
  <1> QED
    BY <1>1, <1>2, <1>3, <1>4, <1>5, RequestAhead, WorkerAhead, CommitAhead
    DEF Next, Publication

(* A choice of team, on its way to the store, always finds its State or a   *)
(* newer one in the league row, or a snapshot of it ahead in the queue.     *)
THEOREM StatesGoAhead == Spec => []Ahead
  <1>1. Init => Inv /\ Ahead
    BY InitInv, InitAhead
  <1>2. (Inv /\ Ahead) /\ [Next]_vars => (Inv /\ Ahead)'
    BY InvStep, AheadStep
  <1> QED
    BY <1>1, <1>2, PTL DEF Spec

(* No publication waits for a checkpoint that was cancelled or skipped, and *)
(* a choice of team is refused only where its State, or a newer one, was    *)
(* durable before it (_persist_managed_team_identity).                      *)
THEOREM BarrierIsHonest == Spec => []BarrierHonest
  <1>1. Inv /\ Ahead => BarrierHonest
    BY DEF Inv, Numbered, Ahead, BarrierHonest
  <1> QED
    BY <1>1, Invariance, StatesGoAhead, PTL

=============================================================================
