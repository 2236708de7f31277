----------------------------- MODULE JobsProofs -----------------------------
(* That no slot is lost or given back twice and no phantom job is shown,    *)
(* for any users, callers, workers and bounds; that what is under way is    *)
(* retained and never doubled as long as nobody polls; and that with one    *)
(* worker besides, the durable row of a user's current job is what the      *)
(* process shows.  The argument: job numbers are issued once, so a          *)
(* submission meets a Future that was never there; a job leaves the         *)
(* executor only after it ended; who holds a user's lock is alone in        *)
(* moving the user.                                                         *)
EXTENDS IntelligenceJobs, FiniteSetTheorems, WellFoundedInduction, TLAPS

(* A job, or a row of one, made so far.                                     *)
Made ==
  [id : 1..issued, user : Users, state : StateIds, status : Active \cup Ended, at : 0..clock]

Pcs == {"idle", "locking", "restoring", "marking", "installing", "deciding",
        "persisting", "submitting", "failing"}
Futures == {"none", "pending", "running", "ending", "cancelled"}

CallsMade ==
  [pc : Pcs, user : Maybe(Users), state : Maybe(StateIds), coalesce : BOOLEAN,
   now : 0..clock, job : Maybe(Made)]

RowTypes ==
  /\ jobs \in [JobIds -> Maybe(Made)]
  /\ write \in [JobIds -> Maybe(Made)]
  /\ durable \in [JobIds -> Maybe(Made)]
  /\ \A j \in JobIds : /\ jobs[j] # None => jobs[j].id = j
                       /\ durable[j] # None => durable[j].id = j

PlainTypes ==
  /\ current \in [Users -> Maybe(JobIds)]
  /\ userLock \in [Users -> Maybe(Callers \cup JobIds)]
  /\ future \in [JobIds -> Futures]
  /\ slots \in Nat /\ clock \in Nat
  /\ issued \in 0..MaxJobs /\ restarts \in 0..MaxRestarts

Types == RowTypes /\ PlainTypes /\ call \in [Callers -> CallsMade]

(* What a call has in hand where it is.                                     *)
Asks == {"locking", "restoring", "marking", "installing", "deciding"}
Admits == {"persisting", "submitting", "failing"}

CallSound(c) ==
  LET k == call[c]
  IN  /\ k.pc # "idle" => k.user \in Users /\ (c \in Starters => k.state \in StateIds)
      /\ k.pc \in Admits \cup {"locking", "deciding"} => c \in Starters
      /\ k.pc \in Admits \cup {"marking", "installing"} => k.job # None /\ k.job.user = k.user
      /\ k.pc \in {"marking", "installing"} => ~IsActive(k.job)
      /\ k.pc \in Admits => future[k.job.id] = "none"
      /\ k.pc = "failing" =>
           /\ ~IsActive(jobs[k.job.id])
           /\ write[k.job.id] # None => write[k.job.id].id = k.job.id

CallsSound ==
  /\ \A c \in Callers : CallSound(c)
  /\ \A c, d \in Admitting : call[c].job.id = call[d].job.id => c = d

(* A Future is of a job that was made, and ends after its job.              *)
FuturesSound ==
  \A j \in JobIds :
    /\ future[j] # "none" => j <= issued
    /\ future[j] \in {"ending", "cancelled"} => ~IsActive(jobs[j])

(* The job numbers left are enough for the calls that may take one.         *)
Asking == {c \in Starters : call[c].pc \in Asks}
Enough == issued + Cardinality(Asking) <= MaxJobs

Inv == Types /\ CallsSound /\ FuturesSound /\ Enough /\ SlotsAccounted /\ NoPhantom

-----------------------------------------------------------------------------
LEMMA Facts ==
  /\ MaxJobs \in Nat /\ MaxRestarts \in Nat /\ Capacity \in Nat
  /\ JobIds = 1..MaxJobs /\ IsFiniteSet(JobIds)
  /\ IsFiniteSet(Callers) /\ IsFiniteSet(Starters) /\ Starters \subseteq Callers
  /\ None \notin Users /\ None \notin StateIds /\ None \notin JobIds /\ None \notin Callers
  /\ Starters \cap Pollers = {}
  <1>1. MaxJobs \in Nat /\ IsFiniteSet(1..MaxJobs)
    BY JobsAssumption, FS_Interval
  <1>2. Starters \subseteq Callers /\ IsFiniteSet(Starters)
    BY JobsAssumption, FS_Subset DEF Callers
  <1> QED
    BY <1>1, <1>2, JobsAssumption DEF JobIds, Capacity

LEMMA MadeIsJob ==
  ASSUME issued \in 0..MaxJobs, clock \in Nat
  PROVE  Made \subseteq Jobs /\ None \notin Made
  BY NoneAssumption, Facts DEF Made, Jobs

(* The row that latest finds is a row.                                      *)
LEMMA LatestIsRow ==
  ASSUME Types, NEW u \in Users, Rows(u) # {}
  PROVE  Latest(u) \in Rows(u)
  <1> DEFINE R == {ss \in Nat \X Nat : ss[1] < ss[2]}
             T == {clock - durable[j].at : j \in Rows(u)}
  <1>1. IsWellFoundedOn(R, Nat)
    BY NatLessThanWellFounded DEF OpToRel
  <1>2. \A j \in Rows(u) : durable[j].at \in 0..clock /\ clock \in Nat
    BY DEF Rows, Types, RowTypes, PlainTypes, Maybe, Made
  <1>3. T \subseteq Nat /\ T # {}
    BY <1>2
  <1>4. PICK x \in T : \A y \in T : <<y, x>> \notin R
    BY <1>1, <1>3, WFMin
  <1>5. PICK j \in Rows(u) : x = clock - durable[j].at
    BY <1>4
  <1>6. \A k \in Rows(u) : durable[k].at <= durable[j].at
    <2>1. ASSUME NEW k \in Rows(u), ~(durable[k].at <= durable[j].at) PROVE FALSE
      <3>1. clock - durable[k].at \in T /\ clock - durable[k].at < x
        BY <1>2, <1>5, <2>1
      <3>2. <<clock - durable[k].at, x>> \in R
        BY <1>3, <3>1
      <3> QED
        BY <1>4, <3>1, <3>2
    <2> QED
      BY <2>1
  <1> QED
    BY <1>6 DEF Latest

LEMMA InitInv == Init => Inv
  <1> SUFFICES ASSUME Init PROVE Inv
    OBVIOUS
  <1>1. Types
    BY Facts DEF Init, Fresh, Types, RowTypes, PlainTypes, CallsMade, Idle, Pcs, Futures, Maybe
  <1>2. CallsSound /\ FuturesSound
    BY DEF Init, Fresh, CallsSound, CallSound, FuturesSound, Idle, Admitting, Admits
  <1>3. Asking = {} /\ Live = {} /\ Admitting = {} /\ Known = {}
    BY Facts DEF Init, Fresh, Asking, Live, Admitting, Known, Idle, Asks
  <1> QED
    BY <1>1, <1>2, <1>3, FS_EmptySet, Facts
    DEF Init, Fresh, Inv, Enough, SlotsAccounted, NoPhantom

-----------------------------------------------------------------------------
(* Time and the numbers issued only grow, within their bounds.              *)
LEMMA RoomLeft ==
  ASSUME Types, Enough, NEW c \in Starters, call[c].pc \in Asks
  PROVE  issued + 1 \in 0..MaxJobs
  <1>1. c \in Asking /\ IsFiniteSet(Asking)
    BY Facts, FS_Subset DEF Asking
  <1>2. Cardinality(Asking) \in Nat /\ Cardinality(Asking) # 0
    BY <1>1, FS_CardinalityType, FS_EmptySet
  <1> QED
    BY <1>2, Facts DEF Enough, Types, PlainTypes

LEMMA Growth ==
  ASSUME Inv, [Next]_vars
  PROVE  /\ clock' \in Nat /\ clock <= clock'
         /\ issued' \in 0..MaxJobs /\ issued <= issued'
         /\ Made \subseteq Made' /\ None \notin Made'
         /\ restarts' \in 0..MaxRestarts
         /\ CallsMade \subseteq CallsMade'
  <1>0. /\ clock \in Nat /\ issued \in 0..MaxJobs /\ MaxJobs \in Nat /\ restarts \in 0..MaxRestarts
        /\ MaxRestarts \in Nat
    BY Facts DEF Inv, Types, PlainTypes
  <1> DEFINE Clocks == clock' = clock \/ clock' = clock + 1
  <1>1. ASSUME NEW c \in Callers, Proceed(c)
        PROVE  Clocks /\ restarts' = restarts /\ (issued' = issued \/ Register(c))
    BY <1>1 DEF Proceed, RestoreNothing, RestoreEnded, RestoreActive, Mark, Install, Enter,
                Join, Busy, Persist, Submit, SubmitFails, SubmitFailed, Register, Update, Tick
  <1>2. ASSUME NEW c \in Callers, Register(c) PROVE issued' = issued + 1 /\ issued + 1 \in 0..MaxJobs
    <2>1. c \in Starters /\ call[c].pc \in Asks
      BY <1>2 DEF Register, At, Inv, CallsSound, CallSound, Asks
    <2> QED
      BY <1>2, <2>1, RoomLeft DEF Inv, Register
  <1>3. ASSUME NEW j \in JobIds,
               Work(j) \/ Report(j) \/ Cancel(j) \/ \E s \in StateIds : Resync(j, s)
        PROVE  Clocks /\ UNCHANGED <<issued, restarts>>
    BY <1>3 DEF Work, Begin, Save, Finish, End, Report, Cancel, Resync, Update, Tick
  <1>4. ASSUME NEW c \in Pollers, NEW u \in Users, Poll(c, u)
        PROVE  Clocks /\ UNCHANGED <<issued, restarts>>
    BY <1>4 DEF Poll
  <1>5. ASSUME NEW c \in Starters, NEW u \in Users, NEW s \in StateIds, NEW b \in BOOLEAN,
               Start(c, u, s, b)
        PROVE  Clocks /\ UNCHANGED <<issued, restarts>>
    BY <1>5 DEF Start, Tick
  <1>8. /\ Clocks
        /\ issued' = issued \/ (issued' = issued + 1 /\ issued + 1 \in 0..MaxJobs)
        /\ restarts' \in 0..MaxRestarts
    <2>1. CASE UNCHANGED vars
      BY <1>0, <2>1 DEF vars
    <2>2. CASE Restart
      BY <1>0, <2>2 DEF Restart
    <2>3. ASSUME NEW c \in Callers, Proceed(c) PROVE <1>8
      BY <1>0, <1>1, <1>2, <2>3
    <2> QED
      BY <1>0, <1>3, <1>4, <1>5, <2>1, <2>2, <2>3 DEF Next
  <1>9. /\ clock' \in Nat /\ clock <= clock' /\ issued' \in 0..MaxJobs /\ issued <= issued'
    BY <1>0, <1>8
  <1>10. 1..issued \subseteq 1..issued' /\ 0..clock \subseteq 0..clock' /\ issued' \in 0..MaxJobs
    BY <1>0, <1>9
  <1>11. Made \subseteq Made'
    BY <1>10 DEF Made
  <1>12. None \notin Made'
    <2>1. \A r \in Made' : r \in Jobs
      BY <1>0, <1>9 DEF Made, Jobs, JobIds
    <2> QED
      BY <2>1, NoneAssumption
  <1>13. CallsMade \subseteq CallsMade'
    BY <1>10, <1>11 DEF CallsMade, Maybe
  <1> QED
    BY <1>8, <1>9, <1>11, <1>12, <1>13

(* An update of a job.                                                      *)
LEMMA Updated ==
  ASSUME Types, NEW j \in JobIds, NEW status \in Active \cup Ended, Update(j, status),
         issued' = issued, durable' = durable, clock' \in Nat, Made \subseteq Made'
  PROVE  /\ RowTypes'
         /\ jobs[j] # None /\ jobs[j] \in Made
         /\ jobs' = [jobs EXCEPT ![j] = jobs'[j]] /\ jobs'[j] \in Made' /\ jobs'[j].id = j
         /\ jobs'[j].status = status
         /\ jobs'[j].user = jobs[j].user /\ jobs'[j].state = jobs[j].state
         /\ write' = [write EXCEPT ![j] = write'[j]] /\ write'[j] \in {None, jobs'[j]}
         /\ IsCurrent(jobs[j]) => write'[j] = jobs'[j]
         /\ clock' = clock + 1
  <1> DEFINE job == [jobs[j] EXCEPT !.status = status, !.at = clock + 1]
  <1>1. /\ jobs[j] # None /\ jobs' = [jobs EXCEPT ![j] = job]
        /\ write' = [write EXCEPT ![j] = Row(job)] /\ clock' = clock + 1
    BY DEF Update, Tick
  <1>2. jobs[j] \in Made /\ jobs[j].id = j
    BY <1>1 DEF Types, RowTypes, Maybe
  <1>3. /\ job \in Made' /\ job.id = j /\ job.status = status
        /\ job.user = jobs[j].user /\ job.state = jobs[j].state
    <2>1. /\ clock \in Nat /\ clock + 1 \in 0..clock' /\ issued' = issued
          /\ jobs[j] \in Made' /\ status \in Active \cup Ended
      BY <1>1, <1>2 DEF Types, PlainTypes
    <2>2. job \in Made'
      BY <2>1 DEF Made
    <2> QED
      BY <1>2, <2>2 DEF Made
  <1>4. Row(job) \in {None, job} /\ (IsCurrent(jobs[j]) => Row(job) = job)
    BY <1>2, <1>3 DEF Row, IsCurrent
  <1> HIDE DEF job
  <1>5. jobs'[j] = job /\ write'[j] = Row(job)
    BY <1>1 DEF Types, RowTypes
  <1>6. RowTypes'
    BY <1>1, <1>3, <1>4, <1>5 DEF Types, RowTypes, Maybe
  <1> QED
    BY <1>1, <1>2, <1>3, <1>4, <1>5, <1>6

(* The rows keep their types.                                               *)
LEMMA RowsStep ==
  ASSUME Inv, [Next]_vars
  PROVE  RowTypes'
  <1>0. /\ Types /\ RowTypes /\ CallsSound
        /\ clock' \in Nat /\ issued \in 0..MaxJobs /\ clock \in Nat
        /\ Made \subseteq Made' /\ None \notin Made' /\ JobIds = 1..MaxJobs /\ MaxJobs \in Nat
    BY Growth, Facts DEF Inv, Types, PlainTypes
  <1>1. \A r \in Maybe(Made) : r \in Maybe(Made')
    BY <1>0 DEF Maybe
  <1>2. CASE UNCHANGED <<jobs, write, durable>>
    BY <1>0, <1>1, <1>2 DEF RowTypes
  <1>3. ASSUME NEW c \in Callers, call[c].pc \in Admits \cup {"marking", "installing"}
        PROVE  call[c].job \in Made /\ call[c].job.id \in JobIds
    BY <1>0, <1>3 DEF Types, CallsSound, CallSound, CallsMade, Maybe, Made
  <1>4. ASSUME NEW c \in Callers, Mark(c) \/ Persist(c) PROVE RowTypes'
    <2>1. /\ call[c].job \in Made /\ call[c].job.id \in JobIds
          /\ durable' = [durable EXCEPT ![call[c].job.id] = call[c].job]
          /\ UNCHANGED <<jobs, write>>
      BY <1>3, <1>4 DEF Mark, Persist, At, Admits
    <2> QED
      BY <1>0, <1>1, <2>1 DEF RowTypes, Maybe
  <1>5. ASSUME NEW c \in Callers, Install(c) PROVE RowTypes'
    <2>1. /\ call[c].job \in Made /\ call[c].job.id \in JobIds
          /\ jobs' = [jobs EXCEPT ![call[c].job.id] = call[c].job]
          /\ UNCHANGED <<durable, write>>
      BY <1>3, <1>5 DEF Install, At
    <2> QED
      BY <1>0, <1>1, <2>1 DEF RowTypes, Maybe
  <1>6. ASSUME NEW c \in Callers, Register(c) PROVE RowTypes'
    <2> DEFINE job == [id |-> issued + 1, user |-> call[c].user, state |-> call[c].state,
                       status |-> "queued", at |-> call[c].now]
    <2>1. /\ issued' = issued + 1 /\ issued + 1 \in JobIds
          /\ UNCHANGED <<write, durable, clock>>
      BY <1>0, <1>6, Growth DEF Register
    <2>2. c \in Starters /\ call[c].user \in Users /\ call[c].state \in StateIds
      BY <1>0, <1>6 DEF Register, At, CallsSound, CallSound
    <2>3. call[c].now \in 0..clock
      BY <1>0 DEF Types, CallsMade
    <2>4. job \in Made'
      BY <1>0, <2>1, <2>2, <2>3 DEF Made, Active
    <2>5. PICK gone \in SUBSET Evictable :
            jobs' = [j \in JobIds |-> IF j = job.id THEN job
                                      ELSE IF j \in gone THEN None ELSE jobs[j]]
      BY <1>6 DEF Register
    <2>6. job.id = issued + 1
      OBVIOUS
    <2> HIDE DEF job
    <2> QED
      BY <1>0, <1>1, <2>1, <2>4, <2>5, <2>6 DEF RowTypes, Maybe
  <1>7. ASSUME NEW c \in Callers, SubmitFails(c) PROVE RowTypes'
    <2>1. call[c].job.id \in JobIds
      BY <1>3, <1>7 DEF SubmitFails, At, Admits
    <2>2. Update(call[c].job.id, "failed") /\ UNCHANGED <<issued, durable>>
      BY <1>7 DEF SubmitFails
    <2> QED
      BY <1>0, <2>1, <2>2, Updated DEF Ended
  <1>8. ASSUME NEW j \in JobIds, NEW status \in Active \cup Ended, Update(j, status),
               UNCHANGED <<issued, durable>>
        PROVE  RowTypes'
    BY <1>0, <1>8, Updated
  <1>9. ASSUME NEW j \in JobIds, Begin(j) \/ Report(j) \/ Cancel(j) \/ \E st \in Ended : End(j, st)
        PROVE  RowTypes'
    <2>1. {"running", "interrupted"} \subseteq Active \cup Ended /\ Ended \subseteq Active \cup Ended
      BY DEF Active, Ended
    <2> QED
      BY <1>2, <1>8, <1>9, <2>1 DEF Begin, Report, Cancel, End
  <1>10. ASSUME NEW j \in JobIds, Save(j) PROVE RowTypes'
    <2>1. /\ write[j] \in Made /\ write[j].id \in JobIds
          /\ durable' = [durable EXCEPT ![write[j].id] = write[j]]
          /\ write' = [write EXCEPT ![j] = None] /\ jobs' = jobs
      BY <1>0, <1>10 DEF Save, RowTypes, Maybe, Made
    <2> QED
      BY <1>0, <1>1, <2>1 DEF RowTypes, Maybe
  <1>11. ASSUME NEW c \in Callers, SubmitFailed(c) PROVE RowTypes'
    <2> DEFINE j == call[c].job.id
    <2>1. /\ j \in JobIds /\ jobs' = jobs /\ write' = [write EXCEPT ![j] = None]
          /\ durable' = durable \/ (write[j] # None /\ durable' = [durable EXCEPT ![j] = write[j]])
      BY <1>3, <1>11 DEF SubmitFailed, At, Admits
    <2>2. write[j] # None => write[j].id = j
      BY <1>0, <1>11 DEF SubmitFailed, At, CallsSound, CallSound
    <2> QED
      BY <1>0, <1>1, <2>1, <2>2 DEF RowTypes, Maybe
  <1>12. ASSUME NEW j \in JobIds, NEW s \in StateIds, Resync(j, s) PROVE RowTypes'
    <2> DEFINE i == current[jobs[j].user]
               at == clock + 1
    <2>1. /\ jobs' = [jobs EXCEPT ![jobs[i].id].state = s, ![jobs[i].id].at = at]
          /\ write' = [write EXCEPT ![j] = [jobs[i] EXCEPT !.state = s, !.at = at]]
          /\ UNCHANGED <<durable, issued>> /\ clock' = at /\ i # None /\ jobs[i] # None
          /\ jobs[j] # None
      BY <1>12 DEF Resync, Tick, IsActive
    <2>2. i \in JobIds /\ jobs[i] \in Made' /\ jobs[i].id = i
      <3>1. jobs[j] \in Made /\ jobs[j].user \in Users
        BY <1>0, <2>1 DEF RowTypes, Maybe, Made
      <3>2. i \in JobIds
        BY <1>0, <2>1, <3>1 DEF Types, PlainTypes, Maybe
      <3> HIDE DEF i
      <3> QED
        BY <1>0, <2>1, <3>2 DEF RowTypes, Maybe
    <2>3. at \in 0..clock'
      <3>1. clock' = clock + 1
        BY <2>1
      <3> QED
        BY <1>0, <3>1
    <2> HIDE DEF i, at
    <2>4. /\ [jobs[i] EXCEPT !.state = s, !.at = at] \in Made'
          /\ [jobs[i] EXCEPT !.state = s, !.at = at].id = i
      BY <2>2, <2>3 DEF Made
    <2>5. jobs' = [jobs EXCEPT ![i] = [jobs[i] EXCEPT !.state = s, !.at = at]]
      BY <1>0, <2>1, <2>2 DEF RowTypes
    <2> QED
      BY <1>0, <1>1, <2>1, <2>2, <2>4, <2>5 DEF RowTypes, Maybe
  <1>13. CASE Restart
    BY <1>0, <1>1, <1>13 DEF Restart, RowTypes, Maybe
  <1>14. ASSUME NEW c \in Callers, Proceed(c) PROVE RowTypes'
    BY <1>2, <1>4, <1>5, <1>6, <1>7, <1>11, <1>14
    DEF Proceed, RestoreNothing, RestoreEnded, RestoreActive, Enter, Join, Busy, Submit
  <1>15. ASSUME NEW j \in JobIds, Work(j) PROVE RowTypes'
    BY <1>2, <1>9, <1>10, <1>15 DEF Work, Finish
  <1>16. ASSUME NEW c \in Callers, NEW u \in Users, NEW s \in StateIds, NEW b \in BOOLEAN,
                Start(c, u, s, b)
         PROVE  RowTypes'
    BY <1>2, <1>16 DEF Start
  <1>17. ASSUME NEW c \in Callers, NEW u \in Users, Poll(c, u) PROVE RowTypes'
    BY <1>2, <1>17 DEF Poll
  <1>18. CASE UNCHANGED vars
    BY <1>2, <1>18 DEF vars, memory
  <1> QED
    BY <1>9, <1>12, <1>13, <1>14, <1>15, <1>16, <1>17, <1>18 DEF Next, Callers

-----------------------------------------------------------------------------
(* The calls.                                                               *)
LEMMA InHandIsMade ==
  ASSUME Inv, NEW c \in Callers, call[c].pc \in Admits \cup {"marking", "installing"}
  PROVE  /\ call[c].job \in Made /\ call[c].job.id \in JobIds /\ call[c].job.id <= issued
         /\ call[c].job.user = call[c].user /\ call[c].user \in Users
  BY Facts DEF Inv, Types, PlainTypes, CallsSound, CallSound, CallsMade, Maybe, Made, Admits

(* A step of a call is a step of that call alone, and leaves it sound.      *)
LEMMA CallStep ==
  ASSUME Inv, [Next]_vars, NEW c \in Callers, Proceed(c)
  PROVE  /\ call' = [call EXCEPT ![c] = call'[c]]
         /\ call'[c] \in CallsMade'
         /\ CallSound(c)'
         /\ call'[c].pc \in Admits =>
              \/ call[c].pc \in Admits /\ call'[c].job.id = call[c].job.id
              \/ Register(c) /\ call'[c].job.id = issued + 1
         /\ call'[c].pc \in Asks => call[c].pc \in Asks
  <1> DEFINE Good ==
         /\ call' = [call EXCEPT ![c] = call'[c]]
         /\ call'[c] \in CallsMade'
         /\ CallSound(c)'
         /\ call'[c].pc \in Admits =>
              \/ call[c].pc \in Admits /\ call'[c].job.id = call[c].job.id
              \/ Register(c) /\ call'[c].job.id = issued + 1
         /\ call'[c].pc \in Asks => call[c].pc \in Asks
  <1>0. /\ call \in [Callers -> CallsMade] /\ call[c] \in CallsMade /\ call[c] \in CallsMade'
        /\ CallSound(c)
        /\ Made \subseteq Made' /\ None \notin Made' /\ None \notin Made
        /\ clock \in Nat /\ clock' \in Nat /\ issued \in 0..MaxJobs /\ MaxJobs \in Nat
        /\ JobIds = 1..MaxJobs /\ None \notin Users
    <2>1. call \in [Callers -> CallsMade] /\ CallSound(c) /\ clock \in Nat /\ issued \in 0..MaxJobs
      BY DEF Inv, Types, PlainTypes, CallsSound
    <2> QED
      BY <2>1, Growth, Facts, MadeIsJob
  (* Back to idle, or to the decision of a start. *)
  <1>1. Idle \in CallsMade'
    BY <1>0 DEF Idle, CallsMade, Pcs, Maybe
  <1>2. ASSUME Return(c) PROVE Good
    <2>1. call' = [call EXCEPT ![c] = Idle] /\ call'[c] = Idle
      BY <1>0, <1>2 DEF Return
    <2>2. Idle.pc = "idle"
      BY DEF Idle
    <2> QED
      BY <1>1, <2>1, <2>2 DEF CallSound, Admits, Asks
  <1>3. ASSUME NEW pc \in Pcs, Goto(c, pc)
        PROVE  /\ call' = [call EXCEPT ![c] = call'[c]]
               /\ call'[c] \in CallsMade' /\ call'[c].pc = pc
               /\ call'[c].user = call[c].user /\ call'[c].state = call[c].state
               /\ call'[c].job = call[c].job
    BY <1>0, <1>3 DEF Goto, CallsMade
  <1>4. ASSUME Answer(c), call[c].pc \in {"restoring", "installing"} PROVE Good
    <2>1. CASE c \in Starters
      <3>1. Goto(c, "deciding")
        BY <1>4, <2>1 DEF Answer
      <3> QED
        BY <1>0, <1>3, <1>4, <2>1, <3>1 DEF CallSound, Admits, Asks, Pcs
    <2>2. CASE c \notin Starters
      BY <1>2, <1>4, <2>2 DEF Answer
    <2> QED
      BY <2>1, <2>2
  <1>5. CASE RestoreNothing(c) \/ Install(c)
    BY <1>4, <1>5 DEF RestoreNothing, Install, At
  <1>6. CASE RestoreEnded(c) \/ RestoreActive(c)
    <2> DEFINE u == call[c].user
               row == durable[Latest(u)]
    <2>1. call[c].pc = "restoring" /\ u \in Users /\ Rows(u) # {}
      BY <1>0, <1>6 DEF RestoreEnded, RestoreActive, At, CallSound
    <2>2. row \in Made /\ row.user = u
      BY <2>1, LatestIsRow DEF Inv, Types, RowTypes, Rows, Maybe
    <2>3. CASE RestoreEnded(c)
      <3>1. /\ call' = [call EXCEPT ![c].pc = "installing", ![c].job = row] /\ ~IsActive(row)
        BY <2>3 DEF RestoreEnded, UnderWay
      <3> HIDE DEF row
      <3>2. call'[c] = [call[c] EXCEPT !.pc = "installing", !.job = row]
        BY <1>0, <3>1
      <3>3. /\ call'[c] \in CallsMade' /\ call'[c].pc = "installing" /\ call'[c].job = row
            /\ call'[c].user = u /\ call'[c].state = call[c].state
        BY <1>0, <2>2, <3>2 DEF CallsMade, Pcs, Maybe
      <3> QED
        BY <1>0, <2>1, <2>2, <3>1, <3>2, <3>3 DEF CallSound, Admits, Asks, IsActive
    <2>4. CASE RestoreActive(c)
      <3> DEFINE job == [row EXCEPT !.status = "interrupted", !.at = clock + 1]
      <3>1. /\ call' = [call EXCEPT ![c].pc = "marking", ![c].job = job] /\ clock' = clock + 1
        BY <2>4 DEF RestoreActive, Tick
      <3>2. row \in Made' /\ clock + 1 \in 0..clock'
        BY <1>0, <2>2, <3>1
      <3> HIDE DEF row
      <3>3. job \in Made' /\ job.user = u /\ job.status = "interrupted"
        BY <2>2, <3>2 DEF Made, Ended
      <3> HIDE DEF job
      <3>4. call'[c] = [call[c] EXCEPT !.pc = "marking", !.job = job]
        BY <1>0, <3>1
      <3>5. /\ call'[c] \in CallsMade' /\ call'[c].pc = "marking" /\ call'[c].job = job
            /\ call'[c].user = u /\ call'[c].state = call[c].state
        BY <1>0, <3>3, <3>4 DEF CallsMade, Pcs, Maybe
      <3> QED
        BY <1>0, <2>1, <3>1, <3>3, <3>4, <3>5 DEF CallSound, Admits, Asks, IsActive, Active
    <2> QED
      BY <1>6, <2>3, <2>4
  <1>7. CASE Mark(c)
    BY <1>0, <1>3, <1>7 DEF Mark, At, CallSound, Admits, Asks, Pcs, IsActive
  <1>8. CASE Enter(c)
    <2>1. call[c].pc = "locking" /\ call[c].user \in Users
      BY <1>0, <1>8 DEF Enter, At, CallSound
    <2>2. CASE Goto(c, "restoring")
      BY <1>0, <1>3, <2>1, <2>2 DEF CallSound, Admits, Asks, Pcs
    <2>3. CASE ~Goto(c, "restoring")
      <3> DEFINE job == jobs[current[call[c].user]]
      <3>1. /\ call' = [call EXCEPT ![c].pc = "deciding", ![c].job = job]
            /\ current[call[c].user] # None
        BY <1>8, <2>3 DEF Enter
      <3>2. job \in Maybe(Made)
        BY <2>1, <3>1 DEF Inv, Types, RowTypes, PlainTypes, Maybe
      <3> HIDE DEF job
      <3>3. call'[c] = [call[c] EXCEPT !.pc = "deciding", !.job = job]
        BY <1>0, <3>1
      <3>4. /\ call'[c] \in CallsMade' /\ call'[c].pc = "deciding"
            /\ call'[c].user = call[c].user /\ call'[c].state = call[c].state
        BY <1>0, <3>2, <3>3 DEF CallsMade, Pcs, Maybe
      <3> QED
        BY <1>0, <2>1, <3>1, <3>3, <3>4 DEF CallSound, Admits, Asks
    <2> QED
      BY <2>2, <2>3
  <1>9. CASE Join(c) \/ Busy(c) \/ Submit(c) \/ SubmitFailed(c)
    BY <1>2, <1>9 DEF Join, Busy, Submit, SubmitFailed
  <1>10. CASE Register(c)
    <2> DEFINE job == [id |-> issued + 1, user |-> call[c].user, state |-> call[c].state,
                       status |-> "queued", at |-> call[c].now]
    <2>1. /\ issued' = issued + 1 /\ issued + 1 \in JobIds /\ clock' = clock
          /\ call[c].pc = "deciding" /\ future' = future
          /\ call' = [call EXCEPT ![c].pc = "persisting", ![c].job = job]
      BY <1>0, <1>10, Growth DEF Register, At
    <2>2. c \in Starters /\ call[c].user \in Users /\ call[c].state \in StateIds
      BY <1>0, <2>1 DEF CallSound
    <2>3. job \in Made' /\ job.id = issued + 1 /\ job.user = call[c].user
      BY <1>0, <2>1, <2>2 DEF Made, Active, CallsMade
    <2>4. future'[issued + 1] = "none"
      BY <1>0, <2>1 DEF Inv, FuturesSound
    <2> HIDE DEF job
    <2>5. call'[c] = [call[c] EXCEPT !.pc = "persisting", !.job = job]
      BY <1>0, <2>1
    <2>6. /\ call'[c] \in CallsMade' /\ call'[c].pc = "persisting" /\ call'[c].job = job
          /\ call'[c].user = call[c].user /\ call'[c].state = call[c].state
      BY <1>0, <2>3, <2>5 DEF CallsMade, Pcs, Maybe
    <2> QED
      BY <1>0, <1>10, <2>1, <2>2, <2>3, <2>4, <2>5, <2>6 DEF CallSound, Admits, Asks
  <1>11. CASE Persist(c)
    <2>1. Goto(c, "submitting") /\ call[c].pc = "persisting" /\ future' = future
      BY <1>11 DEF Persist, At
    <2> QED
      BY <1>0, <1>3, <2>1 DEF CallSound, Admits, Asks, Pcs
  <1>12. CASE SubmitFails(c)
    <2> DEFINE j == call[c].job.id
    <2>1. /\ Goto(c, "failing") /\ call[c].pc = "submitting" /\ UNCHANGED <<future, issued, durable>>
          /\ Update(j, "failed")
      BY <1>12 DEF SubmitFails, At
    <2>2. j \in JobIds
      BY <2>1, InHandIsMade DEF Admits
    <2>3. jobs'[j].status = "failed" /\ jobs'[j].id = j /\ write'[j] \in {None, jobs'[j]}
      BY <1>0, <2>1, <2>2, Updated DEF Inv, Ended
    <2> QED
      BY <1>0, <1>3, <2>1, <2>3 DEF CallSound, Admits, Asks, Pcs, IsActive, Active
  <1> QED
    BY <1>5, <1>6, <1>7, <1>8, <1>9, <1>10, <1>11, <1>12 DEF Proceed

(* Who changes the calls.                                                   *)
Enters(c) ==
  \/ c \in Pollers /\ \E u \in Users : Poll(c, u)
  \/ c \in Starters /\ \E u \in Users, s \in StateIds, b \in BOOLEAN : Start(c, u, s, b)

LEMMA WhoCalls ==
  [Next]_vars =>
    \/ Restart
    \/ \E c \in Callers : Proceed(c) \/ Enters(c)
    \/ /\ call' = call
       /\ \/ \E j \in JobIds : Work(j) \/ Report(j) \/ Cancel(j) \/ \E s \in StateIds : Resync(j, s)
          \/ UNCHANGED vars
  <1>1. ASSUME NEW j \in JobIds,
               Work(j) \/ Report(j) \/ Cancel(j) \/ \E s \in StateIds : Resync(j, s)
        PROVE  call' = call
    BY <1>1 DEF Work, Begin, Save, Finish, End, Report, Cancel, Resync
  <1>2. UNCHANGED vars => call' = call
    BY DEF vars, memory
  <1> QED
    BY <1>1, <1>2 DEF Next, Callers, Enters

(* A call that enters was idle, and holds nothing.                          *)
LEMMA EnterStep ==
  ASSUME Inv, [Next]_vars, NEW c \in Callers, Enters(c)
  PROVE  /\ call' = [call EXCEPT ![c] = call'[c]]
         /\ call[c].pc = "idle"
         /\ call'[c] \in CallsMade'
         /\ CallSound(c)'
         /\ call'[c].pc \in Asks
         /\ UNCHANGED <<jobs, current, slots, userLock, future, write, durable, issued, restarts>>
  <1>0. /\ call \in [Callers -> CallsMade] /\ clock \in Nat /\ clock' \in Nat
        /\ Starters \cap Pollers = {} /\ Starters \subseteq Callers
    BY Growth, Facts DEF Inv, Types, PlainTypes
  <1>1. ASSUME NEW u \in Users, c \in Pollers, Poll(c, u)
        PROVE  /\ call[c].pc = "idle" /\ call'[c] \in CallsMade' /\ CallSound(c)'
               /\ call'[c].pc \in Asks /\ call' = [call EXCEPT ![c] = call'[c]]
    <2> DEFINE k == [Idle EXCEPT !.pc = "restoring", !.user = u]
    <2>1. call[c].pc = "idle" /\ call' = [call EXCEPT ![c] = k]
      BY <1>1 DEF Poll, At
    <2>2. k \in CallsMade' /\ k.pc = "restoring" /\ k.user = u
      <3>1. 0 \in 0..clock'
        BY <1>0
      <3>2. Idle \in CallsMade'
        BY <3>1 DEF Idle, CallsMade, Pcs, Maybe
      <3> QED
        BY <3>2 DEF CallsMade, Pcs, Maybe
    <2> HIDE DEF k
    <2> QED
      BY <1>0, <1>1, <2>1, <2>2 DEF CallSound, Admits, Asks
  <1>2. ASSUME NEW u \in Users, NEW s \in StateIds, NEW b \in BOOLEAN, Start(c, u, s, b)
        PROVE  /\ call[c].pc = "idle" /\ call'[c] \in CallsMade' /\ (c \in Starters => CallSound(c)')
               /\ call'[c].pc \in Asks /\ call' = [call EXCEPT ![c] = call'[c]]
    <2> DEFINE k == [pc |-> "locking", user |-> u, state |-> s,
                     coalesce |-> b, now |-> clock + 1, job |-> None]
    <2>1. call[c].pc = "idle" /\ call' = [call EXCEPT ![c] = k] /\ clock' = clock + 1
      BY <1>2 DEF Start, At, Tick
    <2>2. clock + 1 \in 0..clock'
      BY <1>0, <2>1
    <2>3. k \in CallsMade' /\ k.pc = "locking" /\ k.user = u /\ k.state = s
      BY <1>0, <2>2 DEF CallsMade, Pcs, Maybe
    <2> HIDE DEF k
    <2> QED
      BY <1>0, <2>1, <2>3 DEF CallSound, Admits, Asks
  <1>3. UNCHANGED <<jobs, current, slots, userLock, future, write, durable, issued, restarts>>
    BY DEF Enters, Poll, Start
  <1> QED
    BY <1>1, <1>2, <1>3 DEF Enters

-----------------------------------------------------------------------------
(* A job becomes active when it is registered, and again only in its        *)
(* worker's hands.                                                          *)
LEMMA ActiveEffect ==
  ASSUME Inv, [Next]_vars, NEW i \in JobIds, IsActive(jobs'[i])
  PROVE  \/ IsActive(jobs[i])
         \/ i = issued + 1 /\ \E c \in Callers : Register(c)
         \/ future[i] \in {"pending", "running"} /\ future'[i] = "running"
  <1> DEFINE Good == \/ IsActive(jobs[i])
                     \/ i = issued + 1 /\ \E c \in Callers : Register(c)
                     \/ future[i] \in {"pending", "running"} /\ future'[i] = "running"
  <1>0. /\ Types /\ CallsSound /\ clock' \in Nat /\ Made \subseteq Made' /\ None \notin Made
        /\ future \in [JobIds -> Futures] /\ jobs \in [JobIds -> Maybe(Made)]
        /\ issued \in 0..MaxJobs /\ clock \in Nat
    BY Growth, MadeIsJob DEF Inv, Types, PlainTypes, RowTypes
  <1>1. CASE jobs' = jobs
    BY <1>1
  <1>2. ASSUME NEW j \in JobIds, NEW status \in Active \cup Ended, Update(j, status),
               UNCHANGED <<issued, durable>>
        PROVE  IsActive(jobs[i]) \/ (i = j /\ status \in Active)
    <2>1. jobs' = [jobs EXCEPT ![j] = jobs'[j]] /\ jobs'[j].status = status
      BY <1>0, <1>2, Updated
    <2> QED
      BY <1>0, <2>1 DEF IsActive
  <1>3. ASSUME NEW c \in Callers, Install(c) PROVE Good
    <2>1. jobs' = [jobs EXCEPT ![call[c].job.id] = call[c].job] /\ ~IsActive(call[c].job)
      BY <1>0, <1>3 DEF Install, At, CallsSound, CallSound
    <2> QED
      BY <1>0, <2>1
  <1>4. ASSUME NEW c \in Callers, Register(c) PROVE Good
    <2>1. PICK gone \in SUBSET Evictable :
            jobs' = [j \in JobIds |->
                      IF j = issued + 1
                      THEN [id |-> issued + 1, user |-> call[c].user, state |-> call[c].state,
                            status |-> "queued", at |-> call[c].now]
                      ELSE IF j \in gone THEN None ELSE jobs[j]]
      BY <1>4 DEF Register
    <2>2. i # issued + 1 => jobs'[i] \in {None, jobs[i]}
      BY <2>1
    <2> QED
      BY <1>4, <2>2 DEF IsActive
  <1>5. ASSUME NEW c \in Callers, SubmitFails(c) PROVE Good
    <2>1. Update(call[c].job.id, "failed") /\ UNCHANGED <<issued, durable>> /\ call[c].job.id \in JobIds
      BY <1>5, InHandIsMade DEF SubmitFails, At, Admits
    <2> QED
      BY <1>2, <2>1 DEF Active, Ended
  <1>6. ASSUME NEW j \in JobIds, Begin(j) \/ Report(j) PROVE Good
    <2>1. /\ Update(j, "running") /\ UNCHANGED <<issued, durable>>
          /\ future[j] \in {"pending", "running"} /\ future'[j] = "running"
      BY <1>0, <1>6 DEF Begin, Report, Saved
    <2> QED
      BY <1>2, <2>1 DEF Active
  <1>7. ASSUME NEW j \in JobIds, Cancel(j) \/ \E status \in Ended : End(j, status) PROVE Good
    <2>1. CASE jobs' = jobs
      BY <1>1, <2>1
    <2>2. ASSUME NEW status \in Ended, Update(j, status), UNCHANGED <<issued, durable>> PROVE Good
      BY <1>2, <2>2 DEF Active, Ended
    <2>3. "interrupted" \in Ended
      BY DEF Ended
    <2> QED
      BY <1>7, <2>1, <2>2, <2>3 DEF Cancel, End
  <1>8. ASSUME NEW j \in JobIds, NEW s \in StateIds, Resync(j, s) PROVE Good
    <2> DEFINE k == current[jobs[j].user]
    <2>1. /\ jobs' = [jobs EXCEPT ![jobs[k].id].state = s, ![jobs[k].id].at = clock + 1]
          /\ IsActive(jobs[k]) /\ jobs[j] # None /\ k # None
      BY <1>8 DEF Resync, Tick
    <2>2. jobs[j].user \in Users
      BY <1>0, <2>1 DEF Maybe, Made
    <2>3. k \in JobIds
      BY <1>0, <2>1, <2>2 DEF Types, PlainTypes, Maybe
    <2> HIDE DEF k
    <2>4. jobs[k].id = k
      BY <1>0, <2>1, <2>3 DEF Types, RowTypes, IsActive
    <2>5. i # k => jobs'[i] = jobs[i]
      BY <1>0, <2>1, <2>4
    <2> QED
      BY <2>1, <2>5
  <1>9. CASE Restart
    BY <1>9 DEF Restart, IsActive
  <1>10. ASSUME NEW c \in Callers, Proceed(c) PROVE Good
    BY <1>1, <1>3, <1>4, <1>5, <1>10
    DEF Proceed, RestoreNothing, RestoreEnded, RestoreActive, Mark, Enter, Join, Busy, Persist,
        Submit, SubmitFailed
  <1>11. ASSUME NEW j \in JobIds, Work(j) PROVE Good
    BY <1>1, <1>6, <1>7, <1>11 DEF Work, Save, Finish
  <1>12. ASSUME NEW c \in Callers, Enters(c) PROVE Good
    BY <1>1, <1>12, EnterStep
  <1>13. CASE UNCHANGED vars
    BY <1>1, <1>13 DEF vars, memory
  <1> QED
    BY <1>6, <1>7, <1>8, <1>9, <1>10, <1>11, <1>12, <1>13, WhoCalls

(* The life of a Future.                                                    *)
LEMMA FutureEffect ==
  ASSUME Inv, [Next]_vars, ~Restart, NEW i \in JobIds
  PROVE  \/ future'[i] = future[i]
         \/ \E c \in Callers : Submit(c) /\ call[c].job.id = i /\ future'[i] = "pending"
         \/ future[i] = "pending" /\ future'[i] = "running"
         \/ /\ future[i] \in {"pending", "running"}
            /\ future'[i] \in {"ending", "cancelled"} /\ ~IsActive(jobs'[i])
         \/ Finish(i) /\ future[i] \in {"ending", "cancelled"} /\ future'[i] = "none"
  <1>0. /\ future \in [JobIds -> Futures] /\ Types /\ clock' \in Nat /\ Made \subseteq Made'
    BY Growth DEF Inv, Types, PlainTypes
  <1>1. CASE future' = future
    BY <1>1
  <1>2. ASSUME NEW c \in Callers, Submit(c)
        PROVE  future'[i] = future[i] \/ (call[c].job.id = i /\ future'[i] = "pending")
    BY <1>0, <1>2 DEF Submit
  <1>3. ASSUME NEW j \in JobIds, Begin(j)
        PROVE  future'[i] = future[i] \/ (future[i] = "pending" /\ future'[i] = "running")
    BY <1>0, <1>3 DEF Begin
  <1>4. ASSUME NEW j \in JobIds, NEW status \in Ended, End(j, status)
        PROVE  \/ future'[i] = future[i]
               \/ future[i] = "running" /\ future'[i] = "ending" /\ ~IsActive(jobs'[i])
    <2>1. /\ future' = [future EXCEPT ![j] = "ending"] /\ future[j] = "running"
          /\ Update(j, status) /\ UNCHANGED <<issued, durable>>
      BY <1>4 DEF End, Saved
    <2>2. jobs'[j].status = status
      BY <1>0, <2>1, Updated
    <2> QED
      BY <1>0, <2>1, <2>2 DEF IsActive, Active, Ended
  <1>5. ASSUME NEW j \in JobIds, Cancel(j)
        PROVE  \/ future'[i] = future[i]
               \/ future[i] = "pending" /\ future'[i] = "cancelled" /\ ~IsActive(jobs'[i])
    <2>1. /\ future' = [future EXCEPT ![j] = "cancelled"] /\ future[j] = "pending"
          /\ UNCHANGED <<issued, durable>>
          /\ IF IsActive(jobs[j]) THEN Update(j, "interrupted") ELSE UNCHANGED <<jobs, write, clock>>
      BY <1>5 DEF Cancel
    <2>2. ~IsActive(jobs'[j])
      <3>1. CASE IsActive(jobs[j])
        <4>1. jobs'[j].status = "interrupted"
          BY <1>0, <2>1, <3>1, Updated DEF Ended
        <4> QED
          BY <4>1 DEF IsActive, Active
      <3>2. CASE ~IsActive(jobs[j])
        BY <2>1, <3>2
      <3> QED
        BY <3>1, <3>2
    <2> QED
      BY <1>0, <2>1, <2>2
  <1>6. ASSUME NEW j \in JobIds, Finish(j)
        PROVE  \/ future'[i] = future[i]
               \/ Finish(i) /\ future[i] \in {"ending", "cancelled"} /\ future'[i] = "none"
    BY <1>0, <1>6 DEF Finish, Finished
  <1>7. ASSUME NEW c \in Callers, Proceed(c) PROVE future' = future \/ Submit(c)
    BY <1>7
    DEF Proceed, RestoreNothing, RestoreEnded, RestoreActive, Mark, Install, Enter, Join, Busy,
        Register, Persist, SubmitFails, SubmitFailed
  <1>8. ASSUME NEW j \in JobIds, Save(j) \/ Report(j) \/ \E s \in StateIds : Resync(j, s)
        PROVE  future' = future
    BY <1>8 DEF Save, Report, Resync
  <1>9. ASSUME NEW c \in Callers, Enters(c) PROVE future' = future
    BY <1>9, EnterStep
  <1>10. CASE UNCHANGED vars
    BY <1>1, <1>10 DEF vars, memory
  <1> QED
    BY <1>1, <1>2, <1>3, <1>4, <1>5, <1>6, <1>7, <1>8, <1>9, <1>10, WhoCalls DEF Work

-----------------------------------------------------------------------------
(* The calls stay sound: a job under admission is nobody else's, and its    *)
(* Future is not there yet.                                                 *)
LEMMA AdmitsLeave ==
  ASSUME Inv, NEW c \in Callers, Proceed(c), call[c].pc \in Admits
  PROVE  \/ call'[c].pc \in Admits /\ call'[c].job = call[c].job
         \/ Submit(c) \/ SubmitFailed(c)
  <1>0. call \in [Callers -> CallsMade]
    BY DEF Inv, Types
  <1>1. Persist(c) \/ SubmitFails(c) \/ Submit(c) \/ SubmitFailed(c)
    BY DEF Proceed, RestoreNothing, RestoreEnded, RestoreActive, Mark, Install, Enter, Join,
           Busy, Register, At, Admits
  <1> QED
    BY <1>0, <1>1 DEF Persist, SubmitFails, Goto, Admits, CallsMade

LEMMA Undisturbed ==
  ASSUME Inv, [Next]_vars, ~Restart, NEW d \in Callers, call[d].pc \in Admits, ~Proceed(d)
  PROVE  LET i == call[d].job.id
         IN  /\ future'[i] = "none"
             /\ call[d].pc = "failing" =>
                  /\ ~IsActive(jobs'[i])
                  /\ write'[i] # None => write'[i].id = i
  <1> DEFINE i == call[d].job.id
  <1>0. /\ i \in JobIds /\ i <= issued /\ future[i] = "none" /\ d \in Admitting
        /\ Types /\ CallsSound /\ clock' \in Nat /\ Made \subseteq Made'
        /\ future \in [JobIds -> Futures] /\ issued \in 0..MaxJobs
        /\ write \in [JobIds -> Maybe(Made)]
    BY InHandIsMade, Growth
    DEF Inv, Types, PlainTypes, RowTypes, CallsSound, CallSound, Admits, Admitting
  <1> HIDE DEF i
  <1>1. \A c \in Callers \ {d} : call[c].pc \in Admits => call[c].job.id # i
    BY <1>0 DEF CallsSound, Admitting, Admits, i
  <1>2. ASSUME NEW c \in Callers, Submit(c) \/ SubmitFails(c) \/ SubmitFailed(c)
        PROVE  c # d /\ call[c].job.id # i /\ call[c].job.id \in JobIds
    <2>1. c # d /\ call[c].pc \in Admits
      BY <1>2 DEF Submit, SubmitFails, SubmitFailed, At, Admits, Proceed
    <2> QED
      BY <1>1, <2>1, InHandIsMade
  <1>3. future'[i] = "none"
    BY <1>0, <1>2, FutureEffect
  <1>4. ASSUME call[d].pc = "failing"
        PROVE  ~IsActive(jobs'[i]) /\ (write'[i] # None => write'[i].id = i)
    <2>1. ~IsActive(jobs[i]) /\ (write[i] # None => write[i].id = i)
      BY <1>0, <1>4 DEF CallsSound, CallSound, i
    <2>2. ~IsActive(jobs'[i])
      BY <1>0, <1>3, <2>1, ActiveEffect
    <2>3. write'[i] \in {None, write[i]}
      <3>1. CASE write' = write
        BY <3>1
      <3>2. ASSUME NEW c \in Callers, Proceed(c) PROVE write'[i] \in {None, write[i]}
        <4>1. CASE SubmitFails(c)
          <5>1. Update(call[c].job.id, "failed") /\ UNCHANGED <<issued, durable>>
            BY <4>1 DEF SubmitFails
          <5> QED
            BY <1>0, <1>2, <4>1, <5>1, Updated DEF Ended
        <4>2. CASE SubmitFailed(c)
          BY <1>0, <1>2, <4>2 DEF SubmitFailed
        <4> QED
          BY <3>1, <3>2, <4>1, <4>2
          DEF Proceed, RestoreNothing, RestoreEnded, RestoreActive, Mark, Install, Enter, Join,
              Busy, Register, Persist, Submit
      <3>3. ASSUME NEW j \in JobIds,
                   Work(j) \/ Report(j) \/ Cancel(j) \/ \E s \in StateIds : Resync(j, s)
            PROVE  write'[i] \in {None, write[i]}
        <4>1. CASE Save(j)
          BY <1>0, <4>1 DEF Save
        <4>2. ASSUME NEW s \in StateIds, Resync(j, s) PROVE write'[i] \in {None, write[i]}
          BY <1>0, <4>2 DEF Resync, Saved
        <4>3. ASSUME NEW status \in Active \cup Ended, Update(j, status), j # i
              PROVE  write'[i] \in {None, write[i]}
          BY <1>0, <4>3 DEF Update
        <4>4. CASE Begin(j) \/ Report(j) \/ Cancel(j) \/ \E status \in Ended : End(j, status)
          <5>1. j # i
            BY <1>0, <4>4 DEF Begin, Report, Cancel, End, Saved
          <5>2. {"running", "interrupted"} \subseteq Active \cup Ended
            BY DEF Active, Ended
          <5> QED
            BY <3>1, <4>3, <4>4, <5>1, <5>2 DEF Begin, Report, Cancel, End
        <4> QED
          BY <3>1, <3>3, <4>1, <4>2, <4>4 DEF Work, Finish
      <3>4. ASSUME NEW c \in Callers, Enters(c) PROVE write' = write
        BY <3>4, EnterStep
      <3>5. UNCHANGED vars => write' = write
        BY DEF vars, memory
      <3> QED
        BY <3>1, <3>2, <3>3, <3>4, <3>5, WhoCalls
    <2> QED
      BY <2>1, <2>2, <2>3
  <1> QED
    BY <1>3, <1>4 DEF i

LEMMA CallsStep == Inv /\ [Next]_vars => call' \in [Callers -> CallsMade'] /\ CallsSound'
  <1> SUFFICES ASSUME Inv, [Next]_vars
               PROVE  call' \in [Callers -> CallsMade'] /\ CallsSound'
    OBVIOUS
  <1>0. /\ call \in [Callers -> CallsMade] /\ CallsSound /\ issued \in 0..MaxJobs
        /\ CallsMade \subseteq CallsMade'
    BY Growth DEF Inv, Types, PlainTypes
  <1>1. CASE Restart
    <2>1. call' = [c \in Callers |-> Idle]
      BY <1>1 DEF Restart
    <2>2. Idle \in CallsMade'
      BY Growth DEF Idle, CallsMade, Pcs, Maybe
    <2>3. \A c \in Callers : call'[c].pc = "idle"
      BY <2>1 DEF Idle
    <2> QED
      BY <2>1, <2>2, <2>3 DEF CallsSound, CallSound, Admits, Admitting
  <1>2. CASE ~Restart
    <2>1. /\ call' \in [Callers -> CallsMade']
          /\ \A d \in Callers : Proceed(d) \/ Enters(d) \/ call'[d] = call[d]
      <3>1. CASE call' = call
        BY <1>0, <3>1
      <3>2. ASSUME NEW c \in Callers, Proceed(c) \/ Enters(c)
            PROVE  /\ call' \in [Callers -> CallsMade']
                   /\ \A d \in Callers \ {c} : call'[d] = call[d]
        <4>1. call' = [call EXCEPT ![c] = call'[c]] /\ call'[c] \in CallsMade'
          BY <3>2, CallStep, EnterStep
        <4> QED
          BY <1>0, <4>1
      <3> QED
        BY <1>2, <3>1, <3>2, WhoCalls
    <2>2. ASSUME NEW d \in Callers, call'[d] = call[d], ~Proceed(d)
          PROVE  CallSound(d)'
      <3>1. CallSound(d)
        BY <1>0 DEF CallsSound
      <3>2. CASE call[d].pc \in Admits
        BY <1>2, <2>2, <3>1, <3>2, Undisturbed DEF CallSound, IsActive, Admits
      <3>3. CASE call[d].pc \notin Admits
        BY <2>2, <3>1, <3>3 DEF CallSound, IsActive, Admits
      <3> QED
        BY <3>2, <3>3
    <2>3. \A d \in Callers : CallSound(d)'
      BY <2>1, <2>2, CallStep, EnterStep
    <2>4. ASSUME NEW c \in Callers, call'[c].pc \in Admits
          PROVE  \/ call[c].pc \in Admits /\ call'[c].job.id = call[c].job.id
                 \/ Register(c) /\ Proceed(c) /\ call'[c].job.id = issued + 1
      <3>1. ~Enters(c)
        BY <2>4, EnterStep DEF Asks, Admits
      <3> QED
        BY <2>1, <2>4, <3>1, CallStep
    <2>5. ASSUME NEW c \in Callers, NEW d \in Callers, Register(c), Proceed(c), Register(d) PROVE c = d \/ call'[d].pc \notin Admits
      <3>1. call' = [call EXCEPT ![c] = call'[c]] /\ call[d].pc = "deciding"
        BY <2>5, CallStep DEF Register, At
      <3> QED
        BY <1>0, <3>1 DEF Admits
    <2>6. ASSUME NEW c \in Callers, NEW d \in Callers, call'[c].pc \in Admits, call'[d].pc \in Admits,
                 call'[c].job.id = call'[d].job.id
          PROVE  c = d
      <3>1. \A e \in Callers : call[e].pc \in Admits => e \in Admitting /\ call[e].job.id \in 1..issued
        BY <1>0, InHandIsMade DEF Admitting, Admits, JobIds
      <3> QED
        BY <1>0, <2>4, <2>5, <2>6, <3>1 DEF CallsSound
    <2> QED
      BY <2>1, <2>3, <2>6 DEF CallsSound, Admitting, Admits
  <1> QED
    BY <1>1, <1>2

-----------------------------------------------------------------------------
(* A Future is of a job that was made, and ends after its job.              *)
LEMMA FuturesStep == Inv /\ [Next]_vars => FuturesSound'
  <1> SUFFICES ASSUME Inv, [Next]_vars, NEW i \in JobIds
               PROVE  /\ future'[i] # "none" => i <= issued'
                      /\ future'[i] \in {"ending", "cancelled"} => ~IsActive(jobs'[i])
    BY DEF FuturesSound
  <1>0. /\ FuturesSound /\ issued \in Nat /\ issued' \in Nat /\ issued <= issued'
        /\ i \in Nat
    <2>1. issued' \in 0..MaxJobs /\ issued <= issued'
      BY Growth
    <2>2. FuturesSound /\ issued \in 0..MaxJobs
      BY DEF Inv, Types, PlainTypes
    <2> QED
      BY <2>1, <2>2, Facts
  <1>1. CASE Restart
    BY <1>1 DEF Restart
  <1>2. CASE ~Restart
    <2>1. CASE future'[i] = future[i]
      <3>1. future[i] \in {"ending", "cancelled"} => ~IsActive(jobs'[i])
        BY <1>0, <2>1, ActiveEffect DEF FuturesSound
      <3>2. future[i] # "none" => i <= issued
        BY <1>0 DEF FuturesSound
      <3> QED
        BY <1>0, <2>1, <3>1, <3>2
    <2>2. CASE \E c \in Callers : Submit(c) /\ call[c].job.id = i /\ future'[i] = "pending"
      <3>1. i \in 1..issued
        BY <1>0, <2>2, InHandIsMade DEF Submit, At, Admits, JobIds
      <3> QED
        BY <1>0, <2>2, <3>1
    <2>3. CASE /\ future[i] \in {"pending", "running"}
               /\ future'[i] \in {"running", "ending", "cancelled"}
               /\ future'[i] = "running" \/ ~IsActive(jobs'[i])
      <3>1. i <= issued
        BY <1>0, <2>3 DEF FuturesSound
      <3> QED
        BY <1>0, <2>3, <3>1
    <2>4. CASE future'[i] = "none"
      BY <2>4
    <2> QED
      BY <1>2, <2>1, <2>2, <2>3, <2>4, FutureEffect
  <1> QED
    BY <1>1, <1>2

(* No phantoms.                                                             *)
LEMMA PhantomStep == Inv /\ [Next]_vars => NoPhantom'
  <1> SUFFICES ASSUME Inv, [Next]_vars, NEW i \in JobIds, IsActive(jobs'[i])
               PROVE  i \in Live' \/ \E c \in Admitting' : call'[c].job.id = i
    BY DEF NoPhantom, Known
  <1>0. /\ ~Restart /\ Inv /\ CallsSound /\ FuturesSound /\ NoPhantom
    BY DEF Restart, IsActive, Inv
  <1>1. CASE \E c \in Callers : Register(c) /\ i = issued + 1
    <2>1. PICK c \in Callers : Register(c) /\ i = issued + 1
      BY <1>1
    <2>2. call'[c].pc = "persisting" /\ call'[c].job.id = i
      BY <2>1 DEF Register, Inv, Types, CallsMade
    <2> QED
      BY <2>2 DEF Admitting
  <1>2. CASE future'[i] = "running"
    BY <1>2 DEF Live
  <1>3. CASE IsActive(jobs[i])
    <2>1. CASE i \in Live
      <3>1. future[i] \notin {"ending", "cancelled"} /\ future[i] # "none"
        BY <1>0, <1>3, <2>1 DEF FuturesSound, Live
      <3> QED
        BY <1>0, <3>1, FutureEffect DEF Live
    <2>2. ASSUME NEW c \in Admitting, call[c].job.id = i
          PROVE  i \in Live' \/ \E d \in Admitting' : call'[d].job.id = i
      <3>1. c \in Callers /\ call[c].pc \in Admits /\ call[c].pc # "failing"
        BY <1>0, <1>3, <2>2 DEF Admitting, Admits, CallsSound, CallSound
      <3>2. CASE Submit(c)
        <4>1. future'[i] = "pending"
          BY <1>0, <2>2, <3>2 DEF Submit, Inv, Types, PlainTypes
        <4> QED
          BY <4>1 DEF Live
      <3>3. ~SubmitFailed(c)
        BY <3>1 DEF SubmitFailed, At
      <3>4. CASE ~Proceed(c)
        <4>1. call'[c] = call[c]
          <5>1. ~Enters(c)
            BY <3>1, EnterStep DEF Admits
          <5> QED
            BY <1>0, <3>1, <3>4, <5>1, WhoCalls, CallStep, EnterStep DEF Inv, Types
        <4> QED
          BY <2>2, <3>1, <4>1 DEF Admitting, Admits
      <3>5. CASE Proceed(c) /\ ~Submit(c)
        BY <2>2, <3>1, <3>3, <3>5, AdmitsLeave DEF Admitting, Admits
      <3> QED
        BY <3>2, <3>4, <3>5
    <2> QED
      BY <1>0, <1>3, <2>1, <2>2 DEF NoPhantom, Known, IsActive
  <1> QED
    BY <1>1, <1>2, <1>3, ActiveEffect

-----------------------------------------------------------------------------
(* The slots.                                                               *)
LEMMA PlainStep == Inv /\ [Next]_vars => PlainTypes'
  <1> SUFFICES ASSUME Inv, [Next]_vars PROVE PlainTypes'
    OBVIOUS
  <1>0. /\ current \in [Users -> Maybe(JobIds)]
        /\ userLock \in [Users -> Maybe(Callers \cup JobIds)]
        /\ future \in [JobIds -> Futures] /\ slots \in Nat
        /\ call \in [Callers -> CallsMade] /\ CallsSound
    BY DEF Inv, Types, PlainTypes
  <1>1. clock' \in Nat /\ issued' \in 0..MaxJobs /\ restarts' \in 0..MaxRestarts
    BY Growth
  <1> DEFINE Plain == /\ current' \in [Users -> Maybe(JobIds)]
                      /\ userLock' \in [Users -> Maybe(Callers \cup JobIds)]
                      /\ future' \in [JobIds -> Futures] /\ slots' \in Nat
  <1>2. ASSUME NEW c \in Callers, Proceed(c) PROVE Plain
    <2> DEFINE u == call[c].user
               id == call[c].job.id
    <2>1. CASE Install(c) \/ Submit(c) \/ SubmitFails(c) \/ SubmitFailed(c)
      <3>1. id \in JobIds /\ u \in Users
        BY <2>1, InHandIsMade DEF Install, Submit, SubmitFails, SubmitFailed, At, Admits
      <3> QED
        BY <1>0, <2>1, <3>1
        DEF Install, Submit, SubmitFails, SubmitFailed, Unlock, Failing, Maybe, Futures
    <2>2. CASE Register(c)
      <3>1. issued + 1 \in JobIds
        <4>1. issued \in 0..MaxJobs /\ issued' = issued + 1
          BY <2>2 DEF Inv, Types, PlainTypes, Register
        <4> QED
          BY <1>1, <4>1, Facts
      <3>2. /\ current' = [current EXCEPT ![u] = issued + 1] /\ slots' = slots - 1 /\ slots > 0
            /\ UNCHANGED <<userLock, future>>
        BY <2>2 DEF Register
      <3> HIDE DEF u
      <3>3. current' \in [Users -> Maybe(JobIds)]
        BY <1>0, <3>1, <3>2 DEF Maybe
      <3>4. slots' \in Nat
        BY <1>0, <3>2
      <3> QED
        BY <1>0, <3>2, <3>3, <3>4
    <2>3. CASE Enter(c) \/ Join(c) \/ Busy(c)
      BY <1>0, <2>3 DEF Enter, Join, Busy, Unlock, Maybe
    <2> QED
      BY <1>0, <1>2, <2>1, <2>2, <2>3
      DEF Proceed, RestoreNothing, RestoreEnded, RestoreActive, Mark, Persist
  <1>3. ASSUME NEW j \in JobIds,
               Work(j) \/ Report(j) \/ Cancel(j) \/ \E s \in StateIds : Resync(j, s)
        PROVE  Plain
    <2>1. CASE Begin(j) \/ Report(j) \/ Cancel(j) \/ \E status \in Ended : End(j, status)
      BY <1>0, <2>1 DEF Begin, Report, Cancel, End, Futures
    <2>2. CASE Save(j)
      BY <1>0, <2>2 DEF Save, Maybe
    <2>3. CASE Finish(j)
      BY <1>0, <2>3 DEF Finish, Freed, Futures
    <2>4. ASSUME NEW s \in StateIds, Resync(j, s) PROVE Plain
      <3>1. /\ userLock' = [userLock EXCEPT ![jobs[j].user] = j]
            /\ UNCHANGED <<current, slots, future>>
        BY <2>4 DEF Resync
      <3> QED
        BY <1>0, <3>1 DEF Maybe
    <2> QED
      BY <1>3, <2>1, <2>2, <2>3, <2>4 DEF Work
  <1>4. ASSUME Restart PROVE Plain
    BY <1>4, Facts DEF Restart, Maybe, Futures
  <1>5. ASSUME NEW c \in Callers, Enters(c) PROVE Plain
    BY <1>0, <1>5, EnterStep
  <1>6. ASSUME UNCHANGED vars PROVE Plain
    BY <1>0, <1>6 DEF vars, memory
  <1> QED
    BY <1>1, <1>2, <1>3, <1>4, <1>5, <1>6, WhoCalls DEF PlainTypes

(* How a step moves a slot.                                                 *)
LEMMA SlotMoves ==
  ASSUME Inv, [Next]_vars, ~Restart
  PROVE  \/ UNCHANGED <<slots, Live, Admitting>>
         \/ \E c \in Callers : /\ c \notin Admitting /\ Admitting' = Admitting \cup {c}
                               /\ Live' = Live /\ slots' = slots - 1
         \/ \E c \in Admitting, j \in JobIds :
              /\ Admitting' = Admitting \ {c}
              /\ j \notin Live /\ Live' = Live \cup {j} /\ slots' = slots
         \/ \E c \in Admitting : /\ Admitting' = Admitting \ {c}
                                 /\ Live' = Live /\ slots' = slots + 1
         \/ \E j \in Live : /\ Live' = Live \ {j}
                            /\ Admitting' = Admitting /\ slots' = slots + 1
  <1>0. /\ future \in [JobIds -> Futures] /\ call \in [Callers -> CallsMade] /\ CallsSound
    BY DEF Inv, Types, PlainTypes
  <1>1. ASSUME NEW c \in Callers, Register(c), Proceed(c)
        PROVE  /\ c \notin Admitting /\ Admitting' = Admitting \cup {c}
               /\ Live' = Live /\ slots' = slots - 1
    <2>1. /\ call[c].pc = "deciding" /\ call'[c].pc = "persisting"
          /\ call' = [call EXCEPT ![c] = call'[c]]
      BY <1>0, <1>1, CallStep DEF Register, At, CallsMade
    <2> QED
      BY <1>0, <1>1, <2>1 DEF Register, Admitting, Live
  <1>2. ASSUME NEW c \in Callers, Submit(c), Proceed(c)
        PROVE  \E j \in JobIds : /\ c \in Admitting /\ Admitting' = Admitting \ {c}
                                 /\ j \notin Live /\ Live' = Live \cup {j} /\ slots' = slots
    <2> DEFINE j == call[c].job.id
    <2>1. call[c].pc = "submitting" /\ call' = [call EXCEPT ![c] = Idle] /\ Idle.pc = "idle"
      BY <1>2 DEF Submit, At, Return, Idle
    <2>2. j \in JobIds /\ future[j] = "none"
      BY <1>0, <2>1, InHandIsMade DEF CallsSound, CallSound, Admits
    <2>3. future' = [future EXCEPT ![j] = "pending"] /\ slots' = slots
      BY <1>2 DEF Submit
    <2> HIDE DEF j
    <2>4. c \in Admitting /\ Admitting' = Admitting \ {c}
      BY <1>0, <2>1 DEF Admitting
    <2>5. j \notin Live /\ Live' = Live \cup {j}
      BY <1>0, <2>2, <2>3 DEF Live
    <2> QED
      BY <2>2, <2>3, <2>4, <2>5
  <1>3. ASSUME NEW c \in Callers, SubmitFailed(c), Proceed(c)
        PROVE  /\ c \in Admitting /\ Admitting' = Admitting \ {c}
               /\ Live' = Live /\ slots' = slots + 1
    <2>1. call[c].pc = "failing" /\ call' = [call EXCEPT ![c] = Idle] /\ Idle.pc = "idle"
      BY <1>3 DEF SubmitFailed, At, Return, Idle
    <2> QED
      BY <1>0, <1>3, <2>1 DEF SubmitFailed, Failing, Admitting, Live
  <1>4. ASSUME NEW c \in Callers, Proceed(c), ~Register(c), ~Submit(c), ~SubmitFailed(c)
        PROVE  UNCHANGED <<slots, Live, Admitting>>
    <2>1. slots' = slots /\ future' = future
      BY <1>4 DEF Proceed, RestoreNothing, RestoreEnded, RestoreActive, Mark, Install, Enter,
                  Join, Busy, Persist, SubmitFails
    <2>2. /\ call' = [call EXCEPT ![c] = call'[c]]
          /\ call'[c].pc \in Admits <=> call[c].pc \in Admits
      BY <1>4, CallStep, AdmitsLeave
    <2> QED
      BY <1>0, <2>1, <2>2 DEF Admitting, Admits, Live
  <1>5. ASSUME NEW c \in Callers, Enters(c) PROVE UNCHANGED <<slots, Live, Admitting>>
    <2>1. /\ call' = [call EXCEPT ![c] = call'[c]] /\ call[c].pc = "idle" /\ call'[c].pc \in Asks
          /\ UNCHANGED <<slots, future>>
      BY <1>5, EnterStep
    <2> QED
      BY <1>0, <2>1 DEF Admitting, Asks, Live
  <1>6. ASSUME NEW j \in JobIds, Finish(j)
        PROVE  /\ j \in Live /\ Live' = Live \ {j}
               /\ Admitting' = Admitting /\ slots' = slots + 1
    BY <1>0, <1>6 DEF Finish, Finished, Freed, Live, Admitting
  <1>7. ASSUME NEW j \in JobIds, ~Finish(j), call' = call,
               Work(j) \/ Report(j) \/ Cancel(j) \/ \E s \in StateIds : Resync(j, s)
        PROVE  UNCHANGED <<slots, Live, Admitting>>
    <2>1. Admitting' = Admitting /\ slots' = slots
      BY <1>7 DEF Admitting, Work, Begin, Save, End, Report, Cancel, Resync
    <2>2. \/ future' = future
          \/ /\ future[j] # "none"
             /\ \E f \in Futures \ {"none"} : future' = [future EXCEPT ![j] = f]
      BY <1>7 DEF Work, Begin, Save, End, Report, Cancel, Resync, Saved, Futures
    <2>3. Live' = Live
      BY <1>0, <2>2 DEF Live
    <2> QED
      BY <2>1, <2>3
  <1>8. CASE UNCHANGED vars
    BY <1>8 DEF vars, memory, Live, Admitting
  <1>9. ASSUME NEW c \in Callers, Proceed(c)
        PROVE  \/ UNCHANGED <<slots, Live, Admitting>>
               \/ /\ c \notin Admitting /\ Admitting' = Admitting \cup {c}
                  /\ Live' = Live /\ slots' = slots - 1
               \/ \E j \in JobIds : /\ c \in Admitting /\ Admitting' = Admitting \ {c}
                                    /\ j \notin Live /\ Live' = Live \cup {j} /\ slots' = slots
               \/ /\ c \in Admitting /\ Admitting' = Admitting \ {c}
                  /\ Live' = Live /\ slots' = slots + 1
    BY <1>1, <1>2, <1>3, <1>4, <1>9
  <1> QED
    BY <1>5, <1>6, <1>7, <1>8, <1>9, WhoCalls

LEMMA SlotsStep == Inv /\ [Next]_vars /\ PlainTypes' => SlotsAccounted'
  <1> SUFFICES ASSUME Inv, [Next]_vars, PlainTypes' PROVE SlotsAccounted'
    OBVIOUS
  <1>0. /\ IsFiniteSet(Live) /\ IsFiniteSet(Admitting) /\ slots \in Nat /\ slots' \in Nat
        /\ Capacity \in Nat /\ SlotsAccounted
        /\ Cardinality(Live) \in Nat /\ Cardinality(Admitting) \in Nat
    <2>1. Live \subseteq JobIds /\ Admitting \subseteq Callers
      BY DEF Live, Admitting
    <2>2. IsFiniteSet(Live) /\ IsFiniteSet(Admitting)
      BY <2>1, Facts, FS_Subset
    <2> QED
      BY <2>2, Facts, FS_CardinalityType DEF Inv, Types, PlainTypes
  <1>1. CASE Restart
    <2>1. Live' = {} /\ Admitting' = {} /\ slots' = Capacity
      BY <1>1 DEF Restart, Live, Admitting, Idle
    <2> QED
      BY <1>0, <2>1, FS_EmptySet DEF SlotsAccounted
  <1>2. CASE UNCHANGED <<slots, Live, Admitting>>
    BY <1>0, <1>2 DEF SlotsAccounted
  <1>3. ASSUME NEW c \in Callers, c \notin Admitting, Admitting' = Admitting \cup {c},
               Live' = Live, slots' = slots - 1
        PROVE  SlotsAccounted'
    <2>1. Cardinality(Admitting') = Cardinality(Admitting) + 1
      BY <1>0, <1>3, FS_AddElement
    <2> QED
      BY <1>0, <1>3, <2>1 DEF SlotsAccounted
  <1>4. ASSUME NEW c \in Admitting, Admitting' = Admitting \ {c}
        PROVE  Cardinality(Admitting') = Cardinality(Admitting) - 1
    BY <1>0, <1>4, FS_RemoveElement
  <1>5. ASSUME NEW c \in Admitting, NEW j \in JobIds, Admitting' = Admitting \ {c},
               j \notin Live, Live' = Live \cup {j}, slots' = slots
        PROVE  SlotsAccounted'
    <2>1. Cardinality(Live') = Cardinality(Live) + 1
      BY <1>0, <1>5, FS_AddElement
    <2>2. Cardinality(Admitting') = Cardinality(Admitting) - 1
      BY <1>4, <1>5
    <2> QED
      BY <1>0, <1>5, <2>1, <2>2 DEF SlotsAccounted
  <1>6. ASSUME NEW c \in Admitting, Admitting' = Admitting \ {c}, Live' = Live,
               slots' = slots + 1
        PROVE  SlotsAccounted'
    BY <1>0, <1>4, <1>6 DEF SlotsAccounted
  <1>7. ASSUME NEW j \in Live, Live' = Live \ {j}, Admitting' = Admitting, slots' = slots + 1
        PROVE  SlotsAccounted'
    <2>1. Cardinality(Live') = Cardinality(Live) - 1
      BY <1>0, <1>7, FS_RemoveElement
    <2> QED
      BY <1>0, <1>7, <2>1 DEF SlotsAccounted
  <1>8. CASE ~Restart
    <2>1. CASE \E c \in Callers : /\ c \notin Admitting /\ Admitting' = Admitting \cup {c}
                                /\ Live' = Live /\ slots' = slots - 1
      BY <1>3, <2>1
    <2>2. CASE \E c \in Admitting, j \in JobIds :
                 /\ Admitting' = Admitting \ {c}
                 /\ j \notin Live /\ Live' = Live \cup {j} /\ slots' = slots
      BY <1>5, <2>2
    <2>3. CASE \E c \in Admitting : /\ Admitting' = Admitting \ {c}
                                  /\ Live' = Live /\ slots' = slots + 1
      BY <1>6, <2>3
    <2>4. CASE \E j \in Live : /\ Live' = Live \ {j}
                             /\ Admitting' = Admitting /\ slots' = slots + 1
      BY <1>7, <2>4
    <2> QED
      BY <1>2, <1>8, <2>1, <2>2, <2>3, <2>4, SlotMoves
  <1> QED
    BY <1>1, <1>8

(* The numbers left.                                                        *)
LEMMA EnoughStep == Inv /\ [Next]_vars => Enough'
  <1> SUFFICES ASSUME Inv, [Next]_vars PROVE Enough'
    OBVIOUS
  <1>0. /\ issued \in Nat /\ issued' \in Nat /\ MaxJobs \in Nat /\ Enough
        /\ call \in [Callers -> CallsMade]
        /\ Starters \subseteq Callers /\ IsFiniteSet(Starters) /\ Starters \cap Pollers = {}
    <2>1. issued' \in 0..MaxJobs
      BY Growth
    <2>2. issued \in 0..MaxJobs /\ Enough /\ call \in [Callers -> CallsMade]
      BY DEF Inv, Types, PlainTypes
    <2> QED
      BY <2>1, <2>2, Facts
  <1>1. IsFiniteSet(Asking) /\ Cardinality(Asking) \in Nat
    <2>1. IsFiniteSet(Asking)
      BY <1>0, FS_Subset DEF Asking
    <2> QED
      BY <2>1, FS_CardinalityType
  <1>2. ASSUME Asking' \subseteq Asking, issued' = issued PROVE Enough'
    <2>1. Cardinality(Asking') <= Cardinality(Asking) /\ Cardinality(Asking') \in Nat
      BY <1>1, <1>2, FS_Subset, FS_CardinalityType
    <2> QED
      BY <1>0, <1>1, <1>2, <2>1 DEF Enough
  <1>3. ASSUME NEW c \in Callers, Proceed(c) PROVE Enough'
    <2>1. /\ call' = [call EXCEPT ![c] = call'[c]]
          /\ call'[c].pc \in Asks => call[c].pc \in Asks
      BY <1>3, CallStep
    <2>2. CASE Register(c)
      <3>1. call[c].pc = "deciding" /\ call'[c].pc = "persisting" /\ issued' = issued + 1
        BY <1>0, <2>2 DEF Register, At, CallsMade
      <3>2. c \in Starters
        BY <3>1 DEF Inv, CallsSound, CallSound
      <3>3. c \in Asking /\ Asking' = Asking \ {c}
        BY <1>0, <2>1, <3>1, <3>2 DEF Asking, Asks
      <3>4. Cardinality(Asking') = Cardinality(Asking) - 1
        BY <1>1, <3>3, FS_RemoveElement
      <3> QED
        BY <1>0, <1>1, <3>1, <3>4 DEF Enough
    <2>3. CASE ~Register(c)
      <3>1. issued' = issued
        BY <1>3, <2>3
        DEF Proceed, RestoreNothing, RestoreEnded, RestoreActive, Mark, Install, Enter, Join,
            Busy, Persist, Submit, SubmitFails, SubmitFailed
      <3>2. Asking' \subseteq Asking
        BY <1>0, <2>1 DEF Asking
      <3> QED
        BY <1>2, <3>1, <3>2
    <2> QED
      BY <2>2, <2>3
  <1>4. ASSUME NEW c \in Callers, Enters(c) PROVE Enough'
    <2>1. call' = [call EXCEPT ![c] = call'[c]] /\ call[c].pc = "idle" /\ issued' = issued
      BY <1>4, EnterStep
    <2>2. CASE c \notin Starters
      <3>1. Asking' \subseteq Asking
        BY <1>0, <2>1, <2>2 DEF Asking
      <3> QED
        BY <1>2, <2>1, <3>1
    <2>3. CASE c \in Starters
      <3> DEFINE Others == {d \in Starters : ~At(d, "idle")}
      <3>1. issued + Cardinality(Others) < MaxJobs
        BY <1>0, <1>4, <2>3 DEF Enters, Start
      <3>2. IsFiniteSet(Others) /\ Asking \subseteq Others /\ c \notin Asking
        BY <1>0, <2>1, FS_Subset DEF Asking, Asks, At
      <3> HIDE DEF Others
      <3>3. Cardinality(Asking) <= Cardinality(Others) /\ Cardinality(Others) \in Nat
        BY <3>2, FS_Subset, FS_CardinalityType
      <3>4. Asking' \subseteq Asking \cup {c}
        BY <1>0, <2>1 DEF Asking
      <3>5. IsFiniteSet(Asking \cup {c}) /\ Cardinality(Asking \cup {c}) = Cardinality(Asking) + 1
        BY <1>1, <3>2, FS_AddElement
      <3>6. Cardinality(Asking') <= Cardinality(Asking) + 1 /\ Cardinality(Asking') \in Nat
        BY <3>4, <3>5, FS_Subset, FS_CardinalityType
      <3> QED
        BY <1>0, <1>1, <2>1, <3>1, <3>3, <3>6 DEF Enough
    <2> QED
      BY <2>2, <2>3
  <1>5. CASE Restart
    <2>1. Asking' = {} /\ issued' = issued
      BY <1>0, <1>5 DEF Restart, Asking, Asks, Idle
    <2> QED
      BY <1>2, <2>1
  <1>6. ASSUME call' = call, issued' = issued PROVE Enough'
    <2>1. Asking' = Asking
      BY <1>6 DEF Asking
    <2> QED
      BY <1>2, <1>6, <2>1
  <1>7. ASSUME NEW j \in JobIds,
               Work(j) \/ Report(j) \/ Cancel(j) \/ \E s \in StateIds : Resync(j, s)
        PROVE  issued' = issued
    BY <1>7 DEF Work, Begin, Save, Finish, End, Report, Cancel, Resync
  <1>8. UNCHANGED vars => issued' = issued
    BY DEF vars
  <1> QED
    BY <1>3, <1>4, <1>5, <1>6, <1>7, <1>8, WhoCalls

-----------------------------------------------------------------------------
LEMMA InvStep == Inv /\ [Next]_vars => Inv'
  BY RowsStep, PlainStep, CallsStep, FuturesStep, EnoughStep, SlotsStep, PhantomStep
  DEF Inv, Types

(* The inductive invariant of the coordinator holds in every reachable      *)
(* state.                                                                   *)
THEOREM Invariance == Spec => []Inv
  BY InitInv, InvStep, PTL DEF Spec

(* Every variable keeps its type; in particular a job, a row and a call     *)
(* under way never name a job that was not issued.                          *)
THEOREM TypeCorrect == Spec => []TypeOK
  <1>1. Inv => TypeOK
    <2> SUFFICES ASSUME Inv PROVE TypeOK
      OBVIOUS
    <2>1. Made \subseteq Jobs /\ issued \in 0..MaxJobs
      BY MadeIsJob DEF Inv, Types, PlainTypes
    <2>2. CallsMade \subseteq Calls
      BY <2>1 DEF CallsMade, Calls, Pcs, Maybe, Inv, Types, PlainTypes
    <2>3. slots \in 0..Capacity
      <3>1. IsFiniteSet(Live) /\ IsFiniteSet(Admitting)
        BY Facts, FS_Subset DEF Live, Admitting
      <3>2. Cardinality(Live) \in Nat /\ Cardinality(Admitting) \in Nat
        BY <3>1, FS_CardinalityType
      <3> QED
        BY <3>2, Facts DEF Inv, Types, PlainTypes, SlotsAccounted
    <2> QED
      BY <2>1, <2>2, <2>3
      DEF Inv, Types, RowTypes, PlainTypes, TypeOK, Maybe, Futures, Known
  <1> QED
    BY <1>1, Invariance, PTL

(* background_jobs.py's admission: the free slots and the jobs that hold    *)
(* one always add up, whatever is refused, cancelled, failed or interrupted *)
(* and whoever polls, for any number of callers, users and workers.         *)
THEOREM SlotsAlwaysAccounted == Spec => []SlotsAccounted
  <1>1. Inv => SlotsAccounted
    BY DEF Inv
  <1> QED
    BY <1>1, Invariance, PTL

(* A job shown as queued or running is under way in this process, after any *)
(* number of restarts.                                                      *)
THEOREM NothingPhantom == Spec => []NoPhantom
  <1>1. Inv => NoPhantom
    BY DEF Inv
  <1> QED
    BY <1>1, Invariance, PTL

-----------------------------------------------------------------------------
(* That a job under way is retained, and never doubled by a start that may  *)
(* join it, as long as nobody polls (a poll restores rows without the       *)
(* user's lock, and breaks both): for any users, starters, workers, records *)
(* and restarts.  The argument: what a start read of its user stays true    *)
(* while it holds the user's lock, and what a start restores was not there. *)

Restores == {"restoring", "marking", "installing"}
Holds == Restores \cup {"deciding"} \cup Admits

(* A start past the lock has it, and restores only where there is nothing.  *)
Locked ==
  \A c \in Callers : call[c].pc \in Holds =>
    /\ userLock[call[c].user] = c
    /\ call[c].pc \in Restores => current[call[c].user] = None

(* The current job of a user is in the map and the newest of the user.      *)
CurrentKnown ==
  \A u \in Users : current[u] # None => jobs[current[u]] # None /\ jobs[current[u]].user = u
Newest ==
  \A j \in JobIds : jobs[j] # None =>
    current[jobs[j].user] # None /\ j <= current[jobs[j].user]

(* What waits or runs, and what is about to, is shown as under way.         *)
ActiveFutures == \A j \in JobIds : future[j] \in {"pending", "running"} => IsActive(jobs[j])
Admitted ==
  \A c \in Callers :
    call[c].pc \in {"persisting", "submitting"} => IsActive(jobs[call[c].job.id])

(* What a start decides on is at least as much as there is to join.         *)
Snapshot ==
  \A c \in Callers : call[c].pc = "deciding" =>
    LET k == current[call[c].user]
    IN  k # None /\ IsActive(jobs[k]) =>
          IsActive(call[c].job) /\ call[c].job.state = jobs[k].state

(* A job and every row of it, wherever, are one user's.                     *)
By(owner, r) == r # None => r.user = owner[r.id]
OwnedBy(owner) ==
  /\ \A j \in JobIds : By(owner, jobs[j]) /\ By(owner, durable[j]) /\ By(owner, write[j])
  /\ \A c \in Callers : By(owner, call[c].job)
OneOwner == \E owner \in [JobIds -> Maybe(Users)] : OwnedBy(owner)

Quiet ==
  /\ Locked /\ CurrentKnown /\ Newest /\ ActiveFutures /\ Admitted /\ Snapshot /\ OneOwner

-----------------------------------------------------------------------------
LEMMA QuietInit == Init => Quiet
  <1> SUFFICES ASSUME Init PROVE Quiet
    OBVIOUS
  <1>1. \A c \in Callers : call[c].pc = "idle" /\ call[c].job = None
    BY DEF Init, Fresh, Idle
  <1>2. Locked /\ CurrentKnown /\ Newest /\ ActiveFutures /\ Admitted /\ Snapshot
    BY <1>1
    DEF Init, Fresh, Locked, CurrentKnown, Newest, ActiveFutures, Admitted, Snapshot, Holds,
        Restores, Admits
  <1>3. OneOwner
    <2> DEFINE owner == [j \in JobIds |-> None]
    <2>1. owner \in [JobIds -> Maybe(Users)] /\ OwnedBy(owner)
      BY <1>1 DEF Init, Fresh, OwnedBy, By, Maybe
    <2> QED
      BY <2>1 DEF OneOwner
  <1> QED
    BY <1>2, <1>3 DEF Quiet

(* How a call comes to be past the lock.                                    *)
LEMMA CallMoves ==
  ASSUME Inv, [Next]_vars, ~Restart, Pollers = {}, NEW d \in Callers, call'[d].pc \in Holds
  PROVE  \/ call'[d] = call[d] /\ ~Proceed(d)
         \/ Enter(d) /\ Proceed(d) /\ call[d].pc = "locking"
         \/ /\ Proceed(d) /\ call[d].pc \in Holds /\ ~Enter(d)
            /\ call'[d].user = call[d].user /\ userLock' = userLock
            /\ call'[d].pc \in Restores => call[d].pc \in Restores /\ current' = current
  <1>0. call \in [Callers -> CallsMade] /\ d \in Starters /\ Starters = Callers
    BY DEF Inv, Types, Callers
  <1>1. CASE ~Proceed(d)
    <2>1. ASSUME Enters(d) PROVE FALSE
      <3>1. PICK u \in Users, s \in StateIds, b \in BOOLEAN : Start(d, u, s, b)
        BY <1>0, <2>1 DEF Enters
      <3>2. call'[d].pc = "locking"
        BY <1>0, <3>1 DEF Start
      <3> QED
        BY <3>2 DEF Holds, Restores, Admits
    <2>2. call'[d] = call[d]
      <3>1. CASE call' = call
        BY <3>1
      <3>2. ASSUME NEW c \in Callers, Proceed(c) \/ Enters(c), c # d PROVE call'[d] = call[d]
        <4>1. call' = [call EXCEPT ![c] = call'[c]]
          BY <3>2, CallStep, EnterStep
        <4> QED
          BY <1>0, <3>2, <4>1
      <3> QED
        BY <1>1, <2>1, <3>1, <3>2, WhoCalls
    <2> QED
      BY <1>1, <2>2
  <1>2. CASE Enter(d) /\ Proceed(d)
    BY <1>2 DEF Enter, At
  <1>3. CASE Proceed(d) /\ ~Enter(d)
    <2>1. ~Return(d)
      BY <1>0 DEF Return, Idle, Holds, Restores, Admits
    <2>2. ASSUME NEW pc \in Pcs, Goto(d, pc)
          PROVE  call'[d].pc = pc /\ call'[d].user = call[d].user
      BY <1>0, <2>2 DEF Goto, CallsMade
    <2>3. CASE RestoreNothing(d) \/ Install(d)
      <3>1. Goto(d, "deciding") /\ userLock' = userLock /\ call[d].pc \in Holds
        BY <1>0, <2>3 DEF RestoreNothing, Install, Answer, At, Holds, Restores
      <3> QED
        BY <1>3, <2>2, <3>1 DEF Pcs, Restores
    <2>4. CASE RestoreEnded(d) \/ RestoreActive(d)
      <3>1. call'[d].user = call[d].user
        BY <1>0, <2>4 DEF RestoreEnded, RestoreActive, CallsMade
      <3> QED
        BY <1>3, <2>4, <3>1 DEF RestoreEnded, RestoreActive, At, Holds, Restores
    <2>5. CASE Mark(d) \/ Persist(d) \/ SubmitFails(d)
      <3>1. /\ \E pc \in {"installing", "submitting", "failing"} : Goto(d, pc)
            /\ UNCHANGED <<userLock, current>> /\ call[d].pc \in Holds
            /\ Goto(d, "installing") => call[d].pc \in Restores
        BY <1>0, <2>2, <2>5 DEF Mark, Persist, SubmitFails, At, Holds, Restores, Admits, Pcs
      <3> QED
        BY <1>3, <2>2, <3>1 DEF Pcs, Restores
    <2>6. CASE Register(d)
      <3>1. call'[d].pc = "persisting" /\ call'[d].user = call[d].user
        BY <1>0, <2>6 DEF Register, CallsMade
      <3> QED
        BY <1>3, <2>6, <3>1 DEF Register, At, Holds, Restores
    <2> QED
      BY <1>3, <2>1, <2>3, <2>4, <2>5, <2>6
      DEF Proceed, Join, Busy, Submit, SubmitFailed
  <1> QED
    BY <1>1, <1>2, <1>3

(* Whoever holds a user's lock is the only one to move the user.            *)
LEMMA LockKept ==
  ASSUME Inv, Quiet, [Next]_vars, ~Restart, Pollers = {},
         NEW d \in Callers, call[d].pc \in Holds, ~Proceed(d)
  PROVE  /\ userLock'[call[d].user] = d
         /\ current'[call[d].user] = current[call[d].user]
  <1> DEFINE u == call[d].user
  <1>0. /\ userLock \in [Users -> Maybe(Callers \cup JobIds)]
        /\ current \in [Users -> Maybe(JobIds)] /\ u \in Users /\ userLock[u] = d
        /\ d # None /\ d \notin JobIds
        /\ \A c \in Callers : call[c].pc \in Holds => userLock[call[c].user] = c
    <2>1. u \in Users
      BY DEF Inv, CallsSound, CallSound, Holds, Restores, Admits
    <2> QED
      BY <2>1, Facts, JobsAssumption DEF Inv, Types, PlainTypes, Quiet, Locked
  <1>1. ASSUME NEW c \in Callers, Proceed(c)
        PROVE  userLock'[u] = d /\ current'[u] = current[u]
    <2>1. c # d
      BY <1>1
    <2>2. call[c].pc \in Holds => call[c].user # u
      BY <1>0, <2>1
    <2>3. CASE Enter(c)
      BY <1>0, <2>3 DEF Enter
    <2>4. CASE Join(c) \/ Busy(c) \/ Submit(c) \/ SubmitFailed(c)
      <3>1. Unlock(call[c].user) /\ current' = current /\ call[c].pc \in Holds
        BY <2>4 DEF Join, Busy, Submit, SubmitFailed, At, Holds, Admits
      <3> QED
        BY <1>0, <2>2, <3>1 DEF Unlock
    <2>5. CASE Install(c) \/ Register(c)
      <3>1. /\ userLock' = userLock /\ call[c].pc \in Holds
            /\ \E k : current' = [current EXCEPT ![call[c].user] = k]
        BY <2>5 DEF Install, Register, At, Holds, Restores
      <3> QED
        BY <1>0, <2>2, <3>1
    <2> QED
      BY <1>0, <1>1, <2>3, <2>4, <2>5
      DEF Proceed, RestoreNothing, RestoreEnded, RestoreActive, Mark, Persist, SubmitFails
  <1>2. ASSUME NEW j \in JobIds,
               Work(j) \/ Report(j) \/ Cancel(j) \/ \E s \in StateIds : Resync(j, s)
        PROVE  userLock'[u] = d /\ current'[u] = current[u]
    <2>1. CASE Save(j)
      BY <1>0, <2>1 DEF Save
    <2>2. ASSUME NEW s \in StateIds, Resync(j, s) PROVE userLock'[u] = d /\ current'[u] = current[u]
      <3>1. /\ userLock[jobs[j].user] = None /\ current' = current
            /\ userLock' = [userLock EXCEPT ![jobs[j].user] = j]
        BY <2>2 DEF Resync
      <3> QED
        BY <1>0, <3>1
    <2> QED
      BY <1>0, <1>2, <2>1, <2>2 DEF Work, Begin, End, Finish, Report, Cancel
  <1>3. ASSUME NEW c \in Callers, Enters(c) PROVE userLock'[u] = d /\ current'[u] = current[u]
    BY <1>0, <1>3, EnterStep
  <1>4. ASSUME UNCHANGED vars PROVE userLock'[u] = d /\ current'[u] = current[u]
    BY <1>0, <1>4 DEF vars, memory
  <1> QED
    BY <1>1, <1>2, <1>3, <1>4, WhoCalls

LEMMA LockedStep ==
  ASSUME Inv, Quiet, [Next]_vars, ~Restart, Pollers = {}
  PROVE  Locked'
  <1> SUFFICES ASSUME NEW d \in Callers, call'[d].pc \in Holds
               PROVE  /\ userLock'[call'[d].user] = d
                      /\ call'[d].pc \in Restores => current'[call'[d].user] = None
    BY DEF Locked
  <1>0. /\ userLock \in [Users -> Maybe(Callers \cup JobIds)] /\ call \in [Callers -> CallsMade]
        /\ \A c \in Callers : call[c].pc # "idle" => call[c].user \in Users
        /\ Locked
    BY DEF Inv, Types, PlainTypes, CallsSound, CallSound, Quiet
  <1>1. CASE call'[d] = call[d] /\ ~Proceed(d)
    BY <1>0, <1>1, LockKept DEF Locked
  <1>2. CASE Enter(d) /\ Proceed(d) /\ call[d].pc = "locking"
    <2>1. /\ userLock' = [userLock EXCEPT ![call[d].user] = d] /\ current' = current
          /\ call[d].user \in Users
      BY <1>0, <1>2 DEF Enter
    <2>2. /\ call'[d].user = call[d].user
          /\ \/ call'[d].pc = "restoring" /\ current[call[d].user] = None
             \/ call'[d].pc = "deciding"
      BY <1>0, <1>2 DEF Enter, Goto, CallsMade
    <2> QED
      BY <1>0, <2>1, <2>2 DEF Restores
  <1>3. CASE /\ call[d].pc \in Holds
             /\ call'[d].user = call[d].user /\ userLock' = userLock
             /\ call'[d].pc \in Restores => call[d].pc \in Restores /\ current' = current
    BY <1>0, <1>3 DEF Locked
  <1> QED
    BY <1>1, <1>2, <1>3, CallMoves

-----------------------------------------------------------------------------
(* What happens to the map of jobs.                                         *)
Installs(c) ==
  LET r == call[c].job
      u == call[c].user
  IN  /\ Install(c) /\ Proceed(c)
      /\ r \in Made /\ r.id \in JobIds /\ r.user = u /\ u \in Users /\ ~IsActive(r)
      /\ current[u] = None /\ jobs[r.id] = None
      /\ jobs' = [jobs EXCEPT ![r.id] = r]
      /\ current' = [current EXCEPT ![u] = r.id]

Registers(c, gone) ==
  LET n == issued + 1
      u == call[c].user
  IN  /\ Register(c) /\ Proceed(c)
      /\ n \in JobIds /\ u \in Users
      /\ gone \subseteq Evictable
      /\ jobs'[n] # None /\ jobs'[n].user = u /\ IsActive(jobs'[n])
      /\ \A j \in JobIds \ {n} : jobs'[j] = IF j \in gone THEN None ELSE jobs[j]
      /\ current' = [current EXCEPT ![u] = n]

Ends(k) ==
  /\ future'[k] \notin {"pending", "running"}
  /\ \A c \in Callers : call'[c].pc \in {"persisting", "submitting"} => call'[c].job.id # k

Touches(k) ==
  /\ jobs[k] # None /\ jobs'[k] # None
  /\ jobs' = [jobs EXCEPT ![k] = jobs'[k]] /\ current' = current
  /\ jobs'[k].user = jobs[k].user
  /\ jobs'[k].state = jobs[k].state \/ userLock[jobs[k].user] = None
  /\ IsActive(jobs'[k]) => IsActive(jobs[k])
  /\ IsActive(jobs[k]) => IsActive(jobs'[k]) \/ Ends(k)

LEMMA InstallEffect ==
  ASSUME Inv, Quiet, NEW c \in Callers, Install(c), Proceed(c)
  PROVE  Installs(c)
  <1> DEFINE r == call[c].job
             u == call[c].user
  <1>1. /\ call[c].pc = "installing" /\ r \in Made /\ r.id \in JobIds /\ r.user = u /\ u \in Users
    BY InHandIsMade DEF Install, At
  <1>2. ~IsActive(r)
    BY <1>1 DEF Inv, CallsSound, CallSound
  <1>3. current[u] = None
    BY <1>1 DEF Quiet, Locked, Holds, Restores
  <1>4. jobs[r.id] = None
    <2>1. PICK owner \in [JobIds -> Maybe(Users)] : OwnedBy(owner)
      BY DEF Quiet, OneOwner
    <2>2. r # None /\ r.user = owner[r.id]
      BY <1>1, <2>1, MadeIsJob DEF OwnedBy, By, Inv, Types, PlainTypes
    <2>3. ASSUME jobs[r.id] # None PROVE FALSE
      <3>1. jobs[r.id].id = r.id /\ jobs[r.id].user = owner[r.id]
        BY <1>1, <2>1, <2>3 DEF OwnedBy, By, Inv, Types, RowTypes
      <3>2. jobs[r.id].user = u
        BY <1>1, <2>2, <3>1
      <3> QED
        BY <1>1, <1>3, <2>3, <3>2 DEF Quiet, Newest
    <2> QED
      BY <2>3
  <1> QED
    BY <1>1, <1>2, <1>3, <1>4 DEF Installs, Install

LEMMA RegisterEffect ==
  ASSUME Inv, [Next]_vars, NEW c \in Callers, Register(c), Proceed(c)
  PROVE  \E gone \in SUBSET Evictable : Registers(c, gone)
  <1> DEFINE n == issued + 1
             u == call[c].user
             job == [id |-> n, user |-> u, state |-> call[c].state,
                     status |-> "queued", at |-> call[c].now]
  <1>1. n \in JobIds
    <2>1. issued' \in 0..MaxJobs /\ issued \in 0..MaxJobs /\ issued' = issued + 1
      BY Growth DEF Register, Inv, Types, PlainTypes
    <2> QED
      BY <2>1, Facts
  <1>2. u \in Users /\ c \in Starters /\ call[c].state \in StateIds
    BY DEF Register, At, Inv, CallsSound, CallSound
  <1>3. PICK gone \in SUBSET Evictable :
          jobs' = [j \in JobIds |-> IF j = job.id THEN job
                                    ELSE IF j \in gone THEN None ELSE jobs[j]]
    BY DEF Register
  <1>4. job.id = n /\ job.user = u /\ job.status = "queued"
    OBVIOUS
  <1>5. job # None
    <2>1. job \in Made'
      <3>1. jobs'[n] = job
        BY <1>1, <1>3
      <3>2. call'[c].job = job /\ call'[c] \in CallsMade'
        BY CallStep DEF Register, Inv, Types, CallsMade
      <3>3. call'[c].pc = "persisting"
        BY DEF Register, Inv, Types, CallsMade
      <3>4. CallSound(c)'
        BY CallStep
      <3> QED
        BY <3>2, <3>3, <3>4 DEF CallSound, CallsMade, Maybe, Admits
    <2> QED
      BY <2>1, Growth
  <1>6. current' = [current EXCEPT ![u] = n]
    BY DEF Register
  <1> HIDE DEF job, n, u
  <1>7. /\ jobs'[n] = job
        /\ \A j \in JobIds \ {n} : jobs'[j] = IF j \in gone THEN None ELSE jobs[j]
    BY <1>1, <1>3, <1>4
  <1>8. IsActive(job)
    BY <1>4, <1>5 DEF IsActive, Active
  <1>9. Registers(c, gone)
    BY <1>1, <1>2, <1>4, <1>5, <1>6, <1>7, <1>8 DEF Registers, n, u
  <1> QED
    BY <1>9

LEMMA JobsEffect ==
  ASSUME Inv, Quiet, [Next]_vars, ~Restart, Pollers = {}
  PROVE  \/ UNCHANGED <<jobs, current>>
         \/ \E c \in Callers : Installs(c)
         \/ \E c \in Callers, gone \in SUBSET Evictable : Registers(c, gone)
         \/ \E k \in JobIds : Touches(k)
  <1>0. /\ Types /\ RowTypes /\ clock' \in Nat /\ Made \subseteq Made' /\ None \notin Made'
        /\ call \in [Callers -> CallsMade] /\ future \in [JobIds -> Futures]
        /\ jobs \in [JobIds -> Maybe(Made)] /\ current \in [Users -> Maybe(JobIds)]
        /\ ActiveFutures /\ clock \in Nat
    BY Growth DEF Inv, Types, PlainTypes, RowTypes, Quiet
  <1>1. ASSUME NEW k \in JobIds, NEW status \in Active \cup Ended, Update(k, status),
               UNCHANGED <<issued, durable, current>>,
               IsActive(jobs'[k]) => IsActive(jobs[k]),
               IsActive(jobs[k]) => IsActive(jobs'[k]) \/ Ends(k)
        PROVE  Touches(k)
    BY <1>0, <1>1, Updated DEF Touches
  <1>2. CallsSound'
    BY CallsStep
  <1>3. ASSUME NEW k \in JobIds, future'[k] \in {"ending", "cancelled"} PROVE Ends(k)
    <2>1. ASSUME NEW c \in Callers, call'[c].pc \in {"persisting", "submitting"}
          PROVE  call'[c].job.id # k
      <3>1. future'[call'[c].job.id] = "none"
        BY <1>2, <2>1 DEF CallsSound, CallSound, Admits
      <3> QED
        BY <1>3, <3>1
    <2> QED
      BY <1>3, <2>1 DEF Ends
  <1>4. ASSUME NEW c \in Callers, SubmitFails(c), Proceed(c) PROVE \E k \in JobIds : Touches(k)
    <2> DEFINE k == call[c].job.id
    <2>1. /\ Update(k, "failed") /\ UNCHANGED <<issued, durable, current, future>>
          /\ call[c].pc = "submitting"
      BY <1>4 DEF SubmitFails, At
    <2>2. k \in JobIds /\ future[k] = "none"
      BY <2>1, InHandIsMade DEF Admits, Inv, CallsSound, CallSound
    <2>3. call'[c].pc = "failing" /\ call'[c].job.id = k
      BY <1>0, <1>4 DEF SubmitFails, Goto, CallsMade
    <2>4. Ends(k)
      <3>1. ASSUME NEW d \in Callers, call'[d].pc \in {"persisting", "submitting"}
            PROVE  call'[d].job.id # k
        BY <1>2, <2>3, <3>1 DEF CallsSound, Admitting
      <3> QED
        BY <2>1, <2>2, <3>1 DEF Ends
    <2> HIDE DEF k
    <2>5. ~IsActive(jobs'[k])
      BY <1>0, <2>1, <2>2, Updated DEF IsActive, Active, Ended
    <2> QED
      BY <1>1, <2>1, <2>2, <2>4, <2>5 DEF Ended
  <1>5. ASSUME NEW k \in JobIds, Begin(k) \/ Report(k) PROVE Touches(k)
    <2>1. /\ Update(k, "running") /\ UNCHANGED <<issued, durable, current>>
          /\ future[k] \in {"pending", "running"}
      BY <1>5 DEF Begin, Report, Saved
    <2>2. IsActive(jobs[k])
      BY <1>0, <2>1 DEF ActiveFutures
    <2>3. IsActive(jobs'[k])
      <3>1. jobs'[k] \in Made' /\ jobs'[k].status = "running"
        BY <1>0, <2>1, Updated DEF Active
      <3> QED
        BY <1>0, <3>1 DEF IsActive, Active
    <2> QED
      BY <1>1, <2>1, <2>2, <2>3 DEF Active
  <1>6. ASSUME NEW k \in JobIds, NEW status \in Ended, End(k, status) PROVE Touches(k)
    <2>1. Update(k, status) /\ UNCHANGED <<issued, durable, current>> /\ future'[k] = "ending"
      BY <1>0, <1>6 DEF End
    <2>2. ~IsActive(jobs'[k])
      BY <1>0, <2>1, Updated DEF IsActive, Active, Ended
    <2> QED
      BY <1>1, <1>3, <2>1, <2>2
  <1>7. ASSUME NEW k \in JobIds, Cancel(k) PROVE Touches(k) \/ UNCHANGED <<jobs, current>>
    <2>1. /\ future'[k] = "cancelled" /\ UNCHANGED <<issued, durable, current>>
          /\ Update(k, "interrupted") \/ UNCHANGED jobs
      BY <1>0, <1>7 DEF Cancel
    <2>2. CASE Update(k, "interrupted")
      <3>1. ~IsActive(jobs'[k])
        BY <1>0, <2>1, <2>2, Updated DEF IsActive, Active, Ended
      <3> QED
        BY <1>1, <1>3, <2>1, <2>2, <3>1 DEF Ended
    <2> QED
      BY <2>1, <2>2
  <1>8. ASSUME NEW j \in JobIds, NEW s \in StateIds, Resync(j, s)
        PROVE  \E k \in JobIds : Touches(k)
    <2> DEFINE u == jobs[j].user
               k == current[u]
               at == clock + 1
    <2>1. /\ jobs[j] # None /\ k # None /\ IsActive(jobs[k]) /\ userLock[u] = None
          /\ jobs' = [jobs EXCEPT ![jobs[k].id].state = s, ![jobs[k].id].at = at]
          /\ current' = current
      BY <1>8 DEF Resync
    <2>2. u \in Users
      BY <1>0, <2>1 DEF Maybe, Made
    <2>3. k \in JobIds
      BY <1>0, <2>1, <2>2 DEF Maybe
    <2>4. jobs[k] \in Made /\ jobs[k].id = k /\ jobs[k].user = u
      <3>1. jobs[k] # None
        BY <2>1 DEF IsActive
      <3>2. jobs[k] \in Maybe(Made) /\ jobs[k].id = k
        BY <1>0, <2>3, <3>1 DEF RowTypes
      <3>3. jobs[k].user = u
        BY <2>1, <2>2 DEF Quiet, CurrentKnown
      <3> QED
        BY <3>1, <3>2, <3>3 DEF Maybe
    <2> HIDE DEF k, u, at
    <2>5. /\ jobs' = [jobs EXCEPT ![k] = [jobs[k] EXCEPT !.state = s, !.at = at]]
          /\ jobs'[k] = [jobs[k] EXCEPT !.state = s, !.at = at]
      BY <1>0, <2>1, <2>3, <2>4
    <2>6. jobs'[k].user = u /\ jobs'[k].status = jobs[k].status
      BY <2>4, <2>5 DEF Made
    <2>7. jobs'[k] # None
      <3>1. jobs[k] \in Jobs /\ at \in Nat
        BY <1>0, <2>4, MadeIsJob DEF Inv, Types, PlainTypes, at
      <3>2. [jobs[k] EXCEPT !.state = s, !.at = at] \in Jobs
        BY <3>1 DEF Jobs
      <3> QED
        BY <2>5, <3>2, NoneAssumption
    <2>8. IsActive(jobs'[k])
      BY <2>1, <2>6, <2>7 DEF IsActive
    <2>9. Touches(k)
      BY <2>1, <2>3, <2>4, <2>5, <2>6, <2>7, <2>8 DEF Touches, IsActive
    <2> QED
      BY <2>3, <2>9
  <1>9. ASSUME NEW j \in JobIds, Save(j) \/ Finish(j) PROVE UNCHANGED <<jobs, current>>
    BY <1>9 DEF Save, Finish
  <1>10. ASSUME NEW c \in Callers, Proceed(c), ~Install(c), ~Register(c), ~SubmitFails(c)
         PROVE  UNCHANGED <<jobs, current>>
    BY <1>10
    DEF Proceed, RestoreNothing, RestoreEnded, RestoreActive, Mark, Enter, Join, Busy, Persist,
        Submit, SubmitFailed
  <1>11. ASSUME NEW c \in Callers, Enters(c) PROVE UNCHANGED <<jobs, current>>
    BY <1>11, EnterStep
  <1>12. UNCHANGED vars => UNCHANGED <<jobs, current>>
    BY DEF vars, memory
  <1>13. ASSUME NEW c \in Callers, Proceed(c)
         PROVE  \/ UNCHANGED <<jobs, current>>
                \/ Installs(c)
                \/ \E gone \in SUBSET Evictable : Registers(c, gone)
                \/ \E k \in JobIds : Touches(k)
    BY <1>4, <1>10, <1>13, InstallEffect, RegisterEffect
  <1>14. ASSUME NEW j \in JobIds,
                Work(j) \/ Report(j) \/ Cancel(j) \/ \E s \in StateIds : Resync(j, s)
         PROVE  UNCHANGED <<jobs, current>> \/ \E k \in JobIds : Touches(k)
    BY <1>5, <1>6, <1>7, <1>8, <1>9, <1>14 DEF Work
  <1> QED
    BY <1>11, <1>12, <1>13, <1>14, WhoCalls

-----------------------------------------------------------------------------
LEMMA CurrentStep ==
  ASSUME Inv, Quiet, [Next]_vars, ~Restart, Pollers = {}
  PROVE  CurrentKnown' /\ Newest'
  <1>0. /\ jobs \in [JobIds -> Maybe(Made)] /\ current \in [Users -> Maybe(JobIds)]
        /\ \A j \in JobIds : jobs[j] # None => jobs[j].id = j /\ j <= issued /\ jobs[j].user \in Users
        /\ issued \in Nat /\ JobIds \subseteq Nat /\ None \notin JobIds
        /\ CurrentKnown /\ Newest
    <2>1. RowTypes /\ current \in [Users -> Maybe(JobIds)] /\ issued \in 0..MaxJobs
      BY DEF Inv, Types, PlainTypes
    <2>2. \A j \in JobIds : jobs[j] # None => jobs[j].id = j /\ jobs[j] \in Made
      BY <2>1 DEF RowTypes, Maybe
    <2>3. \A j \in JobIds : jobs[j] # None => j <= issued /\ jobs[j].user \in Users
      BY <2>1, <2>2 DEF Made
    <2> QED
      BY <2>1, <2>2, <2>3, Facts DEF RowTypes, Quiet
  <1>1. CASE UNCHANGED <<jobs, current>>
    BY <1>0, <1>1 DEF CurrentKnown, Newest
  <1>2. ASSUME NEW c \in Callers, Installs(c) PROVE CurrentKnown' /\ Newest'
    <2> DEFINE r == call[c].job
               u == call[c].user
    <2>1. /\ r.id \in JobIds /\ r.user = u /\ u \in Users /\ r # None
          /\ current[u] = None /\ jobs[r.id] = None
          /\ jobs' = [jobs EXCEPT ![r.id] = r]
          /\ current' = [current EXCEPT ![u] = r.id]
      BY <1>2, MadeIsJob DEF Installs, Inv, Types, PlainTypes
    <2> HIDE DEF r, u
    <2>2. \A j \in JobIds : jobs[j] # None => jobs[j].user # u
      BY <1>0, <2>1 DEF Newest
    <2>3. CurrentKnown'
      BY <1>0, <2>1 DEF CurrentKnown, Maybe
    <2>4. Newest'
      BY <1>0, <2>1, <2>2 DEF Newest, Maybe
    <2> QED
      BY <2>3, <2>4
  <1>3. ASSUME NEW c \in Callers, NEW gone \in SUBSET Evictable, Registers(c, gone)
        PROVE  CurrentKnown' /\ Newest'
    <2> DEFINE n == issued + 1
               u == call[c].user
    <2>1. /\ n \in JobIds /\ u \in Users
          /\ jobs'[n] # None /\ jobs'[n].user = u
          /\ \A j \in JobIds \ {n} : jobs'[j] = IF j \in gone THEN None ELSE jobs[j]
          /\ current' = [current EXCEPT ![u] = n]
      BY <1>3 DEF Registers
    <2>2. \A j \in gone : j \in JobIds /\ jobs[j] # None /\ current[jobs[j].user] # jobs[j].id
      BY DEF Evictable, Known, IsCurrent
    <2>3. \A j \in JobIds : jobs[j] # None => j # n /\ j <= n
      BY <1>0
    <2>4. ASSUME NEW v \in Users, v # u, current[v] # None
          PROVE  current[v] \in JobIds \ {n} /\ current[v] \notin gone
      <3>1. /\ current[v] \in JobIds /\ jobs[current[v]] # None
            /\ jobs[current[v]].user = v
        BY <1>0, <2>4 DEF CurrentKnown, Maybe
      <3>2. jobs[current[v]].id = current[v]
        BY <1>0, <3>1
      <3> QED
        BY <2>2, <2>3, <3>1, <3>2
    <2> HIDE DEF n, u
    <2>5. CurrentKnown'
      BY <1>0, <2>1, <2>4 DEF CurrentKnown
    <2>6. ASSUME NEW j \in JobIds, jobs'[j] # None
          PROVE  current'[jobs'[j].user] # None /\ j <= current'[jobs'[j].user]
      <3>1. CASE j = n
        BY <1>0, <2>1, <3>1
      <3>2. CASE j # n
        <4>1. jobs'[j] = jobs[j] /\ jobs[j] # None /\ j <= n /\ jobs[j].user \in Users
          BY <1>0, <2>1, <2>3, <2>6, <3>2
        <4>2. CASE jobs[j].user = u
          BY <1>0, <2>1, <4>1, <4>2
        <4>3. CASE jobs[j].user # u
          BY <1>0, <2>1, <4>1, <4>3 DEF Newest
        <4> QED
          BY <4>2, <4>3
      <3> QED
        BY <3>1, <3>2
    <2> QED
      BY <2>5, <2>6 DEF Newest
  <1>4. ASSUME NEW k \in JobIds, Touches(k) PROVE CurrentKnown' /\ Newest'
    <2>1. /\ jobs[k] # None /\ jobs'[k] # None /\ jobs' = [jobs EXCEPT ![k] = jobs'[k]]
          /\ current' = current /\ jobs'[k].user = jobs[k].user
      BY <1>4 DEF Touches
    <2>2. \A j \in JobIds : /\ jobs'[j] # None <=> jobs[j] # None
                            /\ jobs'[j].user = jobs[j].user
      BY <1>0, <2>1
    <2>3. CurrentKnown'
      BY <1>0, <2>1, <2>2 DEF CurrentKnown, Maybe
    <2>4. Newest'
      BY <1>0, <2>1, <2>2 DEF Newest
    <2> QED
      BY <2>3, <2>4
  <1> QED
    BY <1>1, <1>2, <1>3, <1>4, JobsEffect

(* What is shown as under way stays so until it ends.                       *)
LEMMA StaysActive ==
  ASSUME Inv, Quiet, [Next]_vars, ~Restart, Pollers = {}, NEW i \in JobIds, IsActive(jobs[i])
  PROVE  IsActive(jobs'[i]) \/ Ends(i)
  <1>0. /\ jobs \in [JobIds -> Maybe(Made)] /\ jobs[i] # None /\ issued \in Nat
        /\ i <= issued
    <2>1. jobs \in [JobIds -> Maybe(Made)] /\ jobs[i] # None /\ issued \in 0..MaxJobs
      BY DEF Inv, Types, RowTypes, PlainTypes, IsActive
    <2>2. jobs[i] \in Made /\ jobs[i].id = i
      BY <2>1 DEF Inv, Types, RowTypes, Maybe
    <2>3. i \in 1..issued
      BY <2>2 DEF Made
    <2>4. issued \in Nat
      BY <2>1, Facts
    <2> QED
      BY <2>1, <2>3, <2>4
  <1>1. CASE UNCHANGED <<jobs, current>>
    BY <1>1
  <1>2. ASSUME NEW c \in Callers, Installs(c) PROVE IsActive(jobs'[i])
    <2>1. jobs[call[c].job.id] = None /\ jobs' = [jobs EXCEPT ![call[c].job.id] = call[c].job]
      BY <1>2 DEF Installs
    <2> QED
      BY <1>0, <2>1
  <1>3. ASSUME NEW c \in Callers, NEW gone \in SUBSET Evictable, Registers(c, gone)
        PROVE  IsActive(jobs'[i])
    <2>1. /\ \A j \in JobIds \ {issued + 1} : jobs'[j] = IF j \in gone THEN None ELSE jobs[j]
          /\ i # issued + 1
      BY <1>0, <1>3, Facts DEF Registers
    <2>2. i \notin gone
      BY DEF Evictable
    <2> QED
      BY <2>1, <2>2
  <1>4. ASSUME NEW k \in JobIds, Touches(k) PROVE IsActive(jobs'[i]) \/ Ends(i)
    BY <1>0, <1>4 DEF Touches
  <1> QED
    BY <1>1, <1>2, <1>3, <1>4, JobsEffect

LEMMA ActiveStep ==
  ASSUME Inv, Quiet, [Next]_vars, ~Restart, Pollers = {}
  PROVE  ActiveFutures' /\ Admitted'
  <1>0. /\ call \in [Callers -> CallsMade] /\ ActiveFutures /\ Admitted
        /\ CallsSound
    BY DEF Inv, Types, Quiet
  <1>1. ASSUME NEW i \in JobIds, future'[i] \in {"pending", "running"} PROVE IsActive(jobs'[i])
    <2>1. ~Ends(i)
      BY <1>1 DEF Ends
    <2>2. CASE future[i] \in {"pending", "running"}
      BY <1>0, <2>1, <2>2, StaysActive DEF ActiveFutures
    <2>3. CASE future[i] \notin {"pending", "running"}
      <3>1. PICK c \in Callers : Submit(c) /\ call[c].job.id = i
        BY <1>1, <2>3, FutureEffect
      <3>2. call[c].pc = "submitting"
        BY <3>1 DEF Submit, At
      <3> QED
        BY <1>0, <2>1, <3>1, <3>2, StaysActive DEF Admitted
    <2> QED
      BY <2>2, <2>3
  <1>2. ASSUME NEW c \in Callers, call'[c].pc \in {"persisting", "submitting"}
        PROVE  IsActive(jobs'[call'[c].job.id])
    <2>1. CASE Register(c)
      <3>1. Proceed(c)
        BY <2>1 DEF Proceed
      <3>2. PICK gone \in SUBSET Evictable : Registers(c, gone)
        BY <2>1, <3>1, RegisterEffect
      <3>3. call'[c].job.id = issued + 1
        BY <1>0, <2>1 DEF Register, CallsMade
      <3> QED
        BY <3>2, <3>3 DEF Registers
    <2>2. CASE /\ call[c].pc \in {"persisting", "submitting"}
               /\ call'[c].job.id = call[c].job.id
      <3>1. call[c].job.id \in JobIds
        BY <2>2, InHandIsMade DEF Admits
      <3>2. ~Ends(call[c].job.id)
        BY <1>2, <2>2 DEF Ends
      <3> QED
        BY <1>0, <2>2, <3>1, <3>2, StaysActive DEF Admitted
    <2>3. Register(c) \/ (/\ call[c].pc \in {"persisting", "submitting"}
                          /\ call'[c].job.id = call[c].job.id)
      <3>1. CASE call'[c] = call[c]
        BY <1>2, <3>1
      <3>2. CASE Proceed(c)
        <4>1. CASE Persist(c)
          BY <1>0, <4>1 DEF Persist, At, Goto, CallsMade
        <4>2. CASE ~Persist(c) /\ ~Register(c)
          <5>1. ~Return(c)
            BY <1>0, <1>2 DEF Return, Idle
          <5>2. call'[c].pc \in {"deciding", "restoring", "marking", "installing", "failing"}
            BY <1>0, <3>2, <4>2, <5>1
            DEF Proceed, RestoreNothing, RestoreEnded, RestoreActive, Mark, Install, Enter, Join,
                Busy, Submit, SubmitFails, SubmitFailed, Goto, Answer, CallsMade
          <5> QED
            BY <1>2, <5>2
        <4> QED
          BY <4>1, <4>2
      <3>3. call'[c].pc \in Holds
        BY <1>2 DEF Holds, Admits
      <3>4. Enter(c) => Proceed(c)
        BY DEF Proceed
      <3> QED
        BY <3>1, <3>2, <3>3, <3>4, CallMoves
    <2> QED
      BY <2>1, <2>2, <2>3
  <1> QED
    BY <1>1, <1>2 DEF ActiveFutures, Admitted

(* What a start has read stays true while it holds the lock.                *)
LEMMA SnapshotStep ==
  ASSUME Inv, Quiet, [Next]_vars, ~Restart, Pollers = {}
  PROVE  Snapshot'
  <1> SUFFICES ASSUME NEW d \in Callers, call'[d].pc = "deciding",
                      LET k == current'[call'[d].user] IN k # None /\ IsActive(jobs'[k])
               PROVE  LET k == current'[call'[d].user]
                      IN  IsActive(call'[d].job) /\ call'[d].job.state = jobs'[k].state
    BY DEF Snapshot
  <1> DEFINE u == call[d].user
             k == current[u]
  <1>0. /\ call \in [Callers -> CallsMade] /\ call'[d].pc \in Holds
        /\ current \in [Users -> Maybe(JobIds)] /\ jobs \in [JobIds -> Maybe(Made)]
        /\ Locked /\ CurrentKnown /\ Snapshot
    BY DEF Inv, Types, RowTypes, PlainTypes, Quiet, Holds
  <1>1. CASE call'[d] = call[d] /\ ~Proceed(d)
    <2>1. /\ call[d].pc \in Holds /\ call[d].pc = "deciding" /\ current'[u] = k
          /\ userLock[u] = d /\ d # None /\ u \in Users
      BY <1>0, <1>1, LockKept, Facts
      DEF Locked, Inv, CallsSound, CallSound, Holds
    <2>2. k \in JobIds /\ jobs[k] # None /\ jobs[k].user = u /\ jobs[k].id = k
      BY <1>0, <1>1, <2>1 DEF CurrentKnown, Maybe, Inv, Types, RowTypes
    <2>3. IsActive(jobs[k]) /\ jobs'[k].state = jobs[k].state
      <3>1. IsActive(jobs'[k]) /\ current'[u] = k
        BY <1>1, <2>1
      <3> HIDE DEF k
      <3>2. CASE UNCHANGED <<jobs, current>>
        BY <3>1, <3>2
      <3>3. ASSUME NEW c \in Callers, Installs(c)
            PROVE  IsActive(jobs[k]) /\ jobs'[k].state = jobs[k].state
        <4>1. jobs[call[c].job.id] = None /\ jobs' = [jobs EXCEPT ![call[c].job.id] = call[c].job]
          BY <3>3 DEF Installs
        <4>2. jobs'[k] = jobs[k]
          BY <1>0, <2>2, <4>1
        <4> QED
          BY <3>1, <4>2
      <3>4. ASSUME NEW c \in Callers, NEW gone \in SUBSET Evictable, Registers(c, gone)
            PROVE  IsActive(jobs[k]) /\ jobs'[k].state = jobs[k].state
        <4>1. /\ \A j \in JobIds \ {issued + 1} : jobs'[j] = IF j \in gone THEN None ELSE jobs[j]
              /\ current' = [current EXCEPT ![call[c].user] = issued + 1]
          BY <3>4 DEF Registers
        <4>2. k # issued + 1
          <5>1. jobs[k] \in Made /\ issued \in 0..MaxJobs
            BY <1>0, <2>2 DEF Maybe, Inv, Types, PlainTypes
          <5> QED
            BY <2>2, <5>1, Facts DEF Made
        <4>3. jobs'[k] # None
          BY <3>1 DEF IsActive
        <4>4. jobs'[k] = jobs[k]
          BY <2>2, <4>1, <4>2, <4>3
        <4> QED
          BY <3>1, <4>4
      <3>5. ASSUME NEW i \in JobIds, Touches(i)
            PROVE  IsActive(jobs[k]) /\ jobs'[k].state = jobs[k].state
        <4>1. CASE i = k
          BY <2>1, <2>2, <3>1, <3>5, <4>1 DEF Touches
        <4>2. CASE i # k
          <5>1. jobs'[k] = jobs[k]
            BY <1>0, <2>2, <3>5, <4>2 DEF Touches
          <5> QED
            BY <3>1, <5>1
        <4> QED
          BY <4>1, <4>2
      <3> QED
        BY <3>2, <3>3, <3>4, <3>5, JobsEffect
    <2> QED
      BY <1>0, <1>1, <2>1, <2>2, <2>3 DEF Snapshot
  <1>2. CASE Enter(d)
    <2>1. jobs' = jobs /\ current' = current
      BY <1>2 DEF Enter
    <2>2. call'[d].user = u
      BY <1>0, <1>2 DEF Enter, Goto, CallsMade
    <2>3. call'[d].job = jobs[k]
      BY <1>0, <1>2 DEF Enter, Goto, CallsMade
    <2> QED
      BY <2>1, <2>2, <2>3
  <1>3. CASE /\ Proceed(d) /\ ~Enter(d) /\ call'[d].user = u
    <2>1. RestoreNothing(d) \/ Install(d)
      <3>1. ~Return(d)
        BY <1>0 DEF Return, Idle
      <3> QED
        BY <1>0, <1>3, <3>1
        DEF Proceed, RestoreEnded, RestoreActive, Mark, Join, Busy, Register, Persist, Submit,
            SubmitFails, SubmitFailed, Goto, CallsMade
    <2>2. CASE RestoreNothing(d)
      <3>1. current' = current /\ call[d].pc = "restoring"
        BY <2>2 DEF RestoreNothing, At
      <3>2. k = None
        BY <1>0, <3>1 DEF Locked, Holds, Restores
      <3> QED
        BY <1>3, <3>1, <3>2
    <2>3. CASE Install(d)
      <3>1. Installs(d)
        BY <1>3, <2>3, InstallEffect
      <3>2. /\ current'[u] = call[d].job.id /\ ~IsActive(call[d].job)
            /\ jobs'[call[d].job.id] = call[d].job
        BY <1>0, <3>1 DEF Installs
      <3> QED
        BY <1>3, <3>2
    <2> QED
      BY <2>1, <2>2, <2>3
  <1> QED
    BY <1>0, <1>1, <1>2, <1>3, CallMoves

-----------------------------------------------------------------------------
(* Rows are copied, and keep their user.                                    *)
LEMMA OwnerStep ==
  ASSUME Inv, Quiet, [Next]_vars
  PROVE  OneOwner'
  <1>0. /\ jobs \in [JobIds -> Maybe(Made)] /\ write \in [JobIds -> Maybe(Made)]
        /\ durable \in [JobIds -> Maybe(Made)] /\ call \in [Callers -> CallsMade]
        /\ \A j \in JobIds : jobs[j] # None => jobs[j].id = j
        /\ None \notin Made /\ issued \in 0..MaxJobs
    BY MadeIsJob DEF Inv, Types, RowTypes, PlainTypes
  <1>1. PICK owner \in [JobIds -> Maybe(Users)] : OwnedBy(owner)
    BY DEF Quiet, OneOwner
  <1>2. By(owner, None)
    BY DEF By
  <1>3. ASSUME OwnedBy(owner)' PROVE OneOwner'
    BY <1>3 DEF OneOwner
  <1>4. ASSUME UNCHANGED <<jobs, durable, write>>,
               \A c \in Callers : call'[c].job = call[c].job \/ By(owner, call'[c].job)
        PROVE  OneOwner'
    BY <1>1, <1>3, <1>4 DEF OwnedBy, By
  <1>5. ASSUME NEW k \in JobIds, NEW status \in Active \cup Ended, Update(k, status),
               UNCHANGED <<issued, durable>>,
               \A c \in Callers : call'[c].job = call[c].job
        PROVE  OneOwner'
    <2>1. /\ jobs[k] # None /\ jobs' = [jobs EXCEPT ![k] = jobs'[k]]
          /\ jobs'[k].id = k /\ jobs'[k].user = jobs[k].user
          /\ write' = [write EXCEPT ![k] = write'[k]] /\ write'[k] \in {None, jobs'[k]}
      BY <1>5, Growth, Updated DEF Inv
    <2>2. jobs[k].user = owner[k]
      BY <1>0, <1>1, <2>1 DEF OwnedBy, By
    <2>3. By(owner, jobs'[k]) /\ By(owner, write'[k])
      BY <2>1, <2>2 DEF By
    <2>4. \A j \in JobIds : By(owner, jobs'[j]) /\ By(owner, write'[j])
      BY <1>0, <1>1, <2>1, <2>3 DEF OwnedBy
    <2> QED
      BY <1>1, <1>3, <1>5, <2>4 DEF OwnedBy, By
  <1>6. ASSUME NEW c \in Callers, Proceed(c) PROVE OneOwner'
    <2>0. call' = [call EXCEPT ![c] = call'[c]] /\ By(owner, call[c].job)
      BY <1>1, <1>6, CallStep DEF OwnedBy
    <2>1. ASSUME call'[c].job = None \/ By(owner, call'[c].job)
          PROVE  \A d \in Callers : call'[d].job = call[d].job \/ By(owner, call'[d].job)
      BY <1>0, <1>2, <2>0, <2>1
    <2>2. CASE Join(c) \/ Busy(c) \/ Submit(c)
      <3>1. call'[c].job = None
        BY <1>0, <2>2 DEF Join, Busy, Submit, Return, Idle
      <3> QED
        BY <1>4, <2>1, <2>2, <3>1 DEF Join, Busy, Submit
    <2>3. ASSUME NEW pc \in Pcs, Goto(c, pc) PROVE call'[c].job = call[c].job
      BY <1>0, <2>3 DEF Goto, CallsMade
    <2>4. ASSUME Answer(c) PROVE call'[c].job = None \/ call'[c].job = call[c].job
      BY <1>0, <2>3, <2>4 DEF Answer, Return, Idle, Pcs
    <2>5. CASE RestoreNothing(c)
      BY <1>4, <2>0, <2>1, <2>4, <2>5 DEF RestoreNothing
    <2>6. CASE RestoreEnded(c) \/ RestoreActive(c)
      <3> DEFINE u == call[c].user
                 row == durable[Latest(u)]
      <3>1. u \in Users /\ Rows(u) # {}
        BY <2>6 DEF RestoreEnded, RestoreActive, At, Inv, CallsSound, CallSound
      <3>2. Latest(u) \in JobIds /\ row # None /\ row \in Made
        BY <1>0, <3>1, LatestIsRow DEF Inv, Rows, Maybe
      <3>3. By(owner, row)
        BY <1>1, <3>2 DEF OwnedBy
      <3>4. call'[c].job = row \/ call'[c].job = [row EXCEPT !.status = "interrupted", !.at = clock + 1]
        BY <1>0, <2>6 DEF RestoreEnded, RestoreActive, CallsMade
      <3> HIDE DEF row
      <3>5. /\ [row EXCEPT !.status = "interrupted", !.at = clock + 1].id = row.id
            /\ [row EXCEPT !.status = "interrupted", !.at = clock + 1].user = row.user
        BY <3>2 DEF Made
      <3>6. By(owner, call'[c].job)
        BY <3>2, <3>3, <3>4, <3>5 DEF By
      <3> QED
        BY <1>4, <2>1, <2>6, <3>6 DEF RestoreEnded, RestoreActive
    <2>7. CASE Mark(c) \/ Persist(c)
      <3>1. /\ call'[c].job = call[c].job /\ UNCHANGED <<jobs, write>>
            /\ durable' = [durable EXCEPT ![call[c].job.id] = call[c].job]
        BY <2>3, <2>7 DEF Mark, Persist, Pcs
      <3>2. \A j \in JobIds : By(owner, durable'[j])
        BY <1>0, <1>1, <2>0, <3>1 DEF OwnedBy
      <3>3. \A d \in Callers : call'[d].job = call[d].job
        BY <1>0, <2>0, <3>1
      <3> QED
        BY <1>1, <1>3, <3>1, <3>2, <3>3 DEF OwnedBy, By
    <2>8. CASE Install(c)
      <3>1. /\ UNCHANGED <<durable, write>>
            /\ jobs' = [jobs EXCEPT ![call[c].job.id] = call[c].job]
            /\ \A d \in Callers : By(owner, call'[d].job)
        BY <1>0, <1>1, <2>0, <2>1, <2>4, <2>8 DEF Install, OwnedBy
      <3>2. \A j \in JobIds : By(owner, jobs'[j])
        BY <1>0, <1>1, <2>0, <3>1 DEF OwnedBy
      <3> QED
        BY <1>1, <1>3, <3>1, <3>2 DEF OwnedBy, By
    <2>9. CASE Enter(c)
      <3>1. CASE Goto(c, "restoring")
        BY <1>4, <2>0, <2>1, <2>3, <2>9, <3>1 DEF Enter, Pcs
      <3>2. CASE ~Goto(c, "restoring")
        <4>1. call'[c].job = jobs[current[call[c].user]] /\ current[call[c].user] # None
          BY <1>0, <2>9, <3>2 DEF Enter, CallsMade
        <4>2. current[call[c].user] \in JobIds
          BY <2>9, <4>1 DEF Enter, At, Inv, CallsSound, CallSound, Types, PlainTypes, Maybe
        <4>3. By(owner, call'[c].job)
          BY <1>1, <4>1, <4>2 DEF OwnedBy
        <4> QED
          BY <1>4, <2>1, <2>9, <4>3 DEF Enter
      <3> QED
        BY <3>1, <3>2
    <2>10. CASE SubmitFails(c)
      <3>1. call[c].job.id \in JobIds
        BY <2>10, InHandIsMade DEF SubmitFails, At, Admits
      <3>2. /\ Update(call[c].job.id, "failed") /\ UNCHANGED <<issued, durable>>
            /\ call'[c].job = call[c].job
        BY <2>3, <2>10 DEF SubmitFails, Pcs
      <3>3. \A d \in Callers : call'[d].job = call[d].job
        BY <1>0, <2>0, <3>2
      <3> QED
        BY <1>5, <3>1, <3>2, <3>3 DEF Ended
    <2>11. CASE SubmitFailed(c)
      <3> DEFINE k == call[c].job.id
      <3>1. k \in JobIds
        BY <2>11, InHandIsMade DEF SubmitFailed, At, Admits
      <3>2. /\ durable' = durable \/ durable' = [durable EXCEPT ![k] = write[k]]
            /\ write' = [write EXCEPT ![k] = None] /\ jobs' = jobs /\ call'[c].job = None
        BY <1>0, <2>11 DEF SubmitFailed, Return, Idle
      <3>3. \A d \in Callers : By(owner, call'[d].job)
        BY <1>0, <1>1, <1>2, <2>0, <3>2 DEF OwnedBy
      <3> HIDE DEF k
      <3>4. \A j \in JobIds : By(owner, durable'[j]) /\ By(owner, write'[j])
        BY <1>0, <1>1, <1>2, <3>1, <3>2 DEF OwnedBy
      <3> QED
        BY <1>1, <1>3, <3>2, <3>3, <3>4 DEF OwnedBy, By
    <2>12. CASE Register(c)
      <3> DEFINE n == issued + 1
                 u == call[c].user
                 job == [id |-> n, user |-> u, state |-> call[c].state,
                         status |-> "queued", at |-> call[c].now]
                 owner2 == [owner EXCEPT ![n] = u]
      <3>1. PICK gone \in SUBSET Evictable :
              jobs' = [j \in JobIds |-> IF j = job.id THEN job
                                        ELSE IF j \in gone THEN None ELSE jobs[j]]
        BY <2>12 DEF Register
      <3>2. /\ UNCHANGED <<durable, write>> /\ issued' = n /\ u \in Users
            /\ call'[c].job = job
        BY <1>0, <2>12 DEF Register, CallsMade, At, Inv, CallsSound, CallSound
      <3>3. n \in JobIds /\ issued \in Nat
        <4>1. issued' \in 0..MaxJobs
          BY Growth
        <4> QED
          BY <1>0, <3>2, <4>1, Facts
      <3>4. job.id = n /\ job.user = u
        OBVIOUS
      <3> HIDE DEF job, n, u
      <3>5. owner2 \in [JobIds -> Maybe(Users)] /\ owner2[n] = u
        BY <1>1, <3>2, <3>3 DEF Maybe
      <3>6. ASSUME NEW r \in Maybe(Made), By(owner, r) PROVE By(owner2, r)
        <4>1. r # None => r.id \in 1..issued
          BY <3>6 DEF Maybe, Made
        <4>2. r # None => r.id # n
          BY <3>3, <4>1 DEF n
        <4> QED
          BY <1>1, <3>6, <4>2 DEF By
      <3>7. By(owner2, job)
        BY <3>4, <3>5 DEF By
      <3>8. \A j \in JobIds : By(owner2, jobs'[j])
        BY <1>0, <1>1, <3>1, <3>6, <3>7 DEF OwnedBy, By
      <3>9. \A j \in JobIds : By(owner2, durable'[j]) /\ By(owner2, write'[j])
        BY <1>0, <1>1, <3>2, <3>6 DEF OwnedBy
      <3>10. \A d \in Callers : By(owner2, call'[d].job)
        <4>1. \A d \in Callers : call[d].job \in Maybe(Made)
          BY <1>0 DEF CallsMade
        <4>2. \A d \in Callers : By(owner2, call[d].job)
          BY <1>1, <3>6, <4>1 DEF OwnedBy
        <4> QED
          BY <1>0, <2>0, <3>2, <3>7, <4>2
      <3> HIDE DEF owner2
      <3> QED
        BY <3>5, <3>8, <3>9, <3>10 DEF OneOwner, OwnedBy, By
    <2> QED
      BY <1>6, <2>2, <2>5, <2>6, <2>7, <2>8, <2>9, <2>10, <2>11, <2>12 DEF Proceed
  <1>7. ASSUME NEW j \in JobIds,
               Work(j) \/ Report(j) \/ Cancel(j) \/ \E s \in StateIds : Resync(j, s),
               call' = call
        PROVE  OneOwner'
    <2>1. CASE UNCHANGED <<jobs, durable, write>>
      BY <1>4, <1>7, <2>1
    <2>2. CASE Save(j)
      <3>1. /\ write[j] # None /\ jobs' = jobs
            /\ durable' = [durable EXCEPT ![write[j].id] = write[j]]
            /\ write' = [write EXCEPT ![j] = None]
        BY <2>2 DEF Save
      <3>2. \A i \in JobIds : By(owner, durable'[i]) /\ By(owner, write'[i])
        BY <1>0, <1>1, <1>2, <3>1 DEF OwnedBy
      <3> QED
        BY <1>1, <1>3, <1>7, <3>1, <3>2 DEF OwnedBy, By
    <2>3. ASSUME NEW status \in Active \cup Ended, Update(j, status), UNCHANGED <<issued, durable>>
          PROVE  OneOwner'
      BY <1>5, <1>7, <2>3
    <2>4. CASE Begin(j) \/ Report(j) \/ Cancel(j) \/ \E status \in Ended : End(j, status)
      <3>1. {"running", "interrupted"} \subseteq Active \cup Ended /\ Ended \subseteq Active \cup Ended
        BY DEF Active, Ended
      <3> QED
        BY <2>1, <2>3, <2>4, <3>1 DEF Begin, Report, Cancel, End
    <2>5. ASSUME NEW s \in StateIds, Resync(j, s) PROVE OneOwner'
      <3> DEFINE u == jobs[j].user
                 k == current[u]
                 at == clock + 1
      <3>1. /\ jobs[j] # None /\ k # None /\ IsActive(jobs[k])
            /\ jobs' = [jobs EXCEPT ![jobs[k].id].state = s, ![jobs[k].id].at = at]
            /\ write' = [write EXCEPT ![j] = [jobs[k] EXCEPT !.state = s, !.at = at]]
            /\ durable' = durable
        BY <2>5 DEF Resync
      <3>2. u \in Users
        BY <1>0, <3>1 DEF Maybe, Made
      <3>3. k \in JobIds
        BY <3>1, <3>2 DEF Inv, Types, PlainTypes, Maybe
      <3> HIDE DEF k, u, at
      <3>4. jobs[k] \in Made /\ jobs[k].id = k /\ jobs[k].user = owner[k]
        BY <1>0, <1>1, <3>1, <3>3 DEF IsActive, OwnedBy, By, Maybe
      <3> DEFINE job == [jobs[k] EXCEPT !.state = s, !.at = at]
      <3>5. job.id = k /\ job.user = owner[k]
        BY <3>4 DEF Made
      <3>6. jobs' = [jobs EXCEPT ![k] = job] /\ write' = [write EXCEPT ![j] = job]
        BY <1>0, <3>1, <3>3, <3>4
      <3> HIDE DEF job
      <3>7. By(owner, job)
        BY <3>5 DEF By
      <3>8. \A i \in JobIds : By(owner, jobs'[i]) /\ By(owner, write'[i])
        BY <1>0, <1>1, <3>6, <3>7 DEF OwnedBy
      <3> QED
        BY <1>1, <1>3, <1>7, <3>1, <3>8 DEF OwnedBy, By
    <2> QED
      BY <1>7, <2>1, <2>2, <2>4, <2>5 DEF Work, Finish
  <1>8. ASSUME NEW c \in Callers, Enters(c) PROVE OneOwner'
    <2>1. /\ call' = [call EXCEPT ![c] = call'[c]] /\ UNCHANGED <<jobs, durable, write>>
      BY <1>8, EnterStep
    <2>2. call'[c].job = None
      <3>1. ASSUME NEW u \in Users, Poll(c, u) PROVE call'[c].job = None
        BY <1>0, <3>1 DEF Poll, Idle
      <3>2. ASSUME NEW u \in Users, NEW s \in StateIds, NEW b \in BOOLEAN, Start(c, u, s, b)
            PROVE  call'[c].job = None
        BY <1>0, <3>2 DEF Start
      <3> QED
        BY <1>8, <3>1, <3>2 DEF Enters
    <2> QED
      BY <1>0, <1>2, <1>4, <2>1, <2>2
  <1>9. CASE Restart
    <2>1. \A j \in JobIds : jobs'[j] = None /\ write'[j] = None
      BY <1>9 DEF Restart
    <2>2. \A c \in Callers : call'[c].job = None
      BY <1>9 DEF Restart, Idle
    <2>3. durable' = durable
      BY <1>9 DEF Restart
    <2> QED
      BY <1>1, <1>3, <2>1, <2>2, <2>3 DEF OwnedBy, By
  <1>10. CASE UNCHANGED vars
    BY <1>4, <1>10 DEF vars, memory
  <1> QED
    BY <1>6, <1>7, <1>8, <1>9, <1>10, WhoCalls

-----------------------------------------------------------------------------
LEMMA QuietStep == Pollers = {} /\ Inv /\ Quiet /\ [Next]_vars => Quiet'
  <1> SUFFICES ASSUME Pollers = {}, Inv, Quiet, [Next]_vars PROVE Quiet'
    OBVIOUS
  <1>1. CASE Restart
    <2>1. /\ \A c \in Callers : call'[c].pc = "idle"
          /\ \A j \in JobIds : jobs'[j] = None /\ future'[j] = "none"
          /\ \A u \in Users : current'[u] = None
      BY <1>1 DEF Restart, Idle
    <2>2. Locked' /\ CurrentKnown' /\ Newest' /\ ActiveFutures' /\ Admitted' /\ Snapshot'
      BY <2>1
      DEF Locked, CurrentKnown, Newest, ActiveFutures, Admitted, Snapshot, Holds, Restores, Admits
    <2> QED
      BY <2>2, OwnerStep DEF Quiet
  <1>2. CASE ~Restart
    BY <1>2, LockedStep, CurrentStep, ActiveStep, SnapshotStep, OwnerStep DEF Quiet
  <1> QED
    BY <1>1, <1>2

THEOREM QuietInvariance == Pollers = {} => (Spec => []Quiet)
  <1> SUFFICES ASSUME Pollers = {} PROVE Spec => []Quiet
    OBVIOUS
  <1>1. Inv /\ Quiet /\ [Next]_vars => Quiet'
    BY QuietStep
  <1> QED
    BY <1>1, QuietInit, Invariance, PTL DEF Spec

(* Where nobody polls, a job that waits or runs, and the current job of a   *)
(* user, are in the map: no eviction (background_jobs.py:359) and no        *)
(* restoration takes them away.                                             *)
THEOREM NothingEvicted == Pollers = {} => (Spec => []Retained)
  <1> SUFFICES ASSUME Pollers = {} PROVE Spec => []Retained
    OBVIOUS
  <1>1. Quiet => Retained
    BY DEF Quiet, ActiveFutures, CurrentKnown, Retained, IsActive
  <1> QED
    BY <1>1, QuietInvariance, PTL

(* Where nobody polls, a start that may join the user's latest job while it *)
(* is under way for the same State joins it (background_jobs.py:310-323).   *)
THEOREM NothingDoubled == Pollers = {} => (Spec => SingleFlight)
  <1> SUFFICES ASSUME Pollers = {} PROVE Spec => SingleFlight
    OBVIOUS
  <1> DEFINE Flight == \A c \in Starters :
       call'[c].pc = "persisting" /\ At(c, "deciding") /\ call[c].coalesce
       => LET u == call[c].user
          IN  Prior(u) # {} => ~(/\ IsActive(jobs[Max(Prior(u))])
                                /\ jobs[Max(Prior(u))].state = call[c].state)
  <1>1. Inv /\ Quiet /\ [Next]_vars => Flight
    <2> SUFFICES ASSUME Inv, Quiet, [Next]_vars, NEW c \in Starters,
                        call'[c].pc = "persisting", At(c, "deciding"), call[c].coalesce,
                        Prior(call[c].user) # {}
                 PROVE  LET u == call[c].user
                        IN  ~(/\ IsActive(jobs[Max(Prior(u))])
                              /\ jobs[Max(Prior(u))].state = call[c].state)
      OBVIOUS
    <2> DEFINE u == call[c].user
               k == current[u]
    <2>1. ~Joins(c)
      <3>1. call'[c] # call[c] /\ ~Restart /\ c \in Callers
        BY DEF At, Restart, Idle, Callers
      <3>2. Proceed(c)
        <4>1. call'[c].pc \in Holds
          BY DEF Holds, Admits
        <4> QED
          BY <3>1, <4>1, CallMoves
      <3>3. Register(c)
        <4>1. call \in [Callers -> CallsMade] /\ c \in Callers
          BY DEF Inv, Types, Callers
        <4>2. ~Return(c)
          BY <4>1 DEF Return, Idle
        <4> QED
          BY <3>2, <4>1, <4>2
          DEF Proceed, RestoreNothing, RestoreEnded, RestoreActive, Mark, Install, Enter, Join,
              Busy, Persist, Submit, SubmitFails, SubmitFailed, At, Goto
      <3> QED
        BY <3>3 DEF Register
    <2>2. k # None /\ IsActive(jobs[k]) => jobs[k].state # call[c].state
      BY <2>1 DEF Quiet, Snapshot, At, Joins, Callers
    <2>3. k # None /\ k \in Prior(u) /\ (\A j \in Prior(u) : j <= k)
      <3>1. \A j \in Prior(u) : j \in JobIds /\ jobs[j] # None /\ jobs[j].user = u
        BY DEF Prior, Known
      <3>2. u \in Users
        BY DEF At, Inv, CallsSound, CallSound, Callers
      <3>3. k # None /\ \A j \in Prior(u) : j <= k
        BY <3>1 DEF Quiet, Newest
      <3>4. k \in JobIds
        BY <3>2, <3>3 DEF Inv, Types, PlainTypes, Maybe
      <3> QED
        BY <3>2, <3>3, <3>4 DEF Quiet, CurrentKnown, Prior, Known
    <2>4. Max(Prior(u)) = k
      <3>1. Prior(u) \subseteq Nat
        BY Facts DEF Prior, Known
      <3> QED
        BY <2>3, <3>1 DEF Max
    <2> QED
      BY <2>2, <2>3, <2>4
  <1>2. [Next]_vars /\ Inv /\ Quiet => [Flight]_vars
    BY <1>1
  <1> QED
    BY <1>2, Invariance, QuietInvariance, PTL DEF Spec, SingleFlight

-----------------------------------------------------------------------------
(* That the row of a user's current job says what the process says, once    *)
(* its thread has nothing left to write: for one worker, which is what the  *)
(* application has (webapp.py:919), where nobody polls and no pending job   *)
(* is cancelled.  Rows are written outside the lock of the job map, from a  *)
(* copy: a second worker, or a cancellation, could write the row of a job   *)
(* that another job's work is about to overwrite with an older copy.        *)
Single == Pollers = {} /\ MaxWorkers = 1 /\ ~Cancels

Alone == \A i, k \in JobIds : future[i] = "running" /\ future[k] = "running" => i = k

(* A row to write belongs to a job that runs, ends, or was refused.         *)
Writers ==
  \A k \in JobIds : write[k] # None =>
    \/ future[k] \in {"running", "ending"}
    \/ \E c \in Callers : call[c].pc = "failing" /\ call[c].job.id = k

(* The row of another job is written by a running job that holds the lock   *)
(* of the user, whose current job it is, and is that job as it is.          *)
Foreign ==
  \A k \in JobIds : write[k] # None /\ write[k].id # k =>
    /\ future[k] = "running" /\ userLock[write[k].user] = k
    /\ current[write[k].user] = write[k].id /\ jobs[write[k].id] = write[k]

Own ==
  \A u \in Users :
    LET j == current[u]
    IN  j \in Live /\ write[j] # None /\ write[j].id = j => write[j] = jobs[j]

(* Rows are written for users who have a current job.                       *)
Begun == \A k \in JobIds : write[k] # None => current[write[k].user] # None

Rowed ==
  \A c \in Callers :
    /\ call[c].pc \in {"installing", "submitting"} => durable[call[c].job.id] = call[c].job
    /\ call[c].pc \in {"persisting", "submitting"} => jobs[call[c].job.id] = call[c].job

(* The row of a user's current job is saved, or yet to be, by the job or by *)
(* the one that holds the user's lock.                                      *)
Backed ==
  \A u \in Users :
    LET j == current[u]
    IN  j \in Live =>
          \/ durable[j] = jobs[j] \/ write[j] = jobs[j]
          \/ \E k \in JobIds : userLock[u] = k /\ write[k] = jobs[j]

Saving == Alone /\ Writers /\ Foreign /\ Own /\ Begun /\ Rowed /\ Backed

-----------------------------------------------------------------------------
LEMMA Ground ==
  ASSUME Inv
  PROVE  /\ jobs \in [JobIds -> Maybe(Made)] /\ write \in [JobIds -> Maybe(Made)]
         /\ durable \in [JobIds -> Maybe(Made)] /\ call \in [Callers -> CallsMade]
         /\ current \in [Users -> Maybe(JobIds)] /\ future \in [JobIds -> Futures]
         /\ userLock \in [Users -> Maybe(Callers \cup JobIds)]
         /\ None \notin Made /\ None \notin JobIds /\ issued \in 0..MaxJobs
         /\ \A r \in Made : r.id \in JobIds /\ r.user \in Users
         /\ \A c \in Callers : c \notin JobIds /\ c # None
         /\ \A j \in JobIds : jobs[j] # None => jobs[j] \in Made /\ jobs[j].id = j
         /\ \A j \in JobIds : write[j] # None => write[j] \in Made
  <1>1. /\ jobs \in [JobIds -> Maybe(Made)] /\ write \in [JobIds -> Maybe(Made)]
        /\ durable \in [JobIds -> Maybe(Made)] /\ call \in [Callers -> CallsMade]
        /\ current \in [Users -> Maybe(JobIds)] /\ future \in [JobIds -> Futures]
        /\ userLock \in [Users -> Maybe(Callers \cup JobIds)]
        /\ issued \in 0..MaxJobs /\ clock \in Nat
        /\ \A j \in JobIds : jobs[j] # None => jobs[j].id = j
    BY DEF Inv, Types, RowTypes, PlainTypes
  <1>2. None \notin Made /\ None \notin JobIds /\ \A c \in Callers : c \notin JobIds /\ c # None
    BY <1>1, MadeIsJob, Facts, JobsAssumption
  <1>3. \A r \in Made : r.id \in JobIds /\ r.user \in Users
    BY <1>1, Facts DEF Made
  <1> QED
    BY <1>1, <1>2, <1>3 DEF Maybe

Handles == Admits \cup {"marking", "installing"}

(* One call at a time has a job in hand.                                    *)
LEMMA OneHolder ==
  ASSUME Inv, Quiet, NEW c \in Callers, call[c].pc \in Handles,
         NEW d \in Callers, call[d].pc \in Handles, call[c].job.id = call[d].job.id
  PROVE  c = d
  <1>1. PICK owner : OwnedBy(owner)
    BY DEF Quiet, OneOwner
  <1>2. /\ call[c].job # None /\ call[c].job.user = call[c].user
        /\ call[d].job # None /\ call[d].job.user = call[d].user
    BY DEF Inv, CallsSound, CallSound, Handles
  <1>3. call[c].user = call[d].user
    BY <1>1, <1>2 DEF OwnedBy, By
  <1>4. userLock[call[c].user] = c /\ userLock[call[d].user] = d
    BY DEF Quiet, Locked, Holds, Restores, Handles
  <1> QED
    BY <1>3, <1>4

(* A call has in hand a job that no other thread has a row of.              *)
LEMMA WriteApart ==
  ASSUME Inv, Quiet, Saving, NEW c \in Callers, call[c].pc \in Handles \ {"failing"},
         NEW k \in JobIds, write[k] # None
  PROVE  write[k].id # call[c].job.id
  <1> SUFFICES ASSUME write[k].id = call[c].job.id PROVE FALSE
    OBVIOUS
  <1>1. PICK owner : OwnedBy(owner)
    BY DEF Quiet, OneOwner
  <1>2. /\ call[c].pc \in Handles /\ call[c].job # None /\ call[c].job.user = call[c].user
        /\ userLock[call[c].user] = c /\ c \notin JobIds
    BY Ground DEF Inv, CallsSound, CallSound, Handles, Quiet, Locked, Holds, Restores
  <1>3. write[k].user = call[c].user
    BY <1>1, <1>2 DEF OwnedBy, By
  <1>4. CASE write[k].id # k
    BY <1>2, <1>3, <1>4 DEF Saving, Foreign
  <1>5. CASE write[k].id = k /\ call[c].pc \in {"marking", "installing"}
    <2>1. current[call[c].user] = None
      BY <1>5 DEF Quiet, Locked, Holds, Restores
    <2> QED
      BY <1>3, <2>1 DEF Saving, Begun
  <1>6. CASE write[k].id = k /\ call[c].pc \in Admits
    <2>1. future[k] = "none"
      BY <1>6 DEF Inv, CallsSound, CallSound
    <2>2. PICK d \in Callers : call[d].pc = "failing" /\ call[d].job.id = k
      BY <2>1 DEF Saving, Writers
    <2>3. d = c
      BY <1>2, <1>6, <2>2, OneHolder DEF Handles, Admits
    <2> QED
      BY <2>2, <2>3
  <1> QED
    BY <1>4, <1>5, <1>6 DEF Handles

(* It is not the current job of a user, or it does not run.                 *)
LEMMA CurrentApart ==
  ASSUME Inv, Quiet, NEW c \in Callers, call[c].pc \in Handles, NEW u \in Users,
         current[u] = call[c].job.id
  PROVE  current[u] \notin Live
  <1>1. CASE call[c].pc \in Admits
    BY <1>1 DEF Inv, CallsSound, CallSound, Live
  <1>2. CASE call[c].pc \in {"marking", "installing"}
    <2>1. PICK owner : OwnedBy(owner)
      BY DEF Quiet, OneOwner
    <2>2. call[c].job \in Made /\ call[c].job.user = call[c].user
      BY <1>2, InHandIsMade
    <2>3. current[u] \in JobIds /\ current[u] # None
      BY <2>2, Ground
    <2>4. jobs[current[u]] # None /\ jobs[current[u]].user = u /\ jobs[current[u]].id = current[u]
      BY <2>3, Ground DEF Quiet, CurrentKnown
    <2>5. u = call[c].user
      BY <2>1, <2>2, <2>3, <2>4, Ground DEF OwnedBy, By
    <2>6. current[call[c].user] = None
      BY <1>2 DEF Quiet, Locked, Holds, Restores
    <2> QED
      BY <2>3, <2>5, <2>6
  <1> QED
    BY <1>1, <1>2 DEF Handles

-----------------------------------------------------------------------------
(* A step that moves calls and locks, and at most the row of a job that is  *)
(* in hand.                                                                 *)
LEMMA AsideSaves ==
  ASSUME Inv, Quiet, Saving, UNCHANGED <<jobs, current, future, write>>,
         \A u \in Users, k \in JobIds : userLock[u] = k => userLock'[u] = k,
         \A d \in Callers : call[d].pc = "failing" => call'[d] = call[d],
         \A u \in Users : current[u] \in Live => durable'[current[u]] = durable[current[u]],
         Rowed'
  PROVE  Saving'
  <1>1. Live' = Live
    BY DEF Live
  <1>2. Alone' /\ Own' /\ Begun'
    BY <1>1 DEF Saving, Alone, Own, Begun
  <1>3. Writers'
    BY DEF Saving, Writers
  <1>4. Foreign'
    BY Ground DEF Saving, Foreign
  <1>5. Backed'
    BY <1>1 DEF Saving, Backed
  <1> QED
    BY <1>2, <1>3, <1>4, <1>5 DEF Saving


LEMMA RowedElse ==
  ASSUME Saving, NEW c \in Callers, call \in [Callers -> CallsMade], call' = [call EXCEPT ![c] = call'[c]],
         call'[c].pc \in {"installing", "submitting"} => durable'[call'[c].job.id] = call'[c].job,
         call'[c].pc \in {"persisting", "submitting"} => jobs'[call'[c].job.id] = call'[c].job,
         \A d \in Callers \ {c} :
           /\ call[d].pc \in {"installing", "submitting"} =>
                durable'[call[d].job.id] = durable[call[d].job.id]
           /\ call[d].pc \in {"persisting", "submitting"} =>
                jobs'[call[d].job.id] = jobs[call[d].job.id]
  PROVE  Rowed'
  <1>1. \A d \in Callers \ {c} : call'[d] = call[d]
    OBVIOUS
  <1> QED
    BY <1>1 DEF Saving, Rowed

(* The steps of a call up to its registration, and the one that saves it.   *)
LEMMA BeforeSaves ==
  ASSUME Inv, Quiet, Saving, [Next]_vars, NEW c \in Callers, Proceed(c),
         \/ RestoreNothing(c) \/ RestoreEnded(c) \/ RestoreActive(c) \/ Mark(c)
         \/ Enter(c) \/ Join(c) \/ Busy(c) \/ Persist(c)
  PROVE  Saving'
  <1>0. /\ call \in [Callers -> CallsMade] /\ userLock \in [Users -> Maybe(Callers \cup JobIds)]
        /\ c \notin JobIds /\ c # None /\ None \notin JobIds /\ durable \in [JobIds -> Maybe(Made)]
        /\ call[c].user \in Users /\ call[c].pc # "idle"
    <2>1. call[c].pc # "idle"
      BY DEF RestoreNothing, RestoreEnded, RestoreActive, Mark, Enter, Join, Busy, Persist, At
    <2> QED
      BY <2>1, Ground DEF Inv, CallsSound, CallSound, Types
  <1>1. UNCHANGED <<jobs, current, future, write>> /\ call[c].pc # "failing"
    BY DEF RestoreNothing, RestoreEnded, RestoreActive, Mark, Enter, Join, Busy, Persist, At
  <1>2. call' = [call EXCEPT ![c] = call'[c]]
    BY CallStep
  <1>3. \A u \in Users, k \in JobIds : userLock[u] = k => userLock'[u] = k
    <2>1. CASE Enter(c)
      BY <1>0, <2>1 DEF Enter
    <2>2. CASE Join(c) \/ Busy(c)
      <3>1. userLock' = [userLock EXCEPT ![call[c].user] = None] /\ call[c].pc = "deciding"
        BY <2>2 DEF Join, Busy, Unlock, At
      <3>2. userLock[call[c].user] = c
        BY <3>1 DEF Quiet, Locked, Holds
      <3> QED
        BY <1>0, <3>1, <3>2
    <2>3. CASE userLock' = userLock
      BY <2>3
    <2> QED
      BY <2>1, <2>2, <2>3 DEF RestoreNothing, RestoreEnded, RestoreActive, Mark, Persist
  <1>4. \A d \in Callers : call[d].pc = "failing" => call'[d] = call[d]
    BY <1>0, <1>1, <1>2
  <1>5. CASE durable' = durable /\ ~Mark(c) /\ ~Persist(c)
    <2>1. Rowed'
      <3>1. CASE RestoreEnded(c)
        <4>1. PICK j : j = Latest(call[c].user)
          OBVIOUS
        <4>2. call'[c] = [call[c] EXCEPT !.pc = "installing", !.job = durable[j]]
          BY <1>0, <3>1, <4>1 DEF RestoreEnded
        <4>3. call'[c].pc = "installing" /\ call'[c].job = durable[j]
          BY <1>0, <4>2 DEF CallsMade
        <4>4. j \in JobIds /\ durable[j] # None
          <5>1. j \in Rows(call[c].user)
            BY <1>0, <3>1, <4>1, LatestIsRow DEF RestoreEnded, Inv
          <5> QED
            BY <5>1 DEF Rows
        <4>5. durable[j].id = j
          BY <4>4 DEF Inv, Types, RowTypes
        <4> QED
          BY <1>0, <1>1, <1>2, <1>5, <4>3, <4>4, <4>5, RowedElse
      <3>2. CASE ~RestoreEnded(c)
        <4>1. call'[c].pc \notin {"installing", "persisting", "submitting"}
          <5>1. CASE Join(c) \/ Busy(c)
            BY <1>0, <5>1 DEF Join, Busy, Return, Idle
          <5>2. CASE RestoreNothing(c)
            BY <1>0, <5>2 DEF RestoreNothing, Answer, Goto, Return, Idle, CallsMade
          <5>3. CASE RestoreActive(c)
            BY <1>0, <5>3 DEF RestoreActive, CallsMade
          <5>4. CASE Enter(c)
            BY <1>0, <5>4 DEF Enter, Goto, CallsMade
          <5> QED
            BY <1>5, <3>2, <5>1, <5>2, <5>3, <5>4
        <4> QED
          BY <1>0, <1>1, <1>2, <1>5, <4>1, RowedElse
      <3> QED
        BY <3>1, <3>2
    <2> QED
      BY <1>1, <1>3, <1>4, <1>5, <2>1, AsideSaves
  <1>6. CASE Mark(c) \/ Persist(c)
    <2>1. /\ call[c].pc \in {"marking", "persisting"} /\ call[c].pc \in Handles
          /\ durable' = [durable EXCEPT ![call[c].job.id] = call[c].job]
          /\ call'[c].job = call[c].job /\ call[c].job.id \in JobIds
          /\ call'[c].pc \in {"installing", "submitting"}
          /\ call'[c].pc = "submitting" => call[c].pc = "persisting"
      BY <1>0, <1>6, InHandIsMade DEF Mark, Persist, Goto, CallsMade, Admits, At, Handles
    <2>2. \A u \in Users : current[u] \in Live => durable'[current[u]] = durable[current[u]]
      BY <1>0, <2>1, CurrentApart DEF Live
    <2>3. \A d \in Callers \ {c} : call[d].pc \in {"installing", "submitting"} =>
            durable'[call[d].job.id] = durable[call[d].job.id]
      BY <1>0, <2>1, OneHolder, InHandIsMade DEF Handles, Admits
    <2>4. Rowed'
      <3>1. durable'[call'[c].job.id] = call'[c].job
        BY <1>0, <2>1
      <3>2. call'[c].pc = "submitting" => jobs'[call'[c].job.id] = call'[c].job
        BY <1>1, <2>1 DEF Saving, Rowed
      <3> QED
        BY <1>0, <1>1, <1>2, <2>1, <2>3, <3>1, <3>2, RowedElse
    <2> QED
      BY <1>1, <1>3, <1>4, <2>2, <2>4, AsideSaves
  <1> QED
    BY <1>5, <1>6
    DEF RestoreNothing, RestoreEnded, RestoreActive, Enter, Join, Busy

LEMMA EntersSaves ==
  ASSUME Inv, Quiet, Saving, [Next]_vars, NEW c \in Callers, Enters(c)
  PROVE  Saving'
  <1>0. call \in [Callers -> CallsMade]
    BY Ground
  <1>1. /\ call' = [call EXCEPT ![c] = call'[c]] /\ call[c].pc = "idle"
        /\ UNCHANGED <<jobs, current, userLock, future, write, durable>>
    BY EnterStep
  <1>2. call'[c].pc \in {"locking", "restoring"}
    <2>1. ASSUME NEW u \in Users, Poll(c, u) PROVE call'[c].pc = "restoring"
      BY <1>0, <2>1 DEF Poll, Idle
    <2>2. ASSUME NEW u \in Users, NEW s \in StateIds, NEW b \in BOOLEAN, Start(c, u, s, b)
          PROVE  call'[c].pc = "locking"
      BY <1>0, <2>2 DEF Start
    <2> QED
      BY <2>1, <2>2 DEF Enters
  <1>3. Rowed'
    BY <1>0, <1>1, <1>2, RowedElse
  <1>4. \A d \in Callers : call[d].pc = "failing" => call'[d] = call[d]
    BY <1>0, <1>1
  <1> QED
    BY <1>1, <1>3, <1>4, AsideSaves

(* What a user's current job is, is neither what a call installs nor what a *)
(* registration evicts.                                                     *)
LEMMA CurrentStays ==
  ASSUME Inv, Quiet, NEW u \in Users, current[u] # None
  PROVE  /\ current[u] \in JobIds /\ jobs[current[u]] # None
         /\ jobs[current[u]].id = current[u] /\ jobs[current[u]].user = u
         /\ current[u] \notin Evictable
  <1>1. current[u] \in JobIds /\ jobs[current[u]] # None /\ jobs[current[u]].user = u
    BY Ground DEF Quiet, CurrentKnown, Maybe
  <1>2. jobs[current[u]].id = current[u]
    BY <1>1, Ground
  <1> QED
    BY <1>1, <1>2 DEF Evictable, IsCurrent

LEMMA InstallSaves ==
  ASSUME Inv, Quiet, Saving, Pollers = {}, [Next]_vars, NEW c \in Callers, Proceed(c), Install(c)
  PROVE  Saving'
  <1>0. /\ call \in [Callers -> CallsMade] /\ jobs \in [JobIds -> Maybe(Made)]
        /\ current \in [Users -> Maybe(JobIds)] /\ None \notin JobIds /\ None \notin Made
        /\ \A k \in JobIds : write[k] # None =>
             write[k] \in Made /\ write[k].id \in JobIds /\ write[k].user \in Users
    BY Ground
  <1>1. PICK r : r = call[c].job
    OBVIOUS
  <1>2. PICK u : u = call[c].user
    OBVIOUS
  <1>3. /\ r \in Made /\ r.id \in JobIds /\ r.user = u /\ u \in Users
        /\ current[u] = None /\ jobs[r.id] = None
        /\ jobs' = [jobs EXCEPT ![r.id] = r]
        /\ current' = [current EXCEPT ![u] = r.id]
    BY <1>1, <1>2, InstallEffect DEF Installs
  <1>4. /\ UNCHANGED <<userLock, future, write, durable>> /\ call[c].pc = "installing"
        /\ call' = [call EXCEPT ![c] = call'[c]] /\ call'[c].pc = "deciding"
    <2>1. UNCHANGED <<userLock, future, write, durable>> /\ call[c].pc = "installing"
      BY DEF Install, At
    <2>2. c \in Starters
      BY DEF Callers
    <2> QED
      BY <1>0, <2>1, <2>2, CallStep DEF Install, Answer, Goto, CallsMade
  <1>5. /\ jobs'[r.id] = r /\ current'[u] = r.id
        /\ \A j \in JobIds : jobs[j] # None => j # r.id /\ jobs'[j] = jobs[j]
        /\ \A v \in Users : v # u => current'[v] = current[v]
        /\ \A v \in Users : current[v] # None => v # u /\ current'[v] = current[v]
        /\ \A v \in Users : current'[v] # None => v = u \/ current[v] # None
    BY <1>0, <1>3
  <1>6. durable[r.id] = r
    BY <1>1, <1>4 DEF Saving, Rowed
  <1>7. \A d \in Callers : call[d].pc = "failing" => call'[d] = call[d]
    BY <1>0, <1>4
  <1>8. Alone' /\ Writers'
    BY <1>4, <1>7 DEF Saving, Alone, Writers
  <1>9. Foreign'
    <2> SUFFICES ASSUME NEW k \in JobIds, write[k] # None, write[k].id # k
                 PROVE  /\ future[k] = "running" /\ userLock[write[k].user] = k
                        /\ current'[write[k].user] = write[k].id /\ jobs'[write[k].id] = write[k]
      BY <1>4 DEF Foreign
    <2>1. /\ future[k] = "running" /\ userLock[write[k].user] = k
          /\ current[write[k].user] = write[k].id /\ jobs[write[k].id] = write[k]
      BY DEF Saving, Foreign
    <2> QED
      BY <1>0, <1>5, <2>1
  <1>10. Begun'
    BY <1>0, <1>4, <1>5 DEF Saving, Begun
  <1>11. Rowed'
    <2>1. \A d \in Callers \ {c} : call[d].pc \in {"persisting", "submitting"} =>
            jobs'[call[d].job.id] = jobs[call[d].job.id]
      <3> SUFFICES ASSUME NEW d \in Callers \ {c}, call[d].pc \in {"persisting", "submitting"}
                   PROVE  jobs'[call[d].job.id] = jobs[call[d].job.id]
        OBVIOUS
      <3>1. jobs[call[d].job.id] = call[d].job /\ call[d].job \in Made /\ call[d].job.id \in JobIds
        BY InHandIsMade DEF Saving, Rowed, Admits
      <3> QED
        BY <1>0, <1>5, <3>1
    <2> QED
      BY <1>0, <1>4, <2>1, RowedElse
  <1>12. ASSUME NEW v \in Users, current'[v] \in Live
         PROVE  \/ v = u /\ current'[v] = r.id
                \/ current[v] \in Live /\ current'[v] = current[v] /\ jobs'[current[v]] = jobs[current[v]]
    BY <1>0, <1>5, <1>12, CurrentStays DEF Live
  <1>13. write[r.id] # None => write[r.id].id # r.id
    BY <1>1, <1>3, <1>4, WriteApart DEF Handles, Admits
  <1>14. Own'
    <2> SUFFICES ASSUME NEW v \in Users, current'[v] \in Live, write[current'[v]] # None,
                        write[current'[v]].id = current'[v]
                 PROVE  write[current'[v]] = jobs'[current'[v]]
      BY <1>4 DEF Own, Live
    <2> QED
      BY <1>12, <1>13 DEF Saving, Own
  <1>15. Backed'
    <2> SUFFICES ASSUME NEW v \in Users, current'[v] \in Live
                 PROVE  \/ durable[current'[v]] = jobs'[current'[v]]
                        \/ write[current'[v]] = jobs'[current'[v]]
                        \/ \E k \in JobIds : userLock[v] = k /\ write[k] = jobs'[current'[v]]
      BY <1>4 DEF Backed, Live
    <2>1. CASE current'[v] = r.id
      BY <1>5, <1>6, <2>1
    <2>2. CASE current[v] \in Live /\ current'[v] = current[v] /\ jobs'[current[v]] = jobs[current[v]]
      BY <2>2 DEF Saving, Backed
    <2> QED
      BY <1>12, <2>1, <2>2
  <1> QED
    BY <1>8, <1>9, <1>10, <1>11, <1>14, <1>15 DEF Saving

LEMMA RegisterSaves ==
  ASSUME Inv, Quiet, Saving, [Next]_vars, NEW c \in Callers, Proceed(c), Register(c)
  PROVE  Saving'
  <1>0. /\ call \in [Callers -> CallsMade] /\ jobs \in [JobIds -> Maybe(Made)]
        /\ current \in [Users -> Maybe(JobIds)] /\ None \notin JobIds /\ None \notin Made
        /\ issued \in 0..MaxJobs /\ c \notin JobIds
        /\ \A k \in JobIds : write[k] # None =>
             write[k] \in Made /\ write[k].id \in JobIds /\ write[k].user \in Users
    BY Ground
  <1>1. PICK gone \in SUBSET Evictable : Registers(c, gone)
    BY RegisterEffect
  <1>2. PICK n : n = issued + 1
    OBVIOUS
  <1>3. PICK u : u = call[c].user
    OBVIOUS
  <1>4. /\ n \in JobIds /\ u \in Users /\ current' = [current EXCEPT ![u] = n]
        /\ \A j \in JobIds \ {n} : jobs'[j] = IF j \in gone THEN None ELSE jobs[j]
    BY <1>1, <1>2, <1>3 DEF Registers
  <1>5. /\ UNCHANGED <<userLock, future, write, durable>> /\ call[c].pc = "deciding"
        /\ call' = [call EXCEPT ![c] = call'[c]] /\ call'[c].pc = "persisting"
        /\ call'[c].job.id = n /\ jobs'[n] = call'[c].job
    <2>1. PICK job : job = [id |-> issued + 1, user |-> call[c].user, state |-> call[c].state,
                            status |-> "queued", at |-> call[c].now]
      OBVIOUS
    <2>2. job.id = n
      BY <1>2, <2>1
    <2>3. /\ UNCHANGED <<userLock, future, write, durable>> /\ call[c].pc = "deciding"
          /\ call' = [call EXCEPT ![c].pc = "persisting", ![c].job = job]
          /\ \E old : jobs' = [j \in JobIds |-> IF j = job.id THEN job
                                              ELSE IF j \in old THEN None ELSE jobs[j]]
      BY <2>1 DEF Register, At
    <2>4. jobs'[n] = job
      BY <1>4, <2>2, <2>3
    <2>5. call'[c].pc = "persisting" /\ call'[c].job = job
      BY <1>0, <2>3 DEF CallsMade
    <2> QED
      BY <2>2, <2>3, <2>4, <2>5, CallStep
  <1>6. future[n] = "none" /\ n \notin Live
    BY <1>0, <1>2, <1>4 DEF Inv, FuturesSound, Live
  <1>7. userLock[u] = c
    BY <1>3, <1>5 DEF Quiet, Locked, Holds
  <1>8. \A j \in JobIds : j # n /\ j \notin Evictable => jobs'[j] = jobs[j]
    BY <1>4
  <1>9. \A d \in Callers : call[d].pc = "failing" => call'[d] = call[d]
    BY <1>0, <1>5
  <1>10. Alone' /\ Writers'
    BY <1>5, <1>9 DEF Saving, Alone, Writers
  <1>11. Begun'
    BY <1>0, <1>4, <1>5 DEF Saving, Begun
  <1>12. Foreign'
    <2> SUFFICES ASSUME NEW k \in JobIds, write[k] # None, write[k].id # k
                 PROVE  /\ future[k] = "running" /\ userLock[write[k].user] = k
                        /\ current'[write[k].user] = write[k].id /\ jobs'[write[k].id] = write[k]
      BY <1>5 DEF Foreign
    <2>1. /\ future[k] = "running" /\ userLock[write[k].user] = k
          /\ current[write[k].user] = write[k].id /\ jobs[write[k].id] = write[k]
      BY DEF Saving, Foreign
    <2>2. write[k].user # u
      BY <1>0, <1>7, <2>1
    <2>3. write[k].id # n
      BY <1>0, <1>2 DEF Made
    <2>4. write[k].id \notin Evictable
      BY <1>0, <2>1, CurrentStays
    <2> QED
      BY <1>0, <1>4, <1>8, <2>1, <2>2, <2>3, <2>4
  <1>13. Rowed'
    <2> SUFFICES ASSUME NEW d \in Callers \ {c}, call[d].pc \in {"persisting", "submitting"}
                 PROVE  jobs'[call[d].job.id] = jobs[call[d].job.id]
      BY <1>0, <1>5, RowedElse
    <2>1. call[d].job.id \in JobIds /\ call[d].job.id # n
      BY <1>0, <1>2, InHandIsMade DEF Admits
    <2>2. call[d].job.id \notin Evictable
      <3>1. IsActive(jobs[call[d].job.id])
        BY DEF Quiet, Admitted
      <3> QED
        BY <3>1 DEF Evictable
    <2> QED
      BY <1>8, <2>1, <2>2
  <1>14. ASSUME NEW v \in Users, current'[v] \in Live
         PROVE  current[v] \in Live /\ current'[v] = current[v] /\ jobs'[current[v]] = jobs[current[v]]
    <2>1. v # u
      BY <1>0, <1>4, <1>6, <1>14
    <2>2. current'[v] = current[v]
      BY <1>0, <1>4, <2>1
    <2>3. current[v] # None /\ current[v] # n
      BY <1>0, <1>6, <1>14, <2>2 DEF Live
    <2> QED
      BY <1>8, <1>14, <2>2, <2>3, CurrentStays
  <1>15. Own'
    <2> SUFFICES ASSUME NEW v \in Users, current'[v] \in Live, write[current'[v]] # None,
                        write[current'[v]].id = current'[v]
                 PROVE  write[current'[v]] = jobs'[current'[v]]
      BY <1>5 DEF Own, Live
    <2> QED
      BY <1>14 DEF Saving, Own
  <1>16. Backed'
    <2> SUFFICES ASSUME NEW v \in Users, current'[v] \in Live
                 PROVE  \/ durable[current'[v]] = jobs'[current'[v]]
                        \/ write[current'[v]] = jobs'[current'[v]]
                        \/ \E k \in JobIds : userLock[v] = k /\ write[k] = jobs'[current'[v]]
      BY <1>5 DEF Backed, Live
    <2> QED
      BY <1>14 DEF Saving, Backed
  <1> QED
    BY <1>10, <1>11, <1>12, <1>13, <1>15, <1>16 DEF Saving

LEMMA SubmitSaves ==
  ASSUME Inv, Quiet, Saving, [Next]_vars, NEW c \in Callers, Proceed(c), Submit(c)
  PROVE  Saving'
  <1>0. /\ call \in [Callers -> CallsMade] /\ future \in [JobIds -> Futures]
        /\ userLock \in [Users -> Maybe(Callers \cup JobIds)]
        /\ c \notin JobIds /\ None \notin JobIds
        /\ \A k \in JobIds : write[k] # None => write[k].user \in Users
    BY Ground
  <1>1. PICK j : j = call[c].job.id
    OBVIOUS
  <1>2. /\ call[c].pc = "submitting" /\ UNCHANGED <<jobs, current, write, durable>>
        /\ future' = [future EXCEPT ![j] = "pending"]
        /\ userLock' = [userLock EXCEPT ![call[c].user] = None]
        /\ call' = [call EXCEPT ![c] = call'[c]] /\ call'[c].pc = "idle"
    BY <1>0, <1>1 DEF Submit, At, Unlock, Return, Idle
  <1>3. /\ j \in JobIds /\ call[c].user \in Users /\ userLock[call[c].user] = c
        /\ future[j] = "none" /\ call[c].pc \in Handles
    BY <1>1, <1>2, InHandIsMade
    DEF Admits, Quiet, Locked, Holds, Handles, Inv, CallsSound, CallSound
  <1>4. \A v \in Users, k \in JobIds : userLock[v] = k => userLock'[v] = k
    BY <1>0, <1>2, <1>3
  <1>5. \A d \in Callers : call[d].pc = "failing" => call'[d] = call[d] /\ call[d].job.id # j
    BY <1>0, <1>1, <1>2, <1>3, OneHolder DEF Handles, Admits
  <1>6. write[j] = None
    BY <1>3, <1>5 DEF Saving, Writers
  <1>7. \A k \in JobIds : k # j => future'[k] = future[k]
    BY <1>0, <1>2
  <1>8. Alone'
    BY <1>0, <1>2, <1>3 DEF Saving, Alone
  <1>9. Writers'
    BY <1>2, <1>5, <1>6, <1>7 DEF Saving, Writers
  <1>10. Foreign'
    BY <1>0, <1>2, <1>4, <1>6, <1>7 DEF Saving, Foreign
  <1>11. Begun'
    BY <1>2 DEF Saving, Begun
  <1>12. Rowed'
    BY <1>0, <1>2, RowedElse
  <1>13. \A v \in Users : current[v] \in Live' => current[v] = j \/ current[v] \in Live
    BY <1>7 DEF Live
  <1>14. Own'
    BY <1>2, <1>6, <1>13 DEF Saving, Own
  <1>15. Backed'
    <2>1. durable[j] = jobs[j]
      BY <1>1, <1>2 DEF Saving, Rowed
    <2> SUFFICES ASSUME NEW v \in Users, current[v] \in Live', current[v] # j
                 PROVE  \/ durable[current[v]] = jobs[current[v]]
                        \/ write[current[v]] = jobs[current[v]]
                        \/ \E k \in JobIds : userLock'[v] = k /\ write[k] = jobs[current[v]]
      BY <1>2, <2>1 DEF Backed
    <2> QED
      BY <1>4, <1>13 DEF Saving, Backed
  <1> QED
    BY <1>8, <1>9, <1>10, <1>11, <1>12, <1>14, <1>15 DEF Saving

-----------------------------------------------------------------------------
(* An update of a job whose thread has nothing left to write, and whose row *)
(* no other thread is to write.                                             *)
LEMMA UpdateSaves ==
  ASSUME Inv, Quiet, Saving, [Next]_vars, NEW j \in JobIds, NEW status \in Active \cup Ended,
         Update(j, status), UNCHANGED <<issued, durable, current, userLock>>, write[j] = None,
         \A k \in JobIds : k # j => future'[k] = future[k],
         \A k \in JobIds : k # j /\ write[k] # None => write[k].id # j,
         future'[j] # "none" => future[j] # "none",
         Alone', Writers', Rowed'
  PROVE  Saving'
  <1>0. /\ write \in [JobIds -> Maybe(Made)] /\ current \in [Users -> Maybe(JobIds)]
        /\ jobs \in [JobIds -> Maybe(Made)] /\ None \notin JobIds /\ None \notin Made
        /\ \A k \in JobIds : write[k] # None =>
             write[k] \in Made /\ write[k].id \in JobIds /\ write[k].user \in Users
    BY Ground
  <1>1. /\ jobs[j] # None /\ jobs' = [jobs EXCEPT ![j] = jobs'[j]]
        /\ jobs'[j] # None /\ jobs'[j].id = j /\ jobs'[j].user = jobs[j].user
        /\ write' = [write EXCEPT ![j] = write'[j]] /\ write'[j] \in {None, jobs'[j]}
        /\ IsCurrent(jobs[j]) => write'[j] = jobs'[j]
    <2>1. Types /\ clock' \in Nat /\ Made \subseteq Made' /\ None \notin Made'
      BY Growth DEF Inv
    <2>2. jobs'[j] \in Made'
      BY <2>1, Updated
    <2> QED
      BY <2>1, <2>2, Updated
  <1>2. \A k \in JobIds : k # j => jobs'[k] = jobs[k] /\ write'[k] = write[k]
    BY <1>0, <1>1
  <1>3. Foreign'
    <2> SUFFICES ASSUME NEW k \in JobIds, write'[k] # None, write'[k].id # k
                 PROVE  /\ future'[k] = "running" /\ userLock'[write'[k].user] = k
                        /\ current'[write'[k].user] = write'[k].id
                        /\ jobs'[write'[k].id] = write'[k]
      BY DEF Foreign
    <2>1. k # j
      BY <1>1
    <2>2. /\ future[k] = "running" /\ userLock[write[k].user] = k
          /\ current[write[k].user] = write[k].id /\ jobs[write[k].id] = write[k]
      BY <1>2, <2>1 DEF Saving, Foreign
    <2> QED
      BY <1>0, <1>2, <2>1, <2>2
  <1>4. Begun'
    <2>1. write'[j] # None => current[write'[j].user] # None
      BY <1>1 DEF Quiet, Newest
    <2> QED
      BY <1>2, <2>1 DEF Saving, Begun
  <1>5. ASSUME NEW v \in Users, current[v] \in JobIds, current[v] = j PROVE write'[j] = jobs'[j]
    <2>1. IsCurrent(jobs[j])
      BY <1>0, <1>5, CurrentStays DEF IsCurrent
    <2> QED
      BY <1>1, <2>1
  <1>6. \A v \in Users : current[v] \in Live' => current[v] \in Live
    BY DEF Live
  <1>7. Own'
    <2> SUFFICES ASSUME NEW v \in Users, current[v] \in Live', write'[current[v]] # None,
                        write'[current[v]].id = current[v]
                 PROVE  write'[current[v]] = jobs'[current[v]]
      BY DEF Own
    <2>1. current[v] \in Live /\ current[v] \in JobIds
      BY <1>6 DEF Live
    <2>2. CASE current[v] = j
      BY <1>5, <2>1, <2>2
    <2>3. CASE current[v] # j
      BY <1>2, <2>1, <2>3 DEF Saving, Own
    <2> QED
      BY <2>2, <2>3
  <1>8. Backed'
    <2> SUFFICES ASSUME NEW v \in Users, current[v] \in Live'
                 PROVE  \/ durable[current[v]] = jobs'[current[v]]
                        \/ write'[current[v]] = jobs'[current[v]]
                        \/ \E k \in JobIds : userLock[v] = k /\ write'[k] = jobs'[current[v]]
      BY DEF Backed
    <2>1. current[v] \in Live /\ current[v] \in JobIds
      BY <1>6 DEF Live
    <2>2. CASE current[v] = j
      BY <1>5, <2>1, <2>2
    <2>3. CASE current[v] # j
      <3>1. \/ durable[current[v]] = jobs[current[v]]
            \/ write[current[v]] = jobs[current[v]]
            \/ \E k \in JobIds : userLock[v] = k /\ write[k] = jobs[current[v]]
        BY <2>1 DEF Saving, Backed
      <3>2. jobs[current[v]] # None
        BY <1>0, <2>1, CurrentStays
      <3> QED
        BY <1>2, <2>1, <2>3, <3>1, <3>2
    <2> QED
      BY <2>2, <2>3
  <1> QED
    BY <1>3, <1>4, <1>7, <1>8 DEF Saving

(* What the thread of a job does to it.                                     *)
LEMMA WorkSaves ==
  ASSUME Inv, Quiet, Saving, Single, [Next]_vars, NEW j \in JobIds,
         Begin(j) \/ Report(j) \/ \E status \in Ended : End(j, status)
  PROVE  Saving'
  <1>0. /\ future \in [JobIds -> Futures] /\ jobs \in [JobIds -> Maybe(Made)]
        /\ write \in [JobIds -> Maybe(Made)]
    BY Ground
  <1>1. PICK status \in Active \cup Ended : Update(j, status)
    BY DEF Begin, Report, End, Active
  <1>2. /\ UNCHANGED <<issued, durable, current, userLock, call>>
        /\ \A k \in JobIds : k # j => future'[k] = future[k]
        /\ future[j] \in {"pending", "running"} /\ future'[j] \in {"running", "ending"}
    BY <1>0 DEF Begin, Report, End, Saved
  <1>3. \A c \in Callers : call[c].pc \in Admits => call[c].job.id # j
    BY <1>2 DEF Inv, CallsSound, CallSound
  <1>4. \A k \in JobIds : future[k] = "running" => k = j
    <2>1. CASE Begin(j)
      <3>1. Running \subseteq JobIds /\ IsFiniteSet(Running) /\ Cardinality(Running) < 1
        BY <2>1, Facts, FS_Subset DEF Begin, Single, Running
      <3>2. Cardinality(Running) = 0
        BY <3>1, FS_CardinalityType
      <3>3. Running = {}
        BY <3>1, <3>2, FS_EmptySet
      <3> QED
        BY <3>3 DEF Running
    <2>2. CASE ~Begin(j)
      BY <2>2 DEF Report, End, Saved, Saving, Alone
    <2> QED
      BY <2>1, <2>2
  <1>5. write[j] = None
    <2>1. CASE Begin(j)
      BY <1>3, <2>1 DEF Begin, Saving, Writers, Admits
    <2>2. CASE ~Begin(j)
      BY <2>2 DEF Report, End, Saved
    <2> QED
      BY <2>1, <2>2
  <1>6. \A k \in JobIds : k # j /\ write[k] # None => write[k].id # j
    BY <1>4 DEF Saving, Foreign
  <1>7. Alone'
    BY <1>2, <1>4 DEF Alone
  <1>8. \A k \in JobIds : k # j => jobs'[k] = jobs[k] /\ write'[k] = write[k]
    BY <1>0, <1>1 DEF Update
  <1>9. Writers'
    BY <1>2, <1>8 DEF Saving, Writers
  <1>10. Rowed'
    <2>1. \A c \in Callers : call[c].pc \in {"persisting", "submitting"} =>
            call[c].job.id \in JobIds /\ call[c].job.id # j
      BY <1>3, InHandIsMade DEF Admits
    <2> QED
      BY <1>2, <1>8, <2>1 DEF Saving, Rowed
  <1> QED
    BY <1>1, <1>2, <1>5, <1>6, <1>7, <1>9, <1>10, UpdateSaves

LEMMA SubmitFailsSaves ==
  ASSUME Inv, Quiet, Saving, [Next]_vars, NEW c \in Callers, Proceed(c), SubmitFails(c)
  PROVE  Saving'
  <1>0. /\ future \in [JobIds -> Futures] /\ jobs \in [JobIds -> Maybe(Made)]
        /\ write \in [JobIds -> Maybe(Made)] /\ call \in [Callers -> CallsMade]
    BY Ground
  <1>1. PICK j : j = call[c].job.id
    OBVIOUS
  <1>2. /\ call[c].pc = "submitting" /\ Update(j, "failed")
        /\ UNCHANGED <<issued, durable, current, userLock, future>>
        /\ call' = [call EXCEPT ![c] = call'[c]]
        /\ call'[c].pc = "failing" /\ call'[c].job.id = j
    BY <1>0, <1>1 DEF SubmitFails, At, Goto, CallsMade
  <1>3. j \in JobIds /\ future[j] = "none" /\ call[c].pc \in Handles \ {"failing"}
    BY <1>1, <1>2, InHandIsMade DEF Admits, Handles, Inv, CallsSound, CallSound
  <1>4. \A k \in JobIds : write[k] # None => write[k].id # j
    BY <1>1, <1>3, WriteApart
  <1>5. write[j] = None
    BY <1>3, <1>4 DEF Saving, Foreign
  <1>6. \A k \in JobIds : k # j => jobs'[k] = jobs[k] /\ write'[k] = write[k]
    BY <1>0, <1>2 DEF Update
  <1>7. \A d \in Callers : d # c => call'[d] = call[d]
    BY <1>0, <1>2
  <1>8. Alone'
    BY <1>2 DEF Saving, Alone
  <1>9. Writers'
    <2> SUFFICES ASSUME NEW k \in JobIds, write'[k] # None
                 PROVE  \/ future'[k] \in {"running", "ending"}
                        \/ \E d \in Callers : call'[d].pc = "failing" /\ call'[d].job.id = k
      BY DEF Writers
    <2>1. CASE k = j
      BY <1>2, <2>1
    <2>2. CASE k # j
      BY <1>2, <1>6, <1>7, <2>2 DEF Saving, Writers
    <2> QED
      BY <2>1, <2>2
  <1>10. Rowed'
    <2>1. \A d \in Callers \ {c} : call[d].pc \in {"persisting", "submitting"} =>
            call[d].job.id \in JobIds /\ call[d].job.id # j
      BY <1>1, <1>3, InHandIsMade, OneHolder DEF Admits, Handles
    <2> QED
      BY <1>0, <1>2, <1>6, <2>1, RowedElse
  <1> QED
    BY <1>2, <1>3, <1>4, <1>5, <1>8, <1>9, <1>10, UpdateSaves DEF Ended

-----------------------------------------------------------------------------
(* What a thread writes.                                                    *)
LEMMA SaveSaves ==
  ASSUME Inv, Quiet, Saving, NEW i \in JobIds, Save(i)
  PROVE  Saving'
  <1>0. /\ write \in [JobIds -> Maybe(Made)] /\ durable \in [JobIds -> Maybe(Made)]
        /\ current \in [Users -> Maybe(JobIds)] /\ None \notin JobIds
        /\ \A k \in JobIds : write[k] # None =>
             write[k] \in Made /\ write[k].id \in JobIds /\ write[k].user \in Users
    BY Ground
  <1>1. PICK w : w = write[i]
    OBVIOUS
  <1>2. /\ w # None /\ w.id \in JobIds
        /\ durable' = [durable EXCEPT ![w.id] = w] /\ write' = [write EXCEPT ![i] = None]
        /\ userLock' = [u \in Users |-> IF userLock[u] = i THEN None ELSE userLock[u]]
        /\ UNCHANGED <<jobs, current, future, call>>
    BY <1>0, <1>1 DEF Save
  <1>3. /\ write'[i] = None
        /\ \A k \in JobIds : k # i => write'[k] = write[k]
        /\ \A u \in Users : userLock[u] # i => userLock'[u] = userLock[u]
        /\ durable'[w.id] = w
        /\ \A k \in JobIds : k # w.id => durable'[k] = durable[k]
    BY <1>0, <1>2
  <1>4. Live' = Live
    BY <1>2 DEF Live
  <1>5. Alone' /\ Writers' /\ Begun'
    BY <1>2, <1>3 DEF Saving, Alone, Writers, Begun
  <1>6. Foreign'
    BY <1>0, <1>2, <1>3 DEF Saving, Foreign
  <1>7. Own'
    BY <1>2, <1>3, <1>4 DEF Saving, Own, Live
  <1>8. Rowed'
    <2>1. \A c \in Callers : call[c].pc \in {"installing", "submitting"} =>
            call[c].job.id \in JobIds /\ call[c].job.id # w.id
      BY <1>1, <1>2, InHandIsMade, WriteApart DEF Handles, Admits
    <2> QED
      BY <1>2, <1>3, <2>1 DEF Saving, Rowed
  <1>9. Backed'
    <2> SUFFICES ASSUME NEW u \in Users, current[u] \in Live
                 PROVE  \/ durable'[current[u]] = jobs[current[u]]
                        \/ write'[current[u]] = jobs[current[u]]
                        \/ \E k \in JobIds : userLock'[u] = k /\ write'[k] = jobs[current[u]]
      BY <1>2, <1>4 DEF Backed
    <2>1. current[u] \in JobIds /\ jobs[current[u]] # None /\ jobs[current[u]].id = current[u]
      BY <1>0, CurrentStays DEF Live
    <2>2. CASE w.id = current[u]
      <3>1. w = jobs[current[u]]
        <4>1. CASE w.id = i
          BY <1>1, <1>2, <2>2, <4>1 DEF Saving, Own
        <4>2. CASE w.id # i
          BY <1>1, <1>2, <2>2, <4>2 DEF Saving, Foreign
        <4> QED
          BY <4>1, <4>2
      <3> QED
        BY <1>3, <2>2, <3>1
    <2>3. CASE w.id # current[u]
      <3>1. w # jobs[current[u]]
        BY <2>1, <2>3
      <3>2. \/ durable[current[u]] = jobs[current[u]]
            \/ write[current[u]] = jobs[current[u]]
            \/ \E k \in JobIds : userLock[u] = k /\ write[k] = jobs[current[u]]
        BY DEF Saving, Backed
      <3> QED
        BY <1>1, <1>3, <2>1, <2>3, <3>1, <3>2
    <2> QED
      BY <2>2, <2>3
  <1> QED
    BY <1>5, <1>6, <1>7, <1>8, <1>9 DEF Saving

LEMMA FinishSaves ==
  ASSUME Inv, Quiet, Saving, NEW i \in JobIds, Finish(i)
  PROVE  Saving'
  <1>1. /\ future[i] \in {"ending", "cancelled"} /\ future \in [JobIds -> Futures]
        /\ write[i] = None /\ future' = [future EXCEPT ![i] = "none"]
        /\ UNCHANGED <<jobs, current, userLock, call, write, durable>>
    BY Ground DEF Finish, Finished
  <1>2. \A k \in JobIds : k # i => future'[k] = future[k]
    BY <1>1
  <1>3. Alone' /\ Writers' /\ Begun' /\ Rowed'
    BY <1>1, <1>2 DEF Saving, Alone, Writers, Begun, Rowed
  <1>4. Foreign'
    BY <1>1, <1>2 DEF Saving, Foreign
  <1>5. Live' \subseteq Live
    BY <1>1, <1>2 DEF Live
  <1>6. Own' /\ Backed'
    BY <1>1, <1>5 DEF Saving, Own, Backed
  <1> QED
    BY <1>3, <1>4, <1>6 DEF Saving

LEMMA SubmitFailedSaves ==
  ASSUME Inv, Quiet, Saving, NEW c \in Callers, SubmitFailed(c)
  PROVE  Saving'
  <1>0. /\ call \in [Callers -> CallsMade] /\ write \in [JobIds -> Maybe(Made)]
        /\ userLock \in [Users -> Maybe(Callers \cup JobIds)] /\ durable \in [JobIds -> Maybe(Made)]
        /\ current \in [Users -> Maybe(JobIds)] /\ c \notin JobIds /\ None \notin JobIds
        /\ \A k \in JobIds : write[k] # None => write[k].user \in Users
    BY Ground
  <1>1. PICK j : j = call[c].job.id
    OBVIOUS
  <1>2. /\ call[c].pc = "failing" /\ UNCHANGED <<jobs, current, future>>
        /\ durable' = durable \/ durable' = [durable EXCEPT ![j] = write[j]]
        /\ write' = [write EXCEPT ![j] = None]
        /\ userLock' = [userLock EXCEPT ![call[c].user] = None]
        /\ call' = [call EXCEPT ![c] = call'[c]] /\ call'[c].pc = "idle"
    BY <1>0, <1>1 DEF SubmitFailed, At, Unlock, Return, Idle
  <1>3. /\ j \in JobIds /\ call[c].user \in Users /\ userLock[call[c].user] = c
        /\ future[j] = "none" /\ call[c].pc \in Handles
        /\ write[j] # None => write[j].id = j
    BY <1>1, <1>2, InHandIsMade
    DEF Admits, Quiet, Locked, Holds, Handles, Inv, CallsSound, CallSound
  <1>4. /\ write'[j] = None
        /\ \A k \in JobIds : k # j => write'[k] = write[k] /\ durable'[k] = durable[k]
        /\ \A u \in Users, k \in JobIds : userLock[u] = k => userLock'[u] = k
        /\ \A d \in Callers : d # c => call'[d] = call[d]
    BY <1>0, <1>2, <1>3
  <1>5. Live' = Live
    BY <1>2 DEF Live
  <1>6. Alone' /\ Begun'
    BY <1>2, <1>4 DEF Saving, Alone, Begun
  <1>7. Writers'
    BY <1>1, <1>2, <1>4 DEF Saving, Writers
  <1>8. Foreign'
    BY <1>0, <1>2, <1>4 DEF Saving, Foreign
  <1>9. Own'
    BY <1>2, <1>4, <1>5 DEF Saving, Own, Live
  <1>10. Rowed'
    <2>1. \A d \in Callers \ {c} : call[d].pc \in {"installing", "submitting"} =>
            call[d].job.id \in JobIds /\ call[d].job.id # j
      BY <1>1, <1>3, InHandIsMade, OneHolder DEF Admits, Handles
    <2> QED
      BY <1>0, <1>2, <1>4, <2>1, RowedElse
  <1>11. Backed'
    <2> SUFFICES ASSUME NEW u \in Users, current[u] \in Live
                 PROVE  \/ durable'[current[u]] = jobs[current[u]]
                        \/ write'[current[u]] = jobs[current[u]]
                        \/ \E k \in JobIds : userLock'[u] = k /\ write'[k] = jobs[current[u]]
      BY <1>2, <1>5 DEF Backed
    <2>1. current[u] \in JobIds /\ jobs[current[u]] # None /\ jobs[current[u]].id = current[u]
      BY <1>0, CurrentStays DEF Live
    <2>2. current[u] # j
      BY <1>3 DEF Live
    <2>3. write[j] # jobs[current[u]]
      BY <1>3, <2>1, <2>2
    <2>4. \/ durable[current[u]] = jobs[current[u]]
          \/ write[current[u]] = jobs[current[u]]
          \/ \E k \in JobIds : userLock[u] = k /\ write[k] = jobs[current[u]]
      BY DEF Saving, Backed
    <2> QED
      BY <1>4, <2>1, <2>2, <2>3, <2>4
  <1> QED
    BY <1>6, <1>7, <1>8, <1>9, <1>10, <1>11 DEF Saving

(* The work of a job that moves its user's current job to the State it      *)
(* reached holds the lock until the row is written.                         *)
LEMMA ResyncSaves ==
  ASSUME Inv, Quiet, Saving, NEW i \in JobIds, NEW s \in StateIds, Resync(i, s)
  PROVE  Saving'
  <1>0. /\ write \in [JobIds -> Maybe(Made)] /\ current \in [Users -> Maybe(JobIds)]
        /\ jobs \in [JobIds -> Maybe(Made)] /\ userLock \in [Users -> Maybe(Callers \cup JobIds)]
        /\ None \notin JobIds /\ None \notin Made
        /\ \A r \in Made : r.id \in JobIds /\ r.user \in Users
        /\ \A k \in JobIds : write[k] # None =>
             write[k] \in Made /\ write[k].id \in JobIds /\ write[k].user \in Users
    BY Ground
  <1>1. PICK u : u = jobs[i].user
    OBVIOUS
  <1>2. /\ future[i] = "running" /\ write[i] = None /\ jobs[i] # None
        /\ u \in Users /\ userLock[u] = None /\ current[u] # None
        /\ IsActive(jobs[current[u]])
        /\ userLock' = [userLock EXCEPT ![u] = i]
        /\ UNCHANGED <<current, future, call, durable>>
    <2>1. jobs[i] # None
      BY DEF Resync
    <2>2. u \in Users
      BY <1>1, <2>1, Ground
    <2> QED
      BY <1>1, <2>1, <2>2 DEF Resync, Saved
  <1>3. PICK j : j = current[u]
    OBVIOUS
  <1>4. j \in JobIds /\ jobs[j] # None /\ jobs[j].id = j /\ jobs[j].user = u /\ jobs[j] \in Made
    BY <1>0, <1>2, <1>3, CurrentStays DEF Maybe
  <1>5. PICK new : new = [jobs[j] EXCEPT !.state = s, !.at = clock + 1]
    OBVIOUS
  <1>6. new.id = j /\ new.user = u /\ new.state = s
    BY <1>4, <1>5 DEF Made
  <1>7. jobs' = [jobs EXCEPT ![j] = new] /\ write' = [write EXCEPT ![i] = new]
    <2>1. /\ jobs' = [jobs EXCEPT ![j].state = s, ![j].at = clock + 1]
          /\ write' = [write EXCEPT ![i] = [jobs[j] EXCEPT !.state = s, !.at = clock + 1]]
      BY <1>1, <1>3, <1>4 DEF Resync
    <2> QED
      BY <1>0, <1>4, <1>5, <2>1
  <1>8. /\ jobs'[j] = new /\ write'[i] = new /\ userLock'[u] = i
        /\ \A k \in JobIds : k # j => jobs'[k] = jobs[k]
        /\ \A k \in JobIds : k # i => write'[k] = write[k]
        /\ \A v \in Users : v # u => userLock'[v] = userLock[v]
    BY <1>0, <1>2, <1>4, <1>7
  <1>9. Live' = Live
    BY <1>2 DEF Live
  <1>10. Alone'
    BY <1>2 DEF Saving, Alone
  <1>11. Writers'
    <2> SUFFICES ASSUME NEW k \in JobIds, write'[k] # None
                 PROVE  \/ future[k] \in {"running", "ending"}
                        \/ \E c \in Callers : call[c].pc = "failing" /\ call[c].job.id = k
      BY <1>2 DEF Writers
    <2> QED
      BY <1>2, <1>8 DEF Saving, Writers
  <1>12. Begun'
    BY <1>2, <1>6, <1>8 DEF Saving, Begun
  <1>13. ASSUME NEW k \in JobIds, k # i, write[k] # None PROVE write[k].id = k
    BY <1>2, <1>13 DEF Saving, Foreign, Alone
  <1>14. Foreign'
    <2> SUFFICES ASSUME NEW k \in JobIds, write'[k] # None, write'[k].id # k
                 PROVE  /\ future[k] = "running" /\ userLock'[write'[k].user] = k
                        /\ current[write'[k].user] = write'[k].id
                        /\ jobs'[write'[k].id] = write'[k]
      BY <1>2 DEF Foreign
    <2>1. k = i
      BY <1>8, <1>13
    <2> QED
      BY <1>2, <1>3, <1>6, <1>8, <2>1
  <1>15. ASSUME j # i, j \in Live PROVE write[j] = None
    <2>1. future[j] \notin {"ending", "cancelled", "none"}
      BY <1>2, <1>3, <1>4, <1>15 DEF Inv, FuturesSound, Live
    <2>2. ASSUME NEW c \in Callers, call[c].pc = "failing", call[c].job.id = j PROVE FALSE
      BY <2>1, <2>2 DEF Inv, CallsSound, CallSound, Admits
    <2>3. future[j] # "running"
      BY <1>2, <1>4, <1>15 DEF Saving, Alone
    <2> QED
      BY <1>4, <2>1, <2>2, <2>3 DEF Saving, Writers
  <1>16. \A v \in Users : current[v] = j => v = u
    BY <1>0, <1>4, CurrentStays
  <1>17. Own'
    <2> SUFFICES ASSUME NEW v \in Users, current[v] \in Live, write'[current[v]] # None,
                        write'[current[v]].id = current[v]
                 PROVE  write'[current[v]] = jobs'[current[v]]
      BY <1>2, <1>9 DEF Own
    <2>0. current[v] \in JobIds
      BY DEF Live
    <2>1. CASE current[v] = i
      BY <1>6, <1>8, <2>1
    <2>2. CASE current[v] # i /\ current[v] = j
      BY <1>8, <1>15, <2>0, <2>2
    <2>3. CASE current[v] # i /\ current[v] # j
      BY <1>8, <2>0, <2>3 DEF Saving, Own
    <2> QED
      BY <2>1, <2>2, <2>3
  <1>18. Rowed'
    <2>1. \A c \in Callers : call[c].pc \in {"persisting", "submitting"} =>
            call[c].job.id \in JobIds /\ call[c].job.id # j
      <3> SUFFICES ASSUME NEW c \in Callers, call[c].pc \in {"persisting", "submitting"}
                   PROVE  call[c].job.id \in JobIds /\ call[c].job.id # j
        OBVIOUS
      <3>1. /\ jobs[call[c].job.id] = call[c].job /\ call[c].job.user = call[c].user
            /\ call[c].job.id \in JobIds
        BY InHandIsMade DEF Saving, Rowed, Admits
      <3>2. userLock[call[c].user] = c /\ c # None
        BY Ground DEF Quiet, Locked, Holds, Admits
      <3> QED
        BY <1>2, <1>4, <3>1, <3>2
    <2> QED
      BY <1>2, <1>8, <2>1 DEF Saving, Rowed
  <1>19. Backed'
    <2> SUFFICES ASSUME NEW v \in Users, current[v] \in Live
                 PROVE  \/ durable[current[v]] = jobs'[current[v]]
                        \/ write'[current[v]] = jobs'[current[v]]
                        \/ \E k \in JobIds : userLock'[v] = k /\ write'[k] = jobs'[current[v]]
      BY <1>2, <1>9 DEF Backed
    <2>1. CASE current[v] = j
      BY <1>8, <1>16, <2>1
    <2>2. CASE current[v] # j
      <3>1. v # u
        BY <1>3, <2>2
      <3>2. current[v] \in JobIds /\ jobs[current[v]] # None
        BY <1>0, CurrentStays DEF Live
      <3>3. \/ durable[current[v]] = jobs[current[v]]
            \/ write[current[v]] = jobs[current[v]]
            \/ \E k \in JobIds : userLock[v] = k /\ write[k] = jobs[current[v]]
        BY DEF Saving, Backed
      <3> QED
        BY <1>2, <1>8, <2>2, <3>1, <3>2, <3>3
    <2> QED
      BY <2>1, <2>2
  <1> QED
    BY <1>10, <1>11, <1>12, <1>14, <1>17, <1>18, <1>19 DEF Saving

-----------------------------------------------------------------------------
LEMMA SavingInit == Init => Saving
  <1> SUFFICES ASSUME Init PROVE Saving
    OBVIOUS
  <1>1. /\ \A j \in JobIds : future[j] = "none" /\ write[j] = None
        /\ \A c \in Callers : call[c].pc = "idle"
    BY DEF Init, Fresh, Idle
  <1>2. Alone /\ Writers /\ Foreign /\ Begun /\ Rowed
    BY <1>1 DEF Alone, Writers, Foreign, Begun, Rowed
  <1>3. Own /\ Backed
    BY <1>1 DEF Own, Backed, Live
  <1> QED
    BY <1>2, <1>3 DEF Saving

LEMMA RestartSaves == Restart => Saving'
  <1> SUFFICES ASSUME Restart PROVE Saving'
    OBVIOUS
  <1>1. /\ \A j \in JobIds : future'[j] = "none" /\ write'[j] = None
        /\ \A c \in Callers : call'[c].pc = "idle"
    BY DEF Restart, Idle
  <1>2. Alone' /\ Writers' /\ Foreign' /\ Begun' /\ Rowed'
    BY <1>1 DEF Alone, Writers, Foreign, Begun, Rowed
  <1>3. Own' /\ Backed'
    BY <1>1 DEF Own, Backed, Live
  <1> QED
    BY <1>2, <1>3 DEF Saving

LEMMA SavingStep == Single /\ Inv /\ Quiet /\ Saving /\ [Next]_vars => Saving'
  <1> SUFFICES ASSUME Single, Inv, Quiet, Saving, [Next]_vars PROVE Saving'
    OBVIOUS
  <1>1. ASSUME NEW c \in Callers, Proceed(c) PROVE Saving'
    <2>1. Pollers = {}
      BY DEF Single
    <2> QED
      BY <1>1, <2>1, BeforeSaves, InstallSaves, RegisterSaves, SubmitSaves, SubmitFailsSaves,
         SubmitFailedSaves
      DEF Proceed
  <1>2. ASSUME NEW c \in Callers, Enters(c) PROVE Saving'
    BY <1>2, EntersSaves
  <1>3. ASSUME NEW j \in JobIds,
               Work(j) \/ Report(j) \/ Cancel(j) \/ \E s \in StateIds : Resync(j, s)
        PROVE  Saving'
    <2>1. ~Cancel(j)
      BY DEF Single, Cancel
    <2> QED
      BY <1>3, <2>1, WorkSaves, SaveSaves, FinishSaves, ResyncSaves DEF Work
  <1>4. CASE UNCHANGED vars
    <2>1. UNCHANGED <<jobs, current, userLock, future, call, write, durable>>
      BY <1>4 DEF vars, memory
    <2> QED
      BY <2>1
      DEF Saving, Alone, Writers, Foreign, Own, Begun, Rowed, Backed, Live
  <1> QED
    BY <1>1, <1>2, <1>3, <1>4, RestartSaves, WhoCalls

(* With one worker, nobody polling and nothing cancelled, the rows lag      *)
(* behind the map only where a thread has yet to write.                     *)
THEOREM SavingInvariance == Single => (Spec => [](Inv /\ Quiet /\ Saving))
  <1> SUFFICES ASSUME Single PROVE Spec => [](Inv /\ Quiet /\ Saving)
    OBVIOUS
  <1>1. Init => Inv /\ Quiet /\ Saving
    BY InitInv, QuietInit, SavingInit
  <1>2. Inv /\ Quiet /\ Saving /\ [Next]_vars => (Inv /\ Quiet /\ Saving)'
    BY InvStep, QuietStep, SavingStep DEF Single
  <1> QED
    BY <1>1, <1>2, PTL DEF Spec

(* Where the thread of a user's current job has nothing left to write, and  *)
(* nobody holds the user's lock, the job's durable row is what the process  *)
(* shows: _persist runs outside _lock, on a copy, and the rows still come   *)
(* out in the order of the changes, with the one worker webapp.py:919 asks  *)
(* for.                                                                     *)
THEOREM CurrentIsSaved == Single => (Spec => []CurrentSaved)
  <1> SUFFICES ASSUME Single PROVE Spec => []CurrentSaved
    OBVIOUS
  <1>1. Inv /\ Quiet /\ Saving => CurrentSaved
    <2> SUFFICES ASSUME Inv, Quiet, Saving, NEW u \in Users, current[u] \in Live,
                        userLock[u] = None, write[current[u]] = None
                 PROVE  durable[current[u]] = jobs[current[u]]
      BY DEF CurrentSaved
    <2>1. jobs[current[u]] # None
      BY Ground, CurrentStays DEF Live
    <2>2. None \notin JobIds
      BY Ground
    <2> QED
      BY <2>1, <2>2 DEF Saving, Backed
  <1> QED
    BY <1>1, SavingInvariance, PTL

=============================================================================
