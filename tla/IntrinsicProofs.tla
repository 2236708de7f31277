--------------------------- MODULE IntrinsicProofs ---------------------------
(* What IntrinsicCoordinator keeps for any users, States, callers and        *)
(* bounds.  TypeOK is inductive; RecordsCurrent and Backed are, given it.    *)
EXTENDS IntrinsicCoordinator, TLAPS

(* Installing a record sets it and drops others, and changes no other.       *)
LEMMA Installs ==
  ASSUME NEW k \in Keys, NEW r, NEW dropped, Install(k, r, dropped)
  PROVE  /\ records' = [j \in Keys |-> records'[j]]
         /\ records'[k] = r
         /\ \A j \in Keys \ {k} : records'[j] \in {records[j], None}
BY DEF Install

(* The keys of a call and of the parts of Next are keys.                     *)
LEMMA CallKeys ==
  ASSUME TypeOK, NEW c \in Callers, calls[c] # None
  PROVE  /\ calls[c] \in Calls
         /\ CallKey(c) \in Keys
         /\ CallKey(c).user = calls[c].user
BY DEF TypeOK, Calls, CallKey, KeyOf, Keys

(* The record a call creates is a record, with the call's epoch.             *)
LEMMA NewRecords ==
  ASSUME TypeOK, NEW c \in Callers, calls[c] # None,
         NEW status \in {"queued", "completed"}
  PROVE  /\ NewRecord(c, status) \in Records
         /\ NewRecord(c, status) # None
         /\ NewRecord(c, status).epoch = calls[c].epoch
         /\ NewRecord(c, status).status = status
<1>1. calls[c].state \in StateIds /\ calls[c].epoch \in Nat
  BY CallKeys DEF Calls
<1>2. (status \in Ended) \in BOOLEAN /\ ((status \in Ended) => status = "completed")
  BY DEF Ended
<1>3. status \in Active \cup Ended
  BY DEF Active, Ended
<1>4. NewRecord(c, status) \in [status : Active \cup Ended, state : StateIds,
                               contract : BOOLEAN, epoch : Nat]
  BY <1>1, <1>2, <1>3 DEF NewRecord
<1>5. NewRecord(c, status) \in Records
  BY <1>2, <1>4 DEF NewRecord, Records
<1> QED BY <1>5, IntrinsicAssumption DEF NewRecord

(* What judging a record leaves alone.                                       *)
LEMMA Judgement ==
  ASSUME NEW r \in Records, NEW s \in StateIds, NEW overdue \in BOOLEAN
  PROVE  /\ Judged(r, s, overdue) \in Records
         /\ Judged(r, s, overdue).epoch = r.epoch
         /\ Judged(r, s, overdue).status \in Active => r.status \in Active
BY DEF Judged, Records, Active, Ended

(* What an outcome does to the record of its key.                            *)
LEMMA Outcomes ==
  ASSUME TypeOK, NEW k \in Keys, NEW status \in Active \cup Ended, Set(k, status)
  PROVE  /\ records' \in [Keys -> Records \cup {None}]
         /\ \A j \in Keys \ {k} : records'[j] = records[j]
         /\ k \in Present => /\ records'[k] # None
                             /\ records'[k].epoch = records[k].epoch
                             /\ records'[k].status = status
         /\ k \notin Present => records'[k] = None
<1>1. CASE k \in Present
  <2>1. records[k] \in Records
    BY <1>1 DEF TypeOK, Present
  <2> DEFINE r == [records[k] EXCEPT !.status = status,
                                     !.contract = (status = "completed")]
  <2>2. r \in Records /\ r.epoch = records[k].epoch /\ r.status = status
    BY <2>1 DEF Records
  <2>3. records' = [records EXCEPT ![k] = r]
    BY <1>1, <2>1 DEF Set, TypeOK, Records
  <2>4. records' \in [Keys -> Records \cup {None}] /\ records'[k] = r
        /\ \A j \in Keys \ {k} : records'[j] = records[j]
    BY <2>2, <2>3 DEF TypeOK
  <2>5. r # None
    BY <2>2, IntrinsicAssumption
  <2> QED BY <1>1, <2>2, <2>4, <2>5
<1>2. CASE k \notin Present
  BY <1>2 DEF Set, TypeOK, Present
<1> QED BY <1>1, <1>2

(* Installing keeps the type of the records.                                 *)
LEMMA InstallTyped ==
  ASSUME TypeOK, NEW k \in Keys, NEW r \in Records, NEW dropped,
         Install(k, r, dropped)
  PROVE  records' \in [Keys -> Records \cup {None}]
BY Installs DEF TypeOK

(* A submission stays one when its stage changes.                            *)
LEMMA Submissions ==
  ASSUME TypeOK, NEW a \in DOMAIN attempts
  PROVE  /\ attempts[a].key \in Keys
         /\ \A stage \in Stages :
              LET r == [attempts[a] EXCEPT !.stage = stage]
              IN  /\ r \in [key : Keys, stage : Stages]
                  /\ r.key = attempts[a].key
                  /\ r.stage = stage
<1> DEFINE S == [key : Keys, stage : Stages]
<1>1. attempts \in Seq(S)
  BY DEF TypeOK
<1> HIDE DEF S
<1>2. attempts[a] \in S
  BY <1>1
<1> USE DEF S
<1> QED BY <1>2

(* Moving a submission to another stage keeps the type of the executor.      *)
LEMMA Moves ==
  ASSUME TypeOK, NEW a \in DOMAIN attempts, NEW stage \in Stages, Move(a, stage)
  PROVE  /\ attempts' \in Seq([key : Keys, stage : Stages])
         /\ DOMAIN attempts' = DOMAIN attempts
         /\ \A b \in DOMAIN attempts : attempts'[b].key = attempts[b].key
         /\ \A b \in DOMAIN attempts \ {a} : attempts'[b] = attempts[b]
         /\ attempts'[a].stage = stage
         /\ attempts[a].key \in Keys
<1> DEFINE S == [key : Keys, stage : Stages]
           r == [attempts[a] EXCEPT !.stage = stage]
<1>1. attempts \in Seq(S)
  BY DEF TypeOK
<1>2. r \in S /\ r.key = attempts[a].key /\ r.stage = stage
  BY Submissions
<1>3. attempts' = [attempts EXCEPT ![a] = r]
  BY DEF Move
<1> HIDE DEF S, r
<1>4. /\ attempts' \in Seq(S) /\ DOMAIN attempts' = DOMAIN attempts
      /\ attempts'[a] = r
      /\ \A b \in DOMAIN attempts \ {a} : attempts'[b] = attempts[b]
  BY <1>1, <1>2, <1>3
<1>5. \A b \in DOMAIN attempts : attempts'[b].key = attempts[b].key
  BY <1>2, <1>4
<1>6. attempts[a].key \in Keys
  BY Submissions
<1> USE DEF S
<1> QED BY <1>2, <1>4, <1>5, <1>6

(* Clearing a user keeps the type of the executor, and cancels submissions   *)
(* of records that go with the user only.                                    *)
LEMMA Cancels ==
  ASSUME TypeOK, NEW u \in Users, ClearUser(u)
  PROVE  /\ attempts' \in Seq([key : Keys, stage : Stages])
         /\ DOMAIN attempts' = DOMAIN attempts
         /\ \A a \in DOMAIN attempts :
              attempts[a].key.user # u => attempts'[a] = attempts[a]
<1> DEFINE S == [key : Keys, stage : Stages]
           e(a) == IF Cancelled(a, u) THEN [attempts[a] EXCEPT !.stage = "done"]
                   ELSE attempts[a]
<1>1. attempts \in Seq(S)
  BY DEF TypeOK
<1>2. \A a \in DOMAIN attempts : e(a) \in S
  <2> TAKE a \in DOMAIN attempts
  <2>1. [attempts[a] EXCEPT !.stage = "done"] \in S
    BY Submissions DEF Stages
  <2> HIDE DEF S
  <2>2. attempts[a] \in S
    BY <1>1
  <2> QED BY <2>1, <2>2
<1>3. attempts' = [a \in DOMAIN attempts |-> e(a)]
  BY DEF ClearUser
<1>4. \A a \in DOMAIN attempts : attempts[a].key.user # u => e(a) = attempts[a]
  BY DEF Cancelled, Cleared
<1> HIDE DEF S, e
<1>5. attempts' \in Seq(S) /\ DOMAIN attempts' = DOMAIN attempts
  BY <1>1, <1>2, <1>3
<1> USE DEF S
<1> QED BY <1>3, <1>4, <1>5

(* Every step keeps the types.                                               *)
LEMMA TypeStep ==
  ASSUME TypeOK, [Next]_vars
  PROVE  TypeOK'
<1> USE DEF TypeOK
<1>1. ASSUME NEW c \in Callers, NEW u \in Users, NEW s \in StateIds,
             NEW kind \in {"request", "restore"}, Enter(c, kind, u, s)
      PROVE  TypeOK'
  BY <1>1 DEF Enter, Calls
<1>2. ASSUME NEW c \in Callers, NEW u \in Users, NEW s \in StateIds,
             Restore(c, u, s)
      PROVE  TypeOK'
  <2>1. CASE Enter(c, "restore", u, s)
    BY <1>1, <2>1
  <2>2. CASE records' = [records EXCEPT ![KeyOf(u, s)].state = s]
             /\ KeyOf(u, s) \in Present
             /\ UNCHANGED <<futures, attempts, epochs, owned, calls>>
    <3>1. KeyOf(u, s) \in Keys /\ records[KeyOf(u, s)] \in Records
      BY <2>2 DEF Keys, Present
    <3>2. [records[KeyOf(u, s)] EXCEPT !.state = s] \in Records
      BY <3>1 DEF Records
    <3> QED BY <2>2, <3>1, <3>2
  <2> QED BY <1>2, <2>1, <2>2 DEF Restore
<1>3. ASSUME NEW c \in Callers, Superseded(c) \/ GiveUp(c) \/ NotRestored(c)
      PROVE  TypeOK'
  BY <1>3 DEF Superseded, GiveUp, NotRestored, Return
<1>4. ASSUME NEW c \in Callers, Coalesce(c)
      PROVE  TypeOK'
  <2> DEFINE k == CallKey(c)
  <2>1. k \in Keys /\ records[k] \in Records /\ calls[c].state \in StateIds
    BY <1>4, CallKeys DEF Coalesce, Asks, Present, Calls
  <2>2. PICK overdue \in BOOLEAN :
          records' = [records EXCEPT ![k] = Judged(@, calls[c].state, overdue)]
    BY <1>4 DEF Coalesce
  <2>3. records' \in [Keys -> Records \cup {None}]
    BY <2>1, <2>2, Judgement
  <2> QED BY <1>4, <2>3 DEF Coalesce, Answered, Return
<1>5. ASSUME NEW c \in Callers, Submit(c)
      PROVE  TypeOK'
  <2> DEFINE k == CallKey(c)
  <2>1. k \in Keys /\ NewRecord(c, "queued") \in Records
    BY <1>5, CallKeys, NewRecords DEF Submit, Asks
  <2>2. records' \in [Keys -> Records \cup {None}]
    BY <1>5, <2>1, InstallTyped DEF Submit
  <2>3. /\ attempts' \in Seq([key : Keys, stage : Stages])
        /\ DOMAIN attempts \subseteq DOMAIN attempts'
        /\ Len(attempts') \in DOMAIN attempts'
    BY <1>5, <2>1 DEF Submit, Stages
  <2>4. futures' \in [Keys -> (DOMAIN attempts') \cup {None}]
    BY <1>5, <2>1, <2>3 DEF Submit
  <2> QED BY <1>5, <2>2, <2>3, <2>4 DEF Submit, Answered, Return
<1>6. ASSUME NEW c \in Callers, Restored(c)
      PROVE  TypeOK'
  <2>1. CallKey(c) \in Keys /\ NewRecord(c, "completed") \in Records
    BY <1>6, CallKeys, NewRecords DEF Restored, Restoring
  <2>2. records' \in [Keys -> Records \cup {None}]
    BY <1>6, <2>1, InstallTyped DEF Restored
  <2> QED BY <1>6, <2>2 DEF Restored, Return
<1>7. ASSUME NEW a \in DOMAIN attempts, Start(a)
      PROVE  TypeOK'
  <2>1. PICK stage \in Stages : Move(a, stage)
    BY <1>7 DEF Start, Stages
  <2>2. records' \in [Keys -> Records \cup {None}]
    BY <1>7, <2>1, Moves, Outcomes DEF Start, Active
  <2> QED BY <1>7, <2>1, <2>2, Moves DEF Start
<1>8. ASSUME NEW a \in DOMAIN attempts, Finish(a)
      PROVE  TypeOK'
  <2>1. Move(a, "leaving") /\ "leaving" \in Stages
    BY <1>8 DEF Finish, Stages
  <2>2. records' \in [Keys -> Records \cup {None}]
    BY <1>8, <2>1, Moves, Outcomes DEF Finish
  <2> QED BY <1>8, <2>1, <2>2, Moves DEF Finish
<1>9. ASSUME NEW a \in DOMAIN attempts, Leave(a)
      PROVE  TypeOK'
  <2>1. Move(a, "done") /\ "done" \in Stages
    BY <1>9 DEF Leave, Stages
  <2> QED BY <1>9, <2>1, Moves DEF Leave
<1>10. ASSUME NEW k \in Keys, Discard(k) PROVE TypeOK'
  BY <1>10 DEF Discard
<1>11. ASSUME NEW k \in Keys, Release(k) PROVE TypeOK'
  <2>1. records[k] \in Records
    BY <1>11 DEF Release, Present
  <2>2. [records[k] EXCEPT !.contract = FALSE] \in Records
    BY <2>1 DEF Records
  <2> QED BY <1>11, <2>2 DEF Release
<1>12. ASSUME NEW u \in Users, ClearUser(u) PROVE TypeOK'
  <2>1. /\ attempts' \in Seq([key : Keys, stage : Stages])
        /\ DOMAIN attempts' = DOMAIN attempts
    BY <1>12, Cancels
  <2> QED BY <1>12, <2>1 DEF ClearUser
<1>13. ASSUME NEW u \in Users, NEW s \in StateIds, Transition(u, s) PROVE TypeOK'
  BY <1>13 DEF Transition
<1>14. CASE UNCHANGED vars
  BY <1>14 DEF vars
<1> QED
  BY <1>1, <1>2, <1>3, <1>4, <1>5, <1>6, <1>7, <1>8, <1>9, <1>10, <1>11, <1>12,
     <1>13, <1>14 DEF Next, Work

(* What a step does to the records, by kind of step: one is created by a     *)
(* call whose epoch is the user's, others are dropped; one gets an outcome   *)
(* or a label, and keeps its epoch; some are dropped; or none changes.       *)
LEMMA CurrentStep ==
  ASSUME TypeOK, RecordsCurrent, [Next]_vars
  PROVE  RecordsCurrent'
<1> USE DEF RecordsCurrent, Present
<1> DEFINE Kept == \A k \in Keys :
             records'[k] # None => records'[k].epoch = epochs[k.user]
<1>0. ASSUME Kept, epochs' = epochs
      PROVE  RecordsCurrent'
  BY <1>0
<1>1. ASSUME NEW c \in Callers, NEW status \in {"queued", "completed"},
             calls[c] # None, Fenced(c), NEW dropped,
             Install(CallKey(c), NewRecord(c, status), dropped)
      PROVE  Kept
  BY <1>1, Installs, CallKeys, NewRecords DEF Fenced
<1>2. ASSUME NEW c \in Callers, Submit(c) \/ Restored(c)
      PROVE  Kept /\ epochs' = epochs
  BY <1>1, <1>2 DEF Submit, Restored, Asks, Restoring, Admitted
<1>3. ASSUME NEW c \in Callers, Coalesce(c)
      PROVE  Kept /\ epochs' = epochs
  <2> DEFINE k == CallKey(c)
  <2>1. k \in Keys /\ records[k] \in Records /\ calls[c].state \in StateIds
        /\ records[k].epoch = epochs[k.user]
    BY <1>3, CallKeys DEF Coalesce, Asks, Calls, TypeOK
  <2>2. PICK overdue \in BOOLEAN :
          records' = [records EXCEPT ![k] = Judged(@, calls[c].state, overdue)]
    BY <1>3 DEF Coalesce
  <2>3. Judged(records[k], calls[c].state, overdue).epoch = records[k].epoch
    BY <2>1, Judgement
  <2>4. records'[k] = Judged(records[k], calls[c].state, overdue)
        /\ \A j \in Keys \ {k} : records'[j] = records[j]
    BY <2>1, <2>2 DEF TypeOK
  <2> HIDE DEF k
  <2>5. Kept
    BY <2>1, <2>3, <2>4
  <2> QED BY <1>3, <2>5 DEF Coalesce
<1>4. ASSUME NEW c \in Callers, NEW u \in Users, NEW s \in StateIds,
             Restore(c, u, s)
      PROVE  Kept /\ epochs' = epochs
  <2>1. CASE UNCHANGED <<records, epochs>>
    BY <2>1
  <2>2. CASE records' = [records EXCEPT ![KeyOf(u, s)].state = s]
             /\ KeyOf(u, s) \in Present /\ epochs' = epochs
    <3>1. KeyOf(u, s) \in Keys /\ records[KeyOf(u, s)] \in Records
      BY <2>2 DEF Keys, TypeOK
    <3>2. [records[KeyOf(u, s)] EXCEPT !.state = s].epoch = records[KeyOf(u, s)].epoch
      BY <3>1 DEF Records
    <3> QED BY <2>2, <3>1, <3>2 DEF TypeOK
  <2> QED BY <1>4, <2>1, <2>2 DEF Restore, Enter
<1>5. ASSUME NEW a \in DOMAIN attempts, NEW status \in Active \cup Ended,
             Set(attempts[a].key, status)
      PROVE  Kept
  BY <1>5, Submissions, Outcomes
<1>6. ASSUME NEW a \in DOMAIN attempts, Start(a) \/ Finish(a)
      PROVE  Kept /\ epochs' = epochs
  BY <1>5, <1>6 DEF Start, Finish, Active
<1>7. ASSUME NEW k \in Keys, Discard(k) \/ Release(k)
      PROVE  Kept /\ epochs' = epochs
  <2>1. CASE Discard(k)
    BY <2>1 DEF Discard, TypeOK
  <2>2. CASE Release(k)
    <3>1. records[k] \in Records
      BY <2>2 DEF Release, TypeOK
    <3>2. [records[k] EXCEPT !.contract = FALSE].epoch = records[k].epoch
      BY <3>1 DEF Records
    <3> QED BY <2>2, <3>1, <3>2 DEF Release, TypeOK
  <2> QED BY <1>7, <2>1, <2>2
<1>8. ASSUME NEW u \in Users, ClearUser(u)
      PROVE  RecordsCurrent'
  <2>1. \A k \in Keys : records'[k] # None => k.user # u /\ records'[k] = records[k]
    BY <1>8 DEF ClearUser, Cleared
  <2>2. \A v \in Users \ {u} : epochs'[v] = epochs[v]
    BY <1>8 DEF ClearUser, TypeOK
  <2>3. \A k \in Keys : k.user \in Users
    BY DEF Keys, KeyOf
  <2> QED BY <2>1, <2>2, <2>3
<1>9. CASE UNCHANGED <<records, epochs>>
  BY <1>9
<1> QED
  BY <1>0, <1>2, <1>3, <1>4, <1>6, <1>7, <1>8, <1>9
  DEF Next, Work, vars, Enter, Superseded, GiveUp, NotRestored, Leave, Transition

Backing(k, a) ==
  attempts[a].key = k /\ (attempts[a].stage = "queued" \/ attempts[a].stage = "building")

(* A step that adds no active record and leaves the submissions alone keeps  *)
(* every active record backed.                                               *)
LEMMA StillBacked ==
  ASSUME Backed, ActiveKeys' \subseteq ActiveKeys, attempts' = attempts
  PROVE  Backed'
BY DEF Backed, At

(* A step that changes one record, to one that is active only if it was,     *)
(* adds no active record; nor does one that only drops records.              *)
LEMMA NoNewActive ==
  ASSUME NEW k \in Keys,
         \A j \in Keys \ {k} : records'[j] \in {records[j], None},
         \/ records'[k] = None
         \/ records'[k].status \in Ended
         \/ k \in ActiveKeys
  PROVE  ActiveKeys' \subseteq ActiveKeys
BY DEF ActiveKeys, Present, Active, Ended

(* The steps of callers keep the active records backed: a new one comes with *)
(* its submission.                                                           *)
LEMMA CallerBacked ==
  ASSUME TypeOK, Backed, NEW c \in Callers,
         Coalesce(c) \/ Submit(c) \/ Restored(c)
  PROVE  Backed'
<1> DEFINE k == CallKey(c)
<1>0. k \in Keys
  BY CallKeys DEF Coalesce, Submit, Restored, Asks, Restoring
<1>1. CASE Coalesce(c)
  <2>1. records[k] \in Records /\ calls[c].state \in StateIds /\ records[k] # None
    BY <1>1, CallKeys DEF Coalesce, Asks, Calls, TypeOK, Present
  <2>2. PICK overdue \in BOOLEAN :
          records' = [records EXCEPT ![k] = Judged(@, calls[c].state, overdue)]
    BY <1>1 DEF Coalesce
  <2>3. records'[k] = Judged(records[k], calls[c].state, overdue)
        /\ \A j \in Keys \ {k} : records'[j] = records[j]
    BY <1>0, <2>2 DEF TypeOK
  <2>4. /\ records'[k] \in Records
        /\ records'[k].status \in Active => records[k].status \in Active
    BY <2>1, <2>3, Judgement
  <2>5. records'[k].status \in Active \cup Ended
    BY <2>4 DEF Records
  <2> HIDE DEF k
  <2>6. records'[k].status \in Ended \/ k \in ActiveKeys
    BY <1>0, <2>1, <2>4, <2>5 DEF ActiveKeys, Present
  <2>7. ActiveKeys' \subseteq ActiveKeys
    BY <1>0, <2>3, <2>6, NoNewActive
  <2> QED BY <1>1, <2>7, StillBacked DEF Coalesce
<1>2. CASE Submit(c)
  <2>1. \A j \in Keys \ {k} : records'[j] \in {records[j], None}
    BY <1>0, <1>2, Installs DEF Submit
  <2>2. /\ attempts' = Append(attempts, [key |-> k, stage |-> "queued"])
        /\ attempts \in Seq([key : Keys, stage : Stages])
        /\ [key |-> k, stage |-> "queued"] \in [key : Keys, stage : Stages]
    BY <1>0, <1>2 DEF Submit, TypeOK, Stages
  <2> HIDE DEF k
  <2>3. /\ DOMAIN attempts \subseteq DOMAIN attempts'
        /\ \A a \in DOMAIN attempts : attempts'[a] = attempts[a]
        /\ Len(attempts) + 1 \in DOMAIN attempts'
        /\ attempts'[Len(attempts) + 1] = [key |-> k, stage |-> "queued"]
    BY <2>2
  <2>4. \A j \in ActiveKeys' : j = k \/ j \in ActiveKeys
    BY <2>1 DEF ActiveKeys, Present
  <2>5. ASSUME NEW j \in ActiveKeys'
        PROVE  \E a \in DOMAIN attempts' : Backing(j, a)'
    <3>1. CASE j = k
      BY <2>3, <3>1 DEF Backing
    <3>2. CASE j \in ActiveKeys
      BY <2>3, <3>2 DEF Backed, Backing, At
    <3> QED BY <2>4, <3>1, <3>2
  <2> QED BY <2>5 DEF Backed, Backing, At
<1>3. CASE Restored(c)
  <2>1. /\ \A j \in Keys \ {k} : records'[j] \in {records[j], None}
        /\ records'[k].status = "completed"
    BY <1>0, <1>3, Installs, NewRecords DEF Restored, Restoring
  <2>2. ActiveKeys' \subseteq ActiveKeys
    BY <1>0, <2>1, NoNewActive DEF Ended
  <2> QED BY <1>3, <2>2, StillBacked DEF Restored
<1> QED BY <1>1, <1>2, <1>3

(* The steps of the worker: the record of a submission it starts is backed   *)
(* by that submission, the one of a submission it finishes is active no more.*)
LEMMA WorkerBacked ==
  ASSUME TypeOK, Backed, NEW a \in DOMAIN attempts,
         Start(a) \/ Finish(a) \/ Leave(a)
  PROVE  Backed'
<1> DEFINE k == attempts[a].key
<1>0. k \in Keys
  BY Submissions
<1>1. CASE Start(a)
  <2>1. PICK stage \in Stages :
          Move(a, stage) /\ stage = IF k \in Present THEN "building" ELSE "done"
    BY <1>1 DEF Start, Stages
  <2>2. Set(k, "running") /\ "running" \in Active \cup Ended
    BY <1>1 DEF Start, Active
  <2>3. /\ \A j \in Keys \ {k} : records'[j] = records[j]
        /\ k \notin Present => records'[k] = None
    BY <1>0, <2>2, Outcomes
  <2>4. /\ DOMAIN attempts' = DOMAIN attempts
        /\ attempts'[a].key = k /\ attempts'[a].stage = stage
        /\ \A b \in DOMAIN attempts \ {a} : attempts'[b] = attempts[b]
    BY <2>1, Moves
  <2>5. ASSUME NEW j \in ActiveKeys'
        PROVE  \E b \in DOMAIN attempts' : Backing(j, b)'
    <3> j \in Keys
      BY DEF ActiveKeys, Present
    <3>1. CASE j = k
      <4>1. k \in Present
        BY <2>3, <3>1 DEF ActiveKeys, Present
      <4>2. Backing(k, a)'
        BY <2>1, <2>4, <4>1 DEF Backing
      <4> QED BY <2>4, <3>1, <4>2
    <3>2. CASE j # k
      <4>1. j \in ActiveKeys
        BY <2>3, <3>2 DEF ActiveKeys, Present
      <4>2. PICK b \in DOMAIN attempts : Backing(j, b)
        BY <4>1 DEF Backed, Backing, At
      <4>3. b # a
        BY <3>2, <4>2 DEF Backing
      <4> QED BY <2>4, <4>2, <4>3 DEF Backing
    <3> QED BY <3>1, <3>2
  <2> QED BY <2>5 DEF Backed, Backing, At
<1>2. CASE Finish(a)
  <2>1. PICK status \in Ended : Set(k, status)
    BY <1>2 DEF Finish
  <2>2. /\ \A j \in Keys \ {k} : records'[j] = records[j]
        /\ records'[k] = None \/ records'[k].status \in Ended
    BY <1>0, <2>1, Outcomes
  <2>3. Move(a, "leaving") /\ "leaving" \in Stages
    BY <1>2 DEF Finish, Stages
  <2>4. /\ DOMAIN attempts' = DOMAIN attempts
        /\ \A b \in DOMAIN attempts \ {a} : attempts'[b] = attempts[b]
    BY <2>3, Moves
  <2>5. ASSUME NEW j \in ActiveKeys'
        PROVE  \E b \in DOMAIN attempts' : Backing(j, b)'
    <3>1. j \in ActiveKeys /\ j # k
      BY <2>2 DEF ActiveKeys, Present, Active, Ended
    <3>2. PICK b \in DOMAIN attempts : Backing(j, b)
      BY <3>1 DEF Backed, Backing, At
    <3> QED BY <2>4, <3>1, <3>2 DEF Backing
  <2> QED BY <2>5 DEF Backed, Backing, At
<1>3. CASE Leave(a)
  <2>1. Move(a, "done") /\ "done" \in Stages /\ attempts[a].stage = "leaving"
        /\ records' = records
    BY <1>3 DEF Leave, Stages, At
  <2>2. /\ DOMAIN attempts' = DOMAIN attempts
        /\ \A b \in DOMAIN attempts \ {a} : attempts'[b] = attempts[b]
    BY <2>1, Moves
  <2>3. ASSUME NEW j \in ActiveKeys'
        PROVE  \E b \in DOMAIN attempts' : Backing(j, b)'
    <3>1. j \in ActiveKeys
      BY <2>1 DEF ActiveKeys, Present
    <3>2. PICK b \in DOMAIN attempts : Backing(j, b)
      BY <3>1 DEF Backed, Backing, At
    <3>3. b # a
      BY <2>1, <3>2 DEF Backing
    <3> QED BY <2>2, <3>2, <3>3 DEF Backing
  <2> QED BY <2>3 DEF Backed, Backing, At
<1> QED BY <1>1, <1>2, <1>3

(* Clearing a user cancels only submissions whose record goes with it.       *)
LEMMA ClearBacked ==
  ASSUME TypeOK, Backed, NEW u \in Users, ClearUser(u)
  PROVE  Backed'
<1>1. \A j \in ActiveKeys' : j \in ActiveKeys /\ j.user # u
  BY DEF ClearUser, Cleared, ActiveKeys, Present
<1>2. ASSUME NEW j \in ActiveKeys'
      PROVE  \E b \in DOMAIN attempts' : Backing(j, b)'
  <2>1. PICK b \in DOMAIN attempts : Backing(j, b)
    BY <1>1 DEF Backed, Backing, At
  <2>2. attempts'[b] = attempts[b]
    BY <1>1, <2>1, Cancels DEF Backing
  <2> QED BY <2>1, <2>2, Cancels DEF Backing
<1> QED BY <1>2 DEF Backed, Backing, At

(* Every step keeps the active records backed.                               *)
LEMMA BackedStep ==
  ASSUME TypeOK, Backed, [Next]_vars
  PROVE  Backed'
<1>1. ASSUME NEW c \in Callers, NEW u \in Users, NEW s \in StateIds,
             Restore(c, u, s)
      PROVE  Backed'
  <2>1. CASE UNCHANGED <<records, attempts>>
    BY <2>1, StillBacked DEF ActiveKeys, Present
  <2>2. CASE /\ records' = [records EXCEPT ![KeyOf(u, s)].state = s]
             /\ KeyOf(u, s) \in Present /\ attempts' = attempts
    <3>1. KeyOf(u, s) \in Keys /\ records[KeyOf(u, s)] \in Records
      BY <2>2 DEF Present, TypeOK
    <3>2. [records[KeyOf(u, s)] EXCEPT !.state = s].status = records[KeyOf(u, s)].status
      BY <3>1 DEF Records
    <3>3. ActiveKeys' \subseteq ActiveKeys
      BY <2>2, <3>1, <3>2 DEF ActiveKeys, Present, TypeOK
    <3> QED BY <2>2, <3>3, StillBacked
  <2> QED BY <1>1, <2>1, <2>2 DEF Restore, Enter
<1>2. ASSUME NEW k \in Keys, Discard(k) \/ Release(k)
      PROVE  Backed'
  <2>1. CASE Discard(k)
    <3>1. ActiveKeys' \subseteq ActiveKeys
      BY <2>1 DEF Discard, ActiveKeys, Present, TypeOK
    <3> QED BY <2>1, <3>1, StillBacked DEF Discard
  <2>2. CASE Release(k)
    <3>1. records[k] \in Records
      BY <2>2 DEF Release, Present, TypeOK
    <3>2. [records[k] EXCEPT !.contract = FALSE].status = records[k].status
      BY <3>1 DEF Records
    <3>3. ActiveKeys' \subseteq ActiveKeys
      BY <2>2, <3>1, <3>2 DEF Release, ActiveKeys, Present, TypeOK
    <3> QED BY <2>2, <3>3, StillBacked DEF Release
  <2> QED BY <1>2, <2>1, <2>2
<1>3. CASE UNCHANGED <<records, attempts>>
  BY <1>3, StillBacked DEF ActiveKeys, Present
<1> QED
  BY <1>1, <1>2, <1>3, CallerBacked, WorkerBacked, ClearBacked
  DEF Next, Work, vars, Enter, Superseded, GiveUp, NotRestored, Transition

(* What installing drops: the records it is told to, and terminal ones.      *)
LEMMA InstallDrops ==
  ASSUME NEW k \in Keys, NEW r, NEW dropped, Install(k, r, dropped),
         NEW j \in ActiveKeys, records'[j] = None, r # None
  PROVE  j \in dropped /\ j # k
<1>1. PICK gone \in Evictions(k, dropped) :
        records' = [i \in Keys |-> IF i = k THEN r
                                   ELSE IF i \in dropped \cup gone THEN None
                                   ELSE records[i]]
  BY DEF Install
<1>2. gone \subseteq EndedKeys
  BY <1>1 DEF Evictions, Evictable
<1>3. j \in Keys /\ records[j] # None /\ j \notin EndedKeys
  BY DEF ActiveKeys, EndedKeys, Present, Active, Ended
<1> QED BY <1>1, <1>2, <1>3

(* A step that drops active work clears its user or is its user's request    *)
(* for other inputs of the league.                                           *)
LEMMA DropStep ==
  ASSUME TypeOK, [Next]_vars
  PROVE  DropsJustified \/ records' = records
<1> DEFINE Keeps == \A k \in ActiveKeys : records'[k] # None
<1>1. ASSUME NEW c \in Callers, Submit(c)
      PROVE  DropsJustified
  <2> DEFINE k == CallKey(c)
             r == NewRecord(c, "queued")
  <2>1. k \in Keys \ Present /\ r # None /\ Install(k, r, Siblings(k))
    BY <1>1, CallKeys, NewRecords DEF Submit, Asks
  <2> HIDE DEF k, r
  <2>2. records'[k] # None
    BY <2>1, Installs
  <2>3. ASSUME NEW j \in ActiveKeys, records'[j] = None
        PROVE  k.user = j.user /\ k.league = j.league
    BY <2>1, <2>3, InstallDrops DEF Siblings
  <2> QED BY <2>1, <2>2, <2>3 DEF DropsJustified
<1>2. ASSUME NEW c \in Callers, Restored(c)
      PROVE  Keeps
  <2>1. CallKey(c) \in Keys /\ NewRecord(c, "completed") # None
    BY <1>2, CallKeys, NewRecords DEF Restored, Restoring
  <2>2. \A j \in ActiveKeys : j \notin Siblings(CallKey(c)) \cap EndedKeys
    BY DEF ActiveKeys, EndedKeys, Active, Ended
  <2> QED BY <1>2, <2>1, <2>2, InstallDrops DEF Restored
<1>3. ASSUME NEW c \in Callers, Coalesce(c)
      PROVE  Keeps
  <2> DEFINE k == CallKey(c)
  <2>1. k \in Keys /\ records[k] \in Records /\ calls[c].state \in StateIds
    BY <1>3, CallKeys DEF Coalesce, Asks, Calls, TypeOK, Present
  <2>2. PICK overdue \in BOOLEAN :
          records' = [records EXCEPT ![k] = Judged(@, calls[c].state, overdue)]
    BY <1>3 DEF Coalesce
  <2>3. Judged(records[k], calls[c].state, overdue) # None
    BY <2>1, Judgement, IntrinsicAssumption
  <2> HIDE DEF k
  <2> QED BY <2>1, <2>2, <2>3 DEF ActiveKeys, Present, TypeOK
<1>4. ASSUME NEW c \in Callers, NEW u \in Users, NEW s \in StateIds,
             Restore(c, u, s)
      PROVE  Keeps \/ records' = records
  <2>1. CASE records' = [records EXCEPT ![KeyOf(u, s)].state = s]
             /\ KeyOf(u, s) \in Present
    <3>1. records[KeyOf(u, s)] \in Records
      BY <2>1 DEF Present, TypeOK
    <3>2. [records[KeyOf(u, s)] EXCEPT !.state = s] \in Records
      BY <3>1 DEF Records
    <3>3. [records[KeyOf(u, s)] EXCEPT !.state = s] # None
      BY <3>2, IntrinsicAssumption
    <3> QED BY <2>1, <3>3 DEF ActiveKeys, Present, TypeOK
  <2> QED BY <1>4, <2>1 DEF Restore, Enter
<1>5. ASSUME NEW a \in DOMAIN attempts, Start(a) \/ Finish(a)
      PROVE  Keeps
  <2>1. PICK status \in Active \cup Ended : Set(attempts[a].key, status)
    BY <1>5 DEF Start, Finish, Active
  <2> QED BY <2>1, Submissions, Outcomes DEF ActiveKeys, Present
<1>6. ASSUME NEW k \in Keys, Discard(k) \/ Release(k)
      PROVE  Keeps
  <2>1. k \notin ActiveKeys /\ \A j \in Keys \ {k} : records'[j] = records[j]
    BY <1>6 DEF Discard, Discardable, Release, ActiveKeys, EndedKeys, Active,
                Ended, TypeOK
  <2> QED BY <2>1 DEF ActiveKeys, Present
<1>7. ASSUME NEW u \in Users, ClearUser(u)
      PROVE  DropsJustified
  <2>1. \A k \in Keys : records'[k] # records[k] => k.user = u
    BY <1>7 DEF ClearUser, Cleared
  <2>2. epochs'[u] # epochs[u]
    BY <1>7 DEF ClearUser, TypeOK
  <2> QED BY <2>1, <2>2 DEF DropsJustified, ActiveKeys, Present
<1>8. Keeps => DropsJustified
  BY DEF DropsJustified
<1> QED
  BY <1>1, <1>2, <1>3, <1>4, <1>5, <1>6, <1>7, <1>8
  DEF Next, Work, vars, Enter, Superseded, GiveUp, NotRestored, Leave, Transition

-----------------------------------------------------------------------------
IInv == TypeOK /\ RecordsCurrent /\ Backed

(* The inductive invariant.  No conjunct needs more than the types and itself.*)
THEOREM Invariance == Spec => []IInv
<1>1. Init => IInv
  <2> SUFFICES ASSUME Init PROVE IInv
    OBVIOUS
  <2>1. Present = {}
    BY DEF Init, Present
  <2>2. TypeOK
    BY DEF Init, TypeOK
  <2> QED BY <2>1, <2>2 DEF IInv, RecordsCurrent, Backed, ActiveKeys
<1>2. IInv /\ [Next]_vars => IInv'
  BY TypeStep, CurrentStep, BackedStep DEF IInv
<1> QED BY <1>1, <1>2, PTL DEF Spec

(* The coordinator's variables keep their types.                             *)
THEOREM TypeCorrect == Spec => []TypeOK
BY Invariance, PTL DEF IInv

(* clear_user is final, with any number of requests, waiters, restorations   *)
(* and submissions under way: no record of an earlier epoch is ever created. *)
THEOREM ClearingIsFinal == Spec => []RecordsCurrent
BY Invariance, PTL DEF IInv

(* A record that says queued or running has a submission waiting or running  *)
(* for its key, whoever else dropped, restored, cancelled or completed it.   *)
THEOREM ActiveIsBacked == Spec => []Backed
BY Invariance, PTL DEF IInv

(* Work under way is dropped only by clearing its user or by the user's own  *)
(* request for other inputs of the league: never to make room, never by a    *)
(* restoration.                                                              *)
THEOREM WorkIsKept == Spec => ActiveKept
<1>1. IInv /\ [Next]_vars => [DropsJustified]_records
  BY DropStep DEF IInv
<1> QED BY <1>1, Invariance, PTL DEF Spec, ActiveKept
=============================================================================
