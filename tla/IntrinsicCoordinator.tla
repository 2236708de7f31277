------------------------ MODULE IntrinsicCoordinator ------------------------
(***************************************************************************)
(* ShapleyIntrinsicBackgroundCoordinator of product/intrinsic_background.py:*)
(* one record per dependency key, built by the single worker of its         *)
(* executor; browser requests and waiting workers poll `request`, a durable *)
(* contract may be restored instead of built, and a State transition clears *)
(* the user.  A critical section under _lock is one step.                   *)
(*                                                                         *)
(* Left out: the clock (any poll may find the watchdog's time past), the    *)
(* response budget and the player-id summary, which decide nothing, errors, *)
(* and add_terminal_callback, which observes a Future after a request.  A   *)
(* key is resolved from the caller's State alone.                            *)
(***************************************************************************)
EXTENDS Naturals, Sequences, FiniteSetsExt

CONSTANTS
  None,
  Users, StateIds,
  Callers,       \* threads in request, wait_for_terminal or restore_compatible
  LeagueOf, InputsOf,  \* league and input fingerprint of a State
  MaxRecords,    \* the constructor's max_records
  MaxAttempts,   \* bound of the model on the submissions
  MaxClears      \* bound of the model on clear_user, all users together

KeyOf(u, s) == [user |-> u, league |-> LeagueOf[s], inputs |-> InputsOf[s]]
Keys == {KeyOf(u, s) : u \in Users, s \in StateIds}

Active == {"queued", "running"}
Ended == {"completed", "failed"}
(* contract: the record owns one (a completed record that does not has been *)
(* released); epoch, of the model: what the call that created it read.      *)
Records == {r \in [status : Active \cup Ended, state : StateIds,
                   contract : BOOLEAN, epoch : Nat] :
              r.contract => r.status = "completed"}
Stages == {"queued", "building", "leaving", "done"}
Calls == [kind : {"request", "restore"}, user : Users, state : StateIds,
          epoch : Nat]

ASSUME IntrinsicAssumption ==
  /\ None \notin Records \cup Calls
  /\ IsFiniteSet(Users) /\ IsFiniteSet(StateIds)
  /\ MaxRecords \in Nat /\ MaxRecords >= 2
  /\ MaxAttempts \in Nat /\ MaxClears \in Nat

VARIABLES
  records,    \* _records: key -> build record
  futures,    \* _futures: key -> the submission whose Future it holds
  attempts,   \* the executor: its submissions in order
  epochs,     \* _user_epochs
  owned,      \* the State that owns the user's execution (ownership_validator)
  calls       \* caller -> its call in progress

vars == <<records, futures, attempts, epochs, owned, calls>>

Init ==
  /\ records = [k \in Keys |-> None]
  /\ futures = [k \in Keys |-> None]
  /\ attempts = <<>>
  /\ epochs = [u \in Users |-> 0]
  /\ owned \in [Users -> StateIds]
  /\ calls = [c \in Callers |-> None]

-----------------------------------------------------------------------------
Present == {k \in Keys : records[k] # None}
ActiveKeys == {k \in Present : records[k].status \in Active}
EndedKeys == {k \in Present : records[k].status \in Ended}

Owns(u, s) == owned[u] = s
CallKey(c) == KeyOf(calls[c].user, calls[c].state)
Return(c) == calls' = [calls EXCEPT ![c] = None]

(* The epoch a call expects is the user's still.                            *)
MutantFenced(c) == TRUE           \* mutant: no epoch test
Fenced(c) == calls[c].epoch = epochs[calls[c].user]

NewRecord(c, status) ==
  [status |-> status, state |-> calls[c].state, contract |-> status \in Ended,
   epoch |-> calls[c].epoch]

(* Records of the user and league for other inputs.                         *)
Siblings(k) ==
  {j \in Present \ {k} : j.user = k.user /\ j.league = k.league}

(* What may go to make room: terminal records, least recently updated first *)
(* (any, here), until one more record fits or none is left.                 *)
MutantEvictable(k) == Present \ {k}   \* mutant: no status test
Evictable(k) == EndedKeys \ {k}
Excess(n) == Max({0, n + 1 - MaxRecords})
Evictions(k, dropped) ==
  LET ended == Evictable(k) \ dropped
      n == Min({Cardinality(ended), Excess(Cardinality(Present \ dropped))})
  IN  {gone \in SUBSET ended : Cardinality(gone) = n}

Install(k, r, dropped) ==
  \E gone \in Evictions(k, dropped) :
    records' = [j \in Keys |-> IF j = k THEN r
                               ELSE IF j \in dropped \cup gone THEN None
                               ELSE records[j]]

-----------------------------------------------------------------------------
(* request reads the epoch on entry, wait_for_terminal before its first     *)
(* request, restore_compatible before the key; all refuse a context that    *)
(* does not own the execution.                                              *)
Enter(c, kind, u, s) ==
  /\ calls[c] = None
  /\ Owns(u, s)
  /\ calls' = [calls EXCEPT ![c] = [kind |-> kind, user |-> u, state |-> s,
                                    epoch |-> epochs[u]]]
  /\ UNCHANGED <<records, futures, attempts, epochs, owned>>

Asks(c) == calls[c] # None /\ calls[c].kind = "request"
Admitted(c) == Fenced(c) /\ Owns(calls[c].user, calls[c].state)

(* IntrinsicBuildSuperseded.                                                *)
Superseded(c) ==
  /\ Asks(c) /\ ~Admitted(c)
  /\ Return(c)
  /\ UNCHANGED <<records, futures, attempts, epochs, owned>>

(* A released record is returned as it is; its caller goes on to Restore    *)
(* when the contract has been collected.  Any other follows the State of    *)
(* the caller, and the watchdog fails an active one that is overdue, even   *)
(* while its worker runs.                                                   *)
Judged(r, s, overdue) ==
  IF r.status = "completed" /\ ~r.contract THEN r
  ELSE IF r.status \in Active /\ overdue
  THEN [r EXCEPT !.state = s, !.status = "failed"]
  ELSE [r EXCEPT !.state = s]

(* request returns; wait_for_terminal polls on, with the epoch it has, while *)
(* the record is active.                                                    *)
Answered(c) ==
  \/ Return(c)
  \/ records'[CallKey(c)].status \in Active /\ UNCHANGED calls

(* request with a record for the key.                                       *)
Coalesce(c) ==
  LET k == CallKey(c) IN
  /\ Asks(c) /\ Admitted(c) /\ k \in Present
  /\ \E overdue \in BOOLEAN :
       records' = [records EXCEPT ![k] = Judged(@, calls[c].state, overdue)]
  /\ Answered(c)
  /\ UNCHANGED <<futures, attempts, epochs, owned>>

(* request without one: every record of the league for other inputs goes,   *)
(* terminal ones make room, and a new build is queued.  The Futures of the  *)
(* records that went stay where they are.                                   *)
Submit(c) ==
  LET k == CallKey(c) IN
  /\ Asks(c) /\ Admitted(c) /\ k \notin Present
  /\ Len(attempts) < MaxAttempts
  /\ Install(k, NewRecord(c, "queued"), Siblings(k))
  /\ attempts' = Append(attempts, [key |-> k, stage |-> "queued"])
  /\ futures' = [futures EXCEPT ![k] = Len(attempts')]
  /\ Answered(c)
  /\ UNCHANGED <<epochs, owned>>

(* The waiter's deadline.                                                   *)
GiveUp(c) ==
  /\ Asks(c)
  /\ Return(c)
  /\ UNCHANGED <<records, futures, attempts, epochs, owned>>

-----------------------------------------------------------------------------
(* restore_compatible returns a completed record that has its contract, or  *)
(* goes to the durable store outside the lock.                              *)
Restore(c, u, s) ==
  LET k == KeyOf(u, s)
      complete == k \in Present /\ records[k].status = "completed"
                  /\ records[k].contract
  IN
  \/ /\ complete
     /\ calls[c] = None /\ Owns(u, s)
     /\ records' = [records EXCEPT ![k].state = s]
     /\ UNCHANGED <<futures, attempts, epochs, owned, calls>>
  \/ ~complete /\ Enter(c, "restore", u, s)

Restoring(c) == calls[c] # None /\ calls[c].kind = "restore"

(* Only the epoch is tested again; the new record replaces whatever the key *)
(* has, an active record too, and only terminal siblings go.                *)
Restored(c) ==
  /\ Restoring(c) /\ Fenced(c)
  /\ LET k == CallKey(c)
     IN  Install(k, NewRecord(c, "completed"), Siblings(k) \cap EndedKeys)
  /\ Return(c)
  /\ UNCHANGED <<futures, attempts, epochs, owned>>

(* The epoch has moved, or there is no compatible durable contract.         *)
NotRestored(c) ==
  /\ Restoring(c)
  /\ Return(c)
  /\ UNCHANGED <<records, futures, attempts, epochs, owned>>

-----------------------------------------------------------------------------
(* _set: the outcome goes to whichever record the key has now.              *)
MutantSet(k, status) ==           \* mutant: a failure is logged, not recorded
  records' = IF k \in Present /\ status # "failed"
             THEN [records EXCEPT ![k].status = status,
                                  ![k].contract = (status = "completed")]
             ELSE records
MutantSetStatus(k, status) ==     \* mutant: replace keeps the contract
  records' = IF k \in Present
             THEN [records EXCEPT ![k].status = status,
                                  ![k].contract = @ \/ status = "completed"]
             ELSE records
Set(k, status) ==
  records' = IF k \in Present
             THEN [records EXCEPT ![k].status = status,
                                  ![k].contract = (status = "completed")]
             ELSE records

At(a, stage) == attempts[a].stage = stage
Move(a, stage) == attempts' = [attempts EXCEPT ![a].stage = stage]

(* The single worker takes the first submission that was not cancelled.     *)
Turn(a) ==
  /\ At(a, "queued")
  /\ \A b \in DOMAIN attempts :
       /\ ~At(b, "building") /\ ~At(b, "leaving")
       /\ b < a => ~At(b, "queued")

(* _run up to the loader; without a record it returns at once and leaves    *)
(* its Future in _futures.                                                  *)
Start(a) ==
  /\ Turn(a)
  /\ Set(attempts[a].key, "running")
  /\ Move(a, IF attempts[a].key \in Present THEN "building" ELSE "done")
  /\ UNCHANGED <<futures, epochs, owned, calls>>

(* The heavy-work claim and the loader, which return or raise.              *)
Finish(a) ==
  /\ At(a, "building")
  /\ \E status \in Ended : Set(attempts[a].key, status)
  /\ Move(a, "leaving")
  /\ UNCHANGED <<futures, epochs, owned, calls>>

(* _run ends by popping the Future of its key, whosever it is.              *)
Leave(a) ==
  /\ At(a, "leaving")
  /\ futures' = [futures EXCEPT ![attempts[a].key] = None]
  /\ Move(a, "done")
  /\ UNCHANGED <<records, epochs, owned, calls>>

Work == \E a \in DOMAIN attempts : Start(a) \/ Finish(a) \/ Leave(a)

-----------------------------------------------------------------------------
(* discard_terminal: a Future that is not done counts as active work.       *)
Discardable(k) ==
  /\ k \in EndedKeys
  /\ futures[k] # None => At(futures[k], "done")

Discard(k) ==
  /\ Discardable(k)
  /\ records' = [records EXCEPT ![k] = None]
  /\ futures' = [futures EXCEPT ![k] = None]
  /\ UNCHANGED <<attempts, epochs, owned, calls>>

(* release_completed_contract, with or without the contract in hand.        *)
Release(k) ==
  /\ k \in Present /\ records[k].status = "completed" /\ records[k].contract
  /\ records' = [records EXCEPT ![k].contract = FALSE]
  /\ UNCHANGED <<futures, attempts, epochs, owned, calls>>

(* clear_user: the epoch moves, the records go, and their Futures are       *)
(* cancelled: one whose submission still waits never runs.                  *)
Cleared(u) == {k \in Present : k.user = u}

Cancelled(a, u) ==
  /\ At(a, "queued")
  /\ attempts[a].key \in Cleared(u) /\ futures[attempts[a].key] = a

ClearUser(u) ==
  /\ MapThenSumSet(LAMBDA v : epochs[v], Users) < MaxClears
  /\ epochs' = [epochs EXCEPT ![u] = @ + 1]
  /\ records' = [k \in Keys |-> IF k \in Cleared(u) THEN None ELSE records[k]]
  /\ futures' = [k \in Keys |-> IF k \in Cleared(u) THEN None ELSE futures[k]]
  /\ attempts' = [a \in DOMAIN attempts |->
                    IF Cancelled(a, u) THEN [attempts[a] EXCEPT !.stage = "done"]
                    ELSE attempts[a]]
  /\ UNCHANGED <<owned, calls>>

(* The runtime binds another State; the boundary clears the user or not.    *)
Transition(u, s) ==
  /\ ~Owns(u, s)
  /\ owned' = [owned EXCEPT ![u] = s]
  /\ UNCHANGED <<records, futures, attempts, epochs, calls>>

Next ==
  \/ \E c \in Callers :
       \/ \E u \in Users, s \in StateIds :
            Enter(c, "request", u, s) \/ Restore(c, u, s)
       \/ Superseded(c) \/ Coalesce(c) \/ Submit(c) \/ GiveUp(c)
       \/ Restored(c) \/ NotRestored(c)
  \/ Work
  \/ \E k \in Keys : Discard(k) \/ Release(k)
  \/ \E u \in Users : ClearUser(u) \/ \E s \in StateIds : Transition(u, s)

(* The worker thread runs and the loader returns; no caller has to call.    *)
Spec == Init /\ [][Next]_vars /\ WF_vars(Work)

-----------------------------------------------------------------------------
(* The variables have their types.                                          *)
TypeOK ==
  /\ records \in [Keys -> Records \cup {None}]
  /\ futures \in [Keys -> (DOMAIN attempts) \cup {None}]
  /\ attempts \in Seq([key : Keys, stage : Stages])
  /\ epochs \in [Users -> Nat]
  /\ owned \in [Users -> StateIds]
  /\ calls \in [Callers -> Calls \cup {None}]

(* Clearing a user is final: every record was created by a call that read   *)
(* the user's epoch after the last clear_user, whatever requests, waiters,  *)
(* restorations and workers were under way then.                            *)
RecordsCurrent == \A k \in Present : records[k].epoch = epochs[k.user]

(* A record that says queued or running has a submission that will settle   *)
(* it, although a submission settles whichever record its key has, pops     *)
(* whichever Future, and its own may be cancelled or its record replaced.   *)
Backed ==
  \A k \in ActiveKeys : \E a \in DOMAIN attempts :
    attempts[a].key = k /\ (At(a, "queued") \/ At(a, "building"))

(* Active work of a user is dropped only by clearing that user or by a      *)
(* request of that user for other inputs of the same league, never to make  *)
(* room or by another user.                                                 *)
DropsJustified ==
  \A k \in ActiveKeys : records'[k] = None =>
    \/ epochs'[k.user] # epochs[k.user]
    \/ \E j \in Keys \ Present :
         j.user = k.user /\ j.league = k.league /\ records'[j] # None

ActiveKept == [][DropsJustified]_records

(* Active records are settled or dropped, all of them, by the worker alone  *)
(* once submissions end (MaxAttempts): no later poll or watchdog is needed. *)
Settles == ActiveKeys # {} ~> ActiveKeys = {}

(* "A watchdog may mark a record failed while its worker is still running.  *)
(* Treat that Future as active": discard_terminal does not drop a failed    *)
(* record while a worker builds for its key.                                *)
DiscardSparesWorker ==
  \A k \in Keys : Discardable(k) /\ records[k].status = "failed" =>
    \A a \in DOMAIN attempts : At(a, "building") => attempts[a].key # k
=============================================================================
