------------------------------ MODULE HeavyWork ------------------------------
(***************************************************************************)
(* HeavyWorkCoordinator of product/resource_coordinator.py: the process-   *)
(* wide lane that lets one memory-heavy build run at a time.  `claim` is a *)
(* context manager around a Condition; every critical section of it is one *)
(* action here, and what happens outside the condition (the memory check,  *)
(* the body, the memory release) is a step of its own.                     *)
(*                                                                         *)
(* Left out: the telemetry that only `snapshot` reports (resident sizes,   *)
(* phase memory, the waiting high-water mark).                             *)
(***************************************************************************)
EXTENDS Naturals, FiniteSets

CONSTANTS
  Threads,      \* the process's background threads
  Kinds,        \* the kinds of heavy work ("presentation", "simulation", ...)
  NoThread,     \* active_thread_id is None
  MaxWaiters,   \* the constructor's max_waiters
  MaxClaims     \* bound of the model on the admissions of one kind

ASSUME HeavyAssumption ==
  /\ IsFiniteSet(Threads)
  /\ NoThread \notin Threads
  /\ MaxWaiters \in Nat \ {0}
  /\ MaxClaims \in Nat

VARIABLES
  pc,           \* where each thread stands in claim
  kind,         \* the kind of its claim
  timed,        \* whether it waits with a deadline
  expired,      \* whether that deadline has passed
  active,       \* _active_thread_id; _active_kind and _active_key go with it
  waiting,      \* _waiting_count
  acquired,     \* _acquisitions_by_kind
  completed     \* _completions_by_kind

claimVars == <<kind, timed, expired>>
vars == <<pc, kind, timed, expired, active, waiting, acquired, completed>>

(* idle: outside claim.  asleep: in Condition.wait.  awake: notified or     *)
(* timed out, about to take the condition's lock again.  granted: lane      *)
(* taken, memory check to come.  running: in the body.  leaving: in the     *)
(* outer finally, before its critical section.                              *)
Waits == {"asleep", "awake"}
Holds == {"granted", "running", "leaving"}
Places == {"idle"} \cup Waits \cup Holds

Waiters == {t \in Threads : pc[t] \in Waits}

Init ==
  /\ pc = [t \in Threads |-> "idle"]
  /\ kind \in {[t \in Threads |-> k] : k \in Kinds}
  /\ timed = [t \in Threads |-> FALSE]
  /\ expired = [t \in Threads |-> FALSE]
  /\ active = NoThread
  /\ waiting = 0
  /\ acquired = [k \in Kinds |-> 0]
  /\ completed = [k \in Kinds |-> 0]

-----------------------------------------------------------------------------
(* A body may itself call claim; the caller is then the active thread.      *)
Calls(t) == pc[t] \in {"idle", "running"}
MutantNested(t) == FALSE          \* mutant: no test for a nested claim
Nested(t) == active = t

(* The bound of the model on new claims; waiters already admitted to the    *)
(* queue are never held back by it.                                         *)
WithinBound(k) ==
  acquired[k] + Cardinality({t \in Waiters : kind[t] = k}) < MaxClaims

Place(t, p) == pc' = [pc EXCEPT ![t] = p]

(* d: the wait has a deadline; e: it has passed.                            *)
Deadline(t, d, e) ==
  /\ timed' = [timed EXCEPT ![t] = d]
  /\ expired' = [expired EXCEPT ![t] = e]

TakeLane(t, k) ==
  /\ active' = t
  /\ kind' = [kind EXCEPT ![t] = k]
  /\ acquired' = [acquired EXCEPT ![k] = @ + 1]
  /\ Deadline(t, FALSE, FALSE)
  /\ Place(t, "granted")

(* claim with the lane free: no queueing, even past threads that were       *)
(* notified and have not run yet.                                           *)
ClaimFree(t, k) ==
  /\ Calls(t)
  /\ ~Nested(t)
  /\ active = NoThread
  /\ WithinBound(k)
  /\ TakeLane(t, k)
  /\ UNCHANGED <<waiting, completed>>

(* claim with the lane taken and room in the queue.  With the queue full it *)
(* raises RuntimeError and changes nothing.                                 *)
ClaimBusy(t, k, d) ==
  /\ Calls(t)
  /\ ~Nested(t)
  /\ active # NoThread
  /\ waiting < MaxWaiters
  /\ WithinBound(k)
  /\ kind' = [kind EXCEPT ![t] = k]
  /\ Deadline(t, d, FALSE)
  /\ waiting' = waiting + 1
  /\ Place(t, "asleep")
  /\ UNCHANGED <<active, acquired, completed>>

(* The RuntimeError of a nested claim unwinds the body.                     *)
ClaimNested(t) ==
  /\ pc[t] = "running"
  /\ Nested(t)
  /\ Place(t, "leaving")
  /\ UNCHANGED <<claimVars, active, waiting, acquired, completed>>

(* The deadline passes; a sleeping thread's wait(timeout) returns.          *)
Expire(t) ==
  /\ pc[t] \in Waits
  /\ timed[t] /\ ~expired[t]
  /\ Deadline(t, TRUE, TRUE)
  /\ Place(t, "awake")
  /\ UNCHANGED <<kind, active, waiting, acquired, completed>>

(* The inner finally, whether the waiter leaves with the lane or without.   *)
MutantDequeued(t) == IF expired[t] THEN waiting ELSE waiting - 1
                                  \* mutant: no finally around the wait loop
MutantDequeuedTwice(t) == waiting - 2
                                  \* mutant: decrement in the loop and in finally
Dequeued(t) == waiting - 1

(* The loop test of an awake waiter that finds the lane free: it takes the  *)
(* lane without looking at its deadline.                                    *)
WakeFree(t) ==
  /\ pc[t] = "awake"
  /\ active = NoThread
  /\ waiting' = Dequeued(t)
  /\ TakeLane(t, kind[t])
  /\ UNCHANGED completed

(* The loop test of an awake waiter that finds the lane taken: TimeoutError *)
(* when its deadline has passed, otherwise it sleeps again.                 *)
WakeBusy(t) ==
  /\ pc[t] = "awake"
  /\ active # NoThread
  /\ IF expired[t]
     THEN /\ Place(t, "idle")
          /\ Deadline(t, FALSE, FALSE)
          /\ waiting' = Dequeued(t)
     ELSE /\ Place(t, "asleep")
          /\ UNCHANGED <<timed, expired, waiting>>
  /\ UNCHANGED <<kind, active, acquired, completed>>

(* Reclaim memory and test the resident size: MemoryError skips the body    *)
(* but not the finally.                                                     *)
StartBody(t) ==
  /\ pc[t] = "granted"
  /\ \E p \in {"running", "leaving"} : Place(t, p)
  /\ UNCHANGED <<claimVars, active, waiting, acquired, completed>>

(* The body returns or raises.                                              *)
EndBody(t) ==
  /\ pc[t] = "running"
  /\ Place(t, "leaving")
  /\ UNCHANGED <<claimVars, active, waiting, acquired, completed>>

(* notify_all: every sleeper is to test the lane again.                     *)
MutantNotified(t) ==
  pc[t] = "asleep" /\ t = CHOOSE u \in Threads : pc[u] = "asleep"
                                  \* mutant: notify instead of notify_all
Notified(t) == pc[t] = "asleep"

(* The critical section of the finally.                                     *)
Release(t) ==
  /\ pc[t] = "leaving"
  /\ active' = NoThread
  /\ completed' = [completed EXCEPT ![kind[t]] = @ + 1]
  /\ pc' = [u \in Threads |-> IF u = t THEN "idle"
                              ELSE IF Notified(u) THEN "awake" ELSE pc[u]]
  /\ UNCHANGED <<claimVars, waiting, acquired>>

(* What a thread does of itself once it is in claim.                        *)
Proceed(t) ==
  \/ Expire(t) \/ WakeFree(t) \/ WakeBusy(t)
  \/ StartBody(t) \/ EndBody(t) \/ Release(t)

Next ==
  \E t \in Threads :
    \/ \E k \in Kinds : ClaimFree(t, k) \/ \E d \in BOOLEAN : ClaimBusy(t, k, d)
    \/ ClaimNested(t)
    \/ Proceed(t)

(* A thread that can run does run, deadlines pass, and bodies terminate: no *)
(* caller is obliged to claim.                                              *)
Spec == Init /\ [][Next]_vars /\ \A t \in Threads : WF_vars(Proceed(t))

-----------------------------------------------------------------------------
(* The variables have their types.                                          *)
TypeOK ==
  /\ pc \in [Threads -> Places]
  /\ kind \in [Threads -> Kinds]
  /\ timed \in [Threads -> BOOLEAN]
  /\ expired \in [Threads -> BOOLEAN]
  /\ active \in Threads \cup {NoThread}
  /\ waiting \in Nat
  /\ acquired \in [Kinds -> Nat]
  /\ completed \in [Kinds -> Nat]

(* At most one admitted build at once: the threads between admission and    *)
(* the release in the finally are exactly the recorded active thread, which *)
(* therefore never waits for itself through a nested claim.                 *)
LaneExclusion == {t \in Threads : pc[t] \in Holds} = {active} \ {NoThread}

(* No lost wake-up: a thread sleeps in the queue only while somebody holds  *)
(* the lane and will notify it.                                             *)
NoLostWakeup == (\E t \in Threads : pc[t] = "asleep") => active # NoThread

QueueCounted ==
  /\ waiting = Cardinality(Waiters)
  /\ waiting <= MaxWaiters

KindsBalance ==
  \A k \in Kinds :
    acquired[k] = completed[k]
                  + IF active # NoThread /\ kind[active] = k THEN 1 ELSE 0

(* The counters tell the truth: the waiting count is the number of threads  *)
(* in the queue, within max_waiters, whichever way each one left it; and    *)
(* every admission of a kind is completed once, except the active one.      *)
AccountsBalance == QueueCounted /\ KindsBalance

(* Every waiter, with or without a deadline, leaves the queue when bodies   *)
(* terminate and only finitely many claims arrive (MaxClaims).              *)
WaitersDrain == \A t \in Threads : pc[t] \in Waits ~> pc[t] \notin Waits
=============================================================================
