--------------------------- MODULE HeavyWorkProofs ---------------------------
(* The safety of the heavy-work lane for any set of threads, kinds of work  *)
(* and queue length.  The four invariants of HeavyWork are inductive only   *)
(* together: a release may clear the lane because its caller is the only    *)
(* holder (LaneExclusion), and the count may be decremented because the     *)
(* leaving waiter is one of those counted (AccountsBalance).                *)
EXTENDS HeavyWork, FiniteSetTheorems, TLAPS

Inv == TypeOK /\ LaneExclusion /\ NoLostWakeup /\ AccountsBalance

(* The lane's exclusion, one thread at a time: exactly the active thread is *)
(* between admission and release.                                           *)
OneHolder == \A t \in Threads : pc[t] \in Holds <=> t = active

(* The two ways to say it agree.                                           *)
LEMMA HolderIsActive ==
  ASSUME active \in Threads \cup {NoThread}
  PROVE  LaneExclusion <=> OneHolder
  BY HeavyAssumption DEF LaneExclusion, OneHolder

(* The same in the next state.                                              *)
LEMMA HolderIsActiveNext ==
  ASSUME active' \in Threads \cup {NoThread}
  PROVE  LaneExclusion' <=> OneHolder'
  BY HeavyAssumption DEF LaneExclusion, OneHolder

(* Counting the queue: joining it adds one, leaving it takes one away.      *)
LEMMA QueueCount ==
  ASSUME NEW q, NEW r, NEW t \in Threads, q \subseteq Threads
  PROVE  /\ Cardinality(q) \in Nat
         /\ t \notin q /\ r = q \cup {t} => Cardinality(r) = Cardinality(q) + 1
         /\ t \in q /\ r = q \ {t} =>
              /\ Cardinality(r) = Cardinality(q) - 1
              /\ Cardinality(q) > 0
  <1>1. IsFiniteSet(q)
    BY FS_Subset, HeavyAssumption
  <1>2. Cardinality(q) \in Nat
    BY <1>1, FS_CardinalityType
  <1>3. t \notin q => Cardinality(q \cup {t}) = Cardinality(q) + 1
    BY <1>1, FS_AddElement
  <1>4. t \in q => Cardinality(q \ {t}) = Cardinality(q) - 1 /\ q # {}
    BY <1>1, FS_RemoveElement
  <1>5. q # {} => Cardinality(q) # 0
    BY <1>1, FS_EmptySet
  <1> QED
    BY <1>2, <1>3, <1>4, <1>5

-----------------------------------------------------------------------------
(* Initially the lane is free, the queue empty and the accounts at zero.    *)
LEMMA InitInv == Init => Inv
  <1> SUFFICES ASSUME Init PROVE Inv
    OBVIOUS
  <1>1. TypeOK
    BY HeavyAssumption DEF Init, TypeOK, Places
  <1>2. LaneExclusion
    BY <1>1, HolderIsActive, HeavyAssumption DEF Init, OneHolder, Holds, TypeOK
  <1>3. NoLostWakeup
    BY DEF Init, NoLostWakeup
  <1>4. Waiters = {}
    BY DEF Init, Waiters, Waits
  <1>5. AccountsBalance
    BY <1>4, FS_EmptySet, HeavyAssumption
    DEF Init, AccountsBalance, QueueCounted, KindsBalance
  <1> QED
    BY <1>1, <1>2, <1>3, <1>5 DEF Inv

(* A queued thread is one of those counted.                                 *)
LEMMA WaiterCounted ==
  ASSUME NEW t \in Threads, pc[t] \in Waits
  PROVE  Cardinality(Waiters) \in Nat /\ Cardinality(Waiters) > 0
  <1>1. t \in Waiters /\ Waiters \subseteq Threads
    BY DEF Waiters
  <1> QED
    BY <1>1, QueueCount

(* What a step does to the number of queued threads.                        *)
Moves(t, p) ==
  /\ (pc[t] \in Waits <=> p \in Waits) => Waiters' = Waiters
  /\ pc[t] \notin Waits /\ p \in Waits =>
       Cardinality(Waiters') = Cardinality(Waiters) + 1
  /\ pc[t] \in Waits /\ p \notin Waits =>
       Cardinality(Waiters') = Cardinality(Waiters) - 1
  /\ Cardinality(Waiters) \in Nat

(* A thread that leaves the queue takes one away from the count.            *)
LEMMA QueueStep ==
  TypeOK => \A t \in Threads, p \in Places : Place(t, p) => Moves(t, p)
  <1> SUFFICES ASSUME TypeOK, NEW t \in Threads, NEW p \in Places,
                      pc' = [pc EXCEPT ![t] = p]
               PROVE  Moves(t, p)
    BY DEF Place
  <1>1. \A u \in Threads : pc'[u] = IF u = t THEN p ELSE pc[u]
    BY DEF TypeOK
  <1>2. Waiters' = IF p \in Waits THEN Waiters \cup {t} ELSE Waiters \ {t}
    BY <1>1 DEF Waiters
  <1>3. t \in Waiters <=> pc[t] \in Waits
    BY DEF Waiters
  <1>4. Waiters \subseteq Threads
    BY DEF Waiters
  <1>5. (pc[t] \in Waits <=> p \in Waits) => Waiters' = Waiters
    BY <1>2, <1>3
  <1> DEFINE q == Waiters
             r == Waiters'
  <1>6. /\ q \subseteq Threads
        /\ pc[t] \notin Waits /\ p \in Waits => t \notin q /\ r = q \cup {t}
        /\ pc[t] \in Waits /\ p \notin Waits => t \in q /\ r = q \ {t}
    BY <1>2, <1>3, <1>4
  <1> HIDE DEF q, r
  <1>7. /\ Cardinality(q) \in Nat
        /\ pc[t] \notin Waits /\ p \in Waits => Cardinality(r) = Cardinality(q) + 1
        /\ pc[t] \in Waits /\ p \notin Waits => Cardinality(r) = Cardinality(q) - 1
    <2>1. t \in q => t \in q /\ q \ {t} = q \ {t}
      OBVIOUS
    <2> QED
      BY <1>6, QueueCount, <2>1
  <1> QED
    BY <1>5, <1>7 DEF q, r, Moves

-----------------------------------------------------------------------------
(* The inductive step, one lemma for each conjunct that needs the actions   *)
(* one by one.                                                              *)
LEMMA TypeStep == TypeOK /\ QueueCounted /\ [Next]_vars => TypeOK'
  <1> SUFFICES ASSUME TypeOK, QueueCounted, [Next]_vars PROVE TypeOK'
    OBVIOUS
  <1> USE DEF TypeOK, Places, Waits, Holds
  <1>1. ASSUME NEW t \in Threads, NEW k \in Kinds, ClaimFree(t, k) PROVE TypeOK'
    BY <1>1 DEF ClaimFree, TakeLane, Deadline, Place
  <1>2. ASSUME NEW t \in Threads, NEW k \in Kinds, NEW d \in BOOLEAN, ClaimBusy(t, k, d) PROVE TypeOK'
    BY <1>2 DEF ClaimBusy, Deadline, Place
  <1>3. ASSUME NEW t \in Threads, ClaimNested(t) PROVE TypeOK'
    BY <1>3 DEF ClaimNested, Place, claimVars
  <1>4. ASSUME NEW t \in Threads, Expire(t) PROVE TypeOK'
    BY <1>4 DEF Expire, Deadline, Place
  <1>5. ASSUME NEW t \in Threads, WakeFree(t) PROVE TypeOK'
    <2>1. waiting - 1 \in Nat
      <3>1. pc[t] \in Waits
        BY <1>5 DEF WakeFree
      <3>2. Cardinality(Waiters) \in Nat /\ Cardinality(Waiters) > 0
        BY <3>1, WaiterCounted
      <3> QED
        BY <3>2 DEF QueueCounted
    <2> QED
      BY <1>5, <2>1 DEF WakeFree, TakeLane, Deadline, Place, Dequeued
  <1>6. ASSUME NEW t \in Threads, WakeBusy(t) PROVE TypeOK'
    <2>1. waiting - 1 \in Nat
      <3>1. pc[t] \in Waits
        BY <1>6 DEF WakeBusy
      <3>2. Cardinality(Waiters) \in Nat /\ Cardinality(Waiters) > 0
        BY <3>1, WaiterCounted
      <3> QED
        BY <3>2 DEF QueueCounted
    <2> QED
      BY <1>6, <2>1 DEF WakeBusy, Deadline, Place, Dequeued
  <1>7. ASSUME NEW t \in Threads, StartBody(t) PROVE TypeOK'
    BY <1>7 DEF StartBody, Place, claimVars
  <1>8. ASSUME NEW t \in Threads, EndBody(t) PROVE TypeOK'
    BY <1>8 DEF EndBody, Place, claimVars
  <1>9. ASSUME NEW t \in Threads, Release(t) PROVE TypeOK'
    BY <1>9 DEF Release, Notified, claimVars
  <1>10. CASE UNCHANGED vars
    BY <1>10 DEF vars
  <1> QED
    BY <1>1, <1>2, <1>3, <1>4, <1>5, <1>6, <1>7, <1>8, <1>9, <1>10
    DEF Next, Proceed

(* Every step keeps the lane with its recorded holder: claiming a free      *)
(* lane, waking on a free lane and the release are the steps that move it.  *)
LEMMA ExclusionStep == TypeOK /\ OneHolder /\ [Next]_vars => OneHolder'
  <1> SUFFICES ASSUME TypeOK, OneHolder, [Next]_vars PROVE OneHolder'
    OBVIOUS
  <1> USE HeavyAssumption DEF TypeOK, OneHolder, Waits, Holds
  <1>1. ASSUME NEW t \in Threads, NEW k \in Kinds, ClaimFree(t, k) PROVE OneHolder'
    BY <1>1 DEF ClaimFree, Calls, Nested, TakeLane, Deadline, Place
  <1>2. ASSUME NEW t \in Threads, NEW k \in Kinds, NEW d \in BOOLEAN,
                ClaimBusy(t, k, d) PROVE OneHolder'
    BY <1>2 DEF ClaimBusy, Calls, Nested, Deadline, Place
  <1>3. ASSUME NEW t \in Threads, ClaimNested(t) PROVE OneHolder'
    BY <1>3 DEF ClaimNested, Place, claimVars
  <1>4. ASSUME NEW t \in Threads, Expire(t) PROVE OneHolder'
    BY <1>4 DEF Expire, Deadline, Place
  <1>5. ASSUME NEW t \in Threads, WakeFree(t) PROVE OneHolder'
    BY <1>5 DEF WakeFree, TakeLane, Deadline, Place, Dequeued
  <1>6. ASSUME NEW t \in Threads, WakeBusy(t) PROVE OneHolder'
    BY <1>6 DEF WakeBusy, Deadline, Place, Dequeued
  <1>7. ASSUME NEW t \in Threads, StartBody(t) PROVE OneHolder'
    BY <1>7 DEF StartBody, Place, claimVars
  <1>8. ASSUME NEW t \in Threads, EndBody(t) PROVE OneHolder'
    BY <1>8 DEF EndBody, Place, claimVars
  <1>9. ASSUME NEW t \in Threads, Release(t) PROVE OneHolder'
    BY <1>9 DEF Release, Notified, claimVars
  <1>10. CASE UNCHANGED vars
    BY <1>10 DEF vars
  <1> QED
    BY <1>1, <1>2, <1>3, <1>4, <1>5, <1>6, <1>7, <1>8, <1>9, <1>10
    DEF Next, Proceed

(* No step leaves a sleeper on a free lane: sleepers arise only under a     *)
(* holder, and the release wakes them all.                                  *)
LEMMA WakeupStep == TypeOK /\ OneHolder /\ NoLostWakeup /\ [Next]_vars => NoLostWakeup'
  <1> SUFFICES ASSUME TypeOK, OneHolder, NoLostWakeup, [Next]_vars
               PROVE NoLostWakeup'
    OBVIOUS
  <1> USE HeavyAssumption DEF TypeOK, OneHolder, NoLostWakeup, Waits, Holds
  <1>1. ASSUME NEW t \in Threads, NEW k \in Kinds, ClaimFree(t, k) PROVE NoLostWakeup'
    BY <1>1 DEF ClaimFree, Calls, Nested, TakeLane, Deadline, Place
  <1>2. ASSUME NEW t \in Threads, NEW k \in Kinds, NEW d \in BOOLEAN,
                ClaimBusy(t, k, d) PROVE NoLostWakeup'
    BY <1>2 DEF ClaimBusy, Calls, Nested, Deadline, Place
  <1>3. ASSUME NEW t \in Threads, ClaimNested(t) PROVE NoLostWakeup'
    BY <1>3 DEF ClaimNested, Place, claimVars
  <1>4. ASSUME NEW t \in Threads, Expire(t) PROVE NoLostWakeup'
    BY <1>4 DEF Expire, Deadline, Place
  <1>5. ASSUME NEW t \in Threads, WakeFree(t) PROVE NoLostWakeup'
    BY <1>5 DEF WakeFree, TakeLane, Deadline, Place, Dequeued
  <1>6. ASSUME NEW t \in Threads, WakeBusy(t) PROVE NoLostWakeup'
    BY <1>6 DEF WakeBusy, Deadline, Place, Dequeued
  <1>7. ASSUME NEW t \in Threads, StartBody(t) PROVE NoLostWakeup'
    BY <1>7 DEF StartBody, Place, claimVars
  <1>8. ASSUME NEW t \in Threads, EndBody(t) PROVE NoLostWakeup'
    BY <1>8 DEF EndBody, Place, claimVars
  <1>9. ASSUME NEW t \in Threads, Release(t) PROVE NoLostWakeup'
    BY <1>9 DEF Release, Notified, claimVars
  <1>10. CASE UNCHANGED vars
    BY <1>10 DEF vars
  <1> QED
    BY <1>1, <1>2, <1>3, <1>4, <1>5, <1>6, <1>7, <1>8, <1>9, <1>10
    DEF Next, Proceed

(* Every way into and out of the queue keeps the waiting count exact.       *)
LEMMA QueueCountedStep == TypeOK /\ QueueCounted /\ [Next]_vars => QueueCounted'
  <1> SUFFICES ASSUME TypeOK, QueueCounted, [Next]_vars PROVE QueueCounted'
    OBVIOUS
  <1> USE HeavyAssumption DEF QueueCounted
  <1>1. ASSUME NEW t \in Threads, NEW k \in Kinds, ClaimFree(t, k) PROVE QueueCounted'
    <2>1. pc[t] \notin Waits /\ "granted" \notin Waits /\ Place(t, "granted")
      BY <1>1 DEF ClaimFree, Calls, TakeLane, Waits
    <2>2. Waiters' = Waiters
      BY <2>1, QueueStep DEF Moves, Places, Waits, Holds
    <2> QED
      BY <1>1, <2>2 DEF ClaimFree
  <1>2. ASSUME NEW t \in Threads, NEW k \in Kinds, NEW d \in BOOLEAN,
                ClaimBusy(t, k, d) PROVE QueueCounted'
    <2>1. pc[t] \notin Waits /\ "asleep" \in Waits /\ Place(t, "asleep")
      BY <1>2 DEF ClaimBusy, Calls, Waits
    <2>2. Cardinality(Waiters') = Cardinality(Waiters) + 1
      BY <2>1, QueueStep DEF Moves, Places, Waits, Holds
    <2> QED
      BY <1>2, <2>2 DEF ClaimBusy, TypeOK
  <1>3. ASSUME NEW t \in Threads, ClaimNested(t) PROVE QueueCounted'
    <2>1. pc[t] \notin Waits /\ "leaving" \notin Waits /\ Place(t, "leaving")
      BY <1>3 DEF ClaimNested, Waits
    <2>2. Waiters' = Waiters
      BY <2>1, QueueStep DEF Moves, Places, Waits, Holds
    <2> QED
      BY <1>3, <2>2 DEF ClaimNested
  <1>4. ASSUME NEW t \in Threads, Expire(t) PROVE QueueCounted'
    <2>1. pc[t] \in Waits /\ "awake" \in Waits /\ Place(t, "awake")
      BY <1>4 DEF Expire, Waits
    <2>2. Waiters' = Waiters
      BY <2>1, QueueStep DEF Moves, Places, Waits, Holds
    <2> QED
      BY <1>4, <2>2 DEF Expire
  <1>5. ASSUME NEW t \in Threads, WakeFree(t) PROVE QueueCounted'
    <2>1. pc[t] \in Waits /\ "granted" \notin Waits /\ Place(t, "granted")
      BY <1>5 DEF WakeFree, TakeLane, Waits
    <2>2. Cardinality(Waiters') = Cardinality(Waiters) - 1
      BY <2>1, QueueStep DEF Moves, Places, Waits, Holds
    <2> QED
      BY <1>5, <2>2 DEF WakeFree, Dequeued, TypeOK
  <1>6. ASSUME NEW t \in Threads, WakeBusy(t) PROVE QueueCounted'
    <2>1. CASE expired[t]
      <3>1. pc[t] \in Waits /\ "idle" \notin Waits /\ Place(t, "idle")
        BY <1>6, <2>1 DEF WakeBusy, Waits
      <3>2. Cardinality(Waiters') = Cardinality(Waiters) - 1
        BY <3>1, QueueStep DEF Moves, Places, Waits, Holds
      <3> QED
        BY <1>6, <2>1, <3>2 DEF WakeBusy, Dequeued, TypeOK
    <2>2. CASE ~expired[t]
      <3>1. pc[t] \in Waits /\ "asleep" \in Waits /\ Place(t, "asleep")
        BY <1>6, <2>2 DEF WakeBusy, Waits
      <3>2. Waiters' = Waiters
        BY <3>1, QueueStep DEF Moves, Places, Waits, Holds
      <3> QED
        BY <1>6, <2>2, <3>2 DEF WakeBusy
    <2> QED
      BY <2>1, <2>2
  <1>7. ASSUME NEW t \in Threads, StartBody(t) PROVE QueueCounted'
    <2>1. PICK p \in {"running", "leaving"} : Place(t, p)
      BY <1>7 DEF StartBody
    <2>2. pc[t] \notin Waits /\ p \notin Waits /\ Place(t, p)
      BY <1>7, <2>1 DEF StartBody, Waits
    <2>3. Waiters' = Waiters
      BY <2>2, QueueStep DEF Moves, Places, Waits, Holds
    <2> QED
      BY <1>7, <2>3 DEF StartBody
  <1>8. ASSUME NEW t \in Threads, EndBody(t) PROVE QueueCounted'
    <2>1. pc[t] \notin Waits /\ "leaving" \notin Waits /\ Place(t, "leaving")
      BY <1>8 DEF EndBody, Waits
    <2>2. Waiters' = Waiters
      BY <2>1, QueueStep DEF Moves, Places, Waits, Holds
    <2> QED
      BY <1>8, <2>2 DEF EndBody
  <1>9. ASSUME NEW t \in Threads, Release(t) PROVE QueueCounted'
    <2>1. \A u \in Threads : pc'[u] \in Waits <=> pc[u] \in Waits
      BY <1>9 DEF Release, Notified, TypeOK, Waits
    <2>2. Waiters' = Waiters
      BY <2>1 DEF Waiters
    <2> QED
      BY <1>9, <2>2 DEF Release
  <1>10. CASE UNCHANGED vars
    BY <1>10 DEF vars, Waiters
  <1> QED
    BY <1>1, <1>2, <1>3, <1>4, <1>5, <1>6, <1>7, <1>8, <1>9, <1>10
    DEF Next, Proceed

(* Every admission adds to the account of its kind and every release        *)
(* settles the account of the kind that held the lane.                      *)
LEMMA KindsBalanceStep ==
  TypeOK /\ OneHolder /\ KindsBalance /\ [Next]_vars => KindsBalance'
  <1> SUFFICES ASSUME TypeOK, OneHolder, KindsBalance, [Next]_vars
               PROVE KindsBalance'
    OBVIOUS
  <1> USE HeavyAssumption DEF TypeOK, OneHolder, KindsBalance, Waits, Holds
  <1>1. ASSUME NEW t \in Threads, NEW k \in Kinds, ClaimFree(t, k) PROVE KindsBalance'
    BY <1>1 DEF ClaimFree, Calls, Nested, TakeLane, Deadline, Place
  <1>2. ASSUME NEW t \in Threads, NEW k \in Kinds, NEW d \in BOOLEAN,
                ClaimBusy(t, k, d) PROVE KindsBalance'
    BY <1>2 DEF ClaimBusy, Calls, Nested, Deadline, Place
  <1>3. ASSUME NEW t \in Threads, ClaimNested(t) PROVE KindsBalance'
    BY <1>3 DEF ClaimNested, Place, claimVars
  <1>4. ASSUME NEW t \in Threads, Expire(t) PROVE KindsBalance'
    BY <1>4 DEF Expire, Deadline, Place
  <1>5. ASSUME NEW t \in Threads, WakeFree(t) PROVE KindsBalance'
    BY <1>5 DEF WakeFree, TakeLane, Deadline, Place, Dequeued
  <1>6. ASSUME NEW t \in Threads, WakeBusy(t) PROVE KindsBalance'
    BY <1>6 DEF WakeBusy, Deadline, Place, Dequeued
  <1>7. ASSUME NEW t \in Threads, StartBody(t) PROVE KindsBalance'
    BY <1>7 DEF StartBody, Place, claimVars
  <1>8. ASSUME NEW t \in Threads, EndBody(t) PROVE KindsBalance'
    BY <1>8 DEF EndBody, Place, claimVars
  <1>9. ASSUME NEW t \in Threads, Release(t) PROVE KindsBalance'
    BY <1>9 DEF Release, Notified, claimVars
  <1>10. CASE UNCHANGED vars
    BY <1>10 DEF vars
  <1> QED
    BY <1>1, <1>2, <1>3, <1>4, <1>5, <1>6, <1>7, <1>8, <1>9, <1>10
    DEF Next, Proceed

-----------------------------------------------------------------------------
(* The four invariants of the lane, for every set of threads and kinds and  *)
(* every queue length.                                                      *)
THEOREM Invariance == Spec => []Inv
  <1>1. Inv /\ [Next]_vars => Inv'
    <2> SUFFICES ASSUME Inv, [Next]_vars PROVE Inv'
      OBVIOUS
    <2>1. TypeOK' /\ QueueCounted'
      BY TypeStep, QueueCountedStep DEF Inv, AccountsBalance
    <2>2. OneHolder
      BY HolderIsActive DEF Inv, TypeOK
    <2>3. OneHolder' /\ NoLostWakeup' /\ KindsBalance'
      BY <2>2, ExclusionStep, WakeupStep, KindsBalanceStep
      DEF Inv, AccountsBalance
    <2>4. LaneExclusion'
      BY <2>1, <2>3, HolderIsActiveNext DEF TypeOK
    <2> QED
      BY <2>1, <2>3, <2>4 DEF Inv, AccountsBalance
  <1> QED
    BY InitInv, <1>1, PTL DEF Spec

(* Every variable of the lane keeps its type.                               *)
THEOREM TypeCorrect == Spec => []TypeOK
  BY Invariance, PTL DEF Inv

(* At most one admitted heavy build at once, and it is the recorded one.    *)
THEOREM MutualExclusion == Spec => []LaneExclusion
  BY Invariance, PTL DEF Inv

(* No thread sleeps in the queue of a free lane.                            *)
THEOREM NoSleeperOnFreeLane == Spec => []NoLostWakeup
  BY Invariance, PTL DEF Inv

(* The waiting count and the accounts of each kind are exact.               *)
THEOREM ExactAccounts == Spec => []AccountsBalance
  BY Invariance, PTL DEF Inv
=============================================================================
