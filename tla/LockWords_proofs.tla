-------------------------- MODULE LockWords_proofs --------------------------
(***************************************************************************)
(* The mutex words exclude each other and forget no sleeper, for any number *)
(* of threads, mutexes and conditions.  IInv is inductive as it stands;    *)
(* NoLostWakeup is preserved by a step from a state that satisfies both.   *)
(***************************************************************************)
EXTENDS LockWords, TLAPS

(* Words that LT_MutexWord_init and LT_CondWord_init have set up satisfy   *)
(* the invariant.                                                          *)
LEMMA InitIInv == Init => IInv
BY LockWordsAssumption
DEF Init, IInv, TypeOK, WordInv, MutualExclusion, QueueInv, CallInv, SeenInv,
    InCondSection, InLockSlow, InWait, Labels, UNLOCKED, LOCKED, CONTENDED

(* Every step of lock.h and lock.c keeps the invariant, one case per       *)
(* action.                                                                 *)
LEMMA StepIInv == IInv /\ [Next]_vars => IInv'
<1> SUFFICES ASSUME IInv, [Next]_vars PROVE IInv'
  OBVIOUS
<1> USE LockWordsAssumption DEF IInv, TypeOK, InLockSlow, InWait, Labels, UNLOCKED, LOCKED, CONTENDED
<1>1. ASSUME NEW t \in Threads, NEW m \in Mutexes, Lock(t, m) PROVE IInv'
  <2>1. TypeOK'
    BY <1>1 DEF Lock, CompareAndLock, GoSlow
  <2>2. WordInv' /\ MutualExclusion'
    BY <1>1 DEF Lock, CompareAndLock, GoSlow, WordInv, MutualExclusion
  <2>3. QueueInv' /\ CallInv' /\ SeenInv'
    BY <1>1 DEF Lock, CompareAndLock, GoSlow, QueueInv, CallInv, SeenInv, InCondSection
  <2> QED
    BY <2>1, <2>2, <2>3
<1>2. ASSUME NEW t \in Threads, SlowEnter(t) PROVE IInv'
  <2>1. TypeOK' /\ WordInv' /\ MutualExclusion'
    BY <1>2 DEF SlowEnter, WordInv, MutualExclusion
  <2>2. QueueInv' /\ CallInv'
    BY <1>2 DEF SlowEnter, QueueInv, CallInv, InCondSection
  <2>3. SeenInv'
    BY <1>2 DEF SlowEnter, CallInv, SeenInv, InCondSection
  <2> QED
    BY <2>1, <2>2, <2>3
<1>3. ASSUME NEW t \in Threads, SlowTry(t) PROVE IInv'
  BY <1>3 DEF SlowTry, WordInv, MutualExclusion, QueueInv, CallInv, SeenInv, InCondSection
<1>4. ASSUME NEW t \in Threads, SlowLeave(t) PROVE IInv'
  BY <1>4 DEF SlowLeave, WordInv, MutualExclusion, QueueInv, CallInv, SeenInv, InCondSection
<1>5. ASSUME NEW t \in Threads, Unlock(t) PROVE IInv'
  <2>1. TypeOK' /\ WordInv' /\ MutualExclusion'
    BY <1>5 DEF Unlock, Exchange, WordInv, MutualExclusion
  <2>2. QueueInv' /\ CallInv'
    BY <1>5 DEF Unlock, Exchange, QueueInv, CallInv, InCondSection
  <2>3. SeenInv'
    BY <1>5 DEF Unlock, Exchange, CallInv, SeenInv, InCondSection
  <2> QED
    BY <2>1, <2>2, <2>3
<1>6. ASSUME NEW t \in Threads, Wake(t) PROVE IInv'
  <2>1. TypeOK' /\ WordInv' /\ MutualExclusion'
    BY <1>6 DEF Wake, ParkedOn, WordInv, MutualExclusion
  <2>2. QueueInv' /\ CallInv'
    BY <1>6 DEF Wake, ParkedOn, QueueInv, CallInv, InCondSection
  <2>3. SeenInv'
    BY <1>6 DEF Wake, ParkedOn, CallInv, SeenInv, InCondSection
  <2> QED
    BY <2>1, <2>2, <2>3
<1>7. ASSUME NEW t \in Threads, NEW c \in Conds, WaitEnter(t, c) PROVE IInv'
  BY <1>7 DEF WaitEnter, WordInv, MutualExclusion, QueueInv, CallInv, SeenInv, InCondSection
<1>8. ASSUME NEW t \in Threads, WaitUnlock(t) PROVE IInv'
  BY <1>8 DEF WaitUnlock, Exchange, WordInv, MutualExclusion, QueueInv, CallInv, SeenInv, InCondSection
<1>9. ASSUME NEW t \in Threads, WaitCheck(t) PROVE IInv'
  BY <1>9 DEF WaitCheck, SleepOrLeave, WordInv, MutualExclusion, QueueInv, CallInv, SeenInv, InCondSection
<1>10. ASSUME NEW t \in Threads, WaitReenter(t) PROVE IInv'
  BY <1>10 DEF WaitReenter, SleepOrLeave, WordInv, MutualExclusion, QueueInv, CallInv, SeenInv, InCondSection
<1>11. ASSUME NEW t \in Threads, Relock(t) PROVE IInv'
  <2>0. pc[t] = "relock" /\ arg[t] \in Mutexes
    BY <1>11 DEF Relock, CallInv
  <2>1. TypeOK'
    BY <1>11, <2>0 DEF Relock, CompareAndLock, GoSlow
  <2>4. WordInv'
    <3>1. CASE CompareAndLock(t, arg[t])
      <4>1. \A u \in Threads : held'[u] = IF u = t THEN arg[t] ELSE held[u]
        BY <3>1 DEF CompareAndLock
      <4>2. \A m \in Mutexes : word'[m] = IF m = arg[t] THEN LOCKED ELSE word[m]
        BY <3>1, <2>0 DEF CompareAndLock
      <4>3. \A u \in Threads : held[u] # arg[t]
        BY <3>1, <2>0 DEF CompareAndLock, WordInv
      <4>4. held[t] \notin Mutexes
        BY <2>0 DEF CallInv
      <4> QED
        BY <4>1, <4>2, <4>3, <4>4 DEF WordInv
    <3>2. CASE GoSlow(t, arg[t])
      BY <3>2 DEF GoSlow, WordInv
    <3> QED
      BY <3>1, <3>2, <1>11 DEF Relock
  <2>5. MutualExclusion'
    BY <1>11, <2>0 DEF Relock, CompareAndLock, GoSlow, WordInv, MutualExclusion
  <2>2. QueueInv' /\ CallInv'
    BY <1>11 DEF Relock, CompareAndLock, GoSlow, QueueInv, CallInv, InCondSection
  <2>3. SeenInv'
    BY <1>11 DEF Relock, CompareAndLock, GoSlow, CallInv, SeenInv, InCondSection
  <2> QED
    BY <2>1, <2>2, <2>3, <2>4, <2>5
<1>12. ASSUME NEW t \in Threads, NEW c \in Conds, Signal(t, c) PROVE IInv'
  BY <1>12 DEF Signal, WaitersOn, WordInv, MutualExclusion, QueueInv, CallInv, SeenInv, InCondSection
<1>13. ASSUME NEW t \in Threads, NEW c \in Conds, Broadcast(t, c) PROVE IInv'
  BY <1>13 DEF Broadcast, WaitersOn, WordInv, MutualExclusion, QueueInv, CallInv, SeenInv, InCondSection
<1>14. ASSUME NEW t \in Threads, SpuriousWakeup(t) PROVE IInv'
  BY <1>14 DEF SpuriousWakeup, WordInv, MutualExclusion, QueueInv, CallInv, SeenInv, InCondSection
<1>15. ASSUME NEW q \in Queues, RWSleep(q) PROVE IInv'
  BY <1>15 DEF RWSleep, WordInv, MutualExclusion, QueueInv, CallInv, SeenInv, InCondSection
<1>16. ASSUME NEW q \in Queues, RWWake(q) PROVE IInv'
  BY <1>16 DEF RWWake, ParkedOn, WordInv, MutualExclusion, QueueInv, CallInv, SeenInv, InCondSection
<1>17. CASE UNCHANGED vars
  BY <1>17 DEF vars, WordInv, MutualExclusion, QueueInv, CallInv, SeenInv, InCondSection
<1> QED
  BY <1>1, <1>2, <1>3, <1>4, <1>5, <1>6, <1>7, <1>8, <1>9, <1>10, <1>11, <1>12, <1>13, <1>14,
     <1>15, <1>16, <1>17 DEF Next, Continue

(* The inductive invariant of the words holds in every run: the words      *)
(* tell whether the mutexes are free, and the queue mutexes are owned by   *)
(* the threads inside their sections.                                      *)
THEOREM TypeCorrectness == Spec => []IInv
BY InitIInv, StepIInv, PTL DEF Spec

(* Mutual exclusion, for any number of threads and words and any way the   *)
(* words share wait queues.                                                *)
THEOREM MutexExcludes == Spec => []MutualExclusion
<1>1. IInv => MutualExclusion
  BY DEF IInv
<1> QED
  BY <1>1, TypeCorrectness, PTL

-----------------------------------------------------------------------------
(* Nobody sleeps in the beginning.                                         *)
LEMMA InitNoLostWakeup == Init => NoLostWakeup
BY DEF Init, NoLostWakeup

(* A step keeps somebody coming to the queue of every sleeper.  A signal   *)
(* wakes a sleeper of the queue, who will take or mark its own mutex, or a *)
(* sleeper of a read-write word, who sleeps on: then that word's owner     *)
(* wakes the queue.                                                        *)
LEMMA StepNoLostWakeup ==
  IInv /\ NoLostWakeup /\ [Next]_vars => NoLostWakeup'
<1> SUFFICES ASSUME IInv, NoLostWakeup, [Next]_vars
             PROVE  NoLostWakeup'
  OBVIOUS
<1> USE LockWordsAssumption
    DEF IInv, TypeOK, InLockSlow, InWait, Labels, UNLOCKED, LOCKED, CONTENDED,
        NoLostWakeup, SomeoneComes, MutexesOf, Waker
<1>1. ASSUME NEW t \in Threads, NEW m \in Mutexes, Lock(t, m) PROVE NoLostWakeup'
  BY <1>1 DEF Lock, CompareAndLock, GoSlow, CallInv
<1>2. ASSUME NEW t \in Threads, SlowEnter(t) PROVE NoLostWakeup'
  BY <1>2 DEF SlowEnter
<1>3. ASSUME NEW t \in Threads, SlowTry(t) PROVE NoLostWakeup'
  BY <1>3 DEF SlowTry, CallInv
<1>4. ASSUME NEW t \in Threads, SlowLeave(t) PROVE NoLostWakeup'
  BY <1>4 DEF SlowLeave
<1>5. ASSUME NEW t \in Threads, Unlock(t) PROVE NoLostWakeup'
  BY <1>5 DEF Unlock, Exchange
<1>6. ASSUME NEW t \in Threads, Wake(t) PROVE NoLostWakeup'
  BY <1>6 DEF Wake, ParkedOn, QueueInv, CallInv
<1>7. ASSUME NEW t \in Threads, NEW c \in Conds, WaitEnter(t, c) PROVE NoLostWakeup'
  BY <1>7 DEF WaitEnter
<1>8. ASSUME NEW t \in Threads, WaitUnlock(t) PROVE NoLostWakeup'
  BY <1>8 DEF WaitUnlock, Exchange
<1>9. ASSUME NEW t \in Threads, WaitCheck(t) PROVE NoLostWakeup'
  BY <1>9 DEF WaitCheck, SleepOrLeave
<1>10. ASSUME NEW t \in Threads, WaitReenter(t) PROVE NoLostWakeup'
  BY <1>10 DEF WaitReenter, SleepOrLeave
<1>11. ASSUME NEW t \in Threads, Relock(t) PROVE NoLostWakeup'
  BY <1>11 DEF Relock, CompareAndLock, GoSlow, CallInv
<1>12. ASSUME NEW t \in Threads, NEW c \in Conds, Signal(t, c) PROVE NoLostWakeup'
  BY <1>12 DEF Signal, WaitersOn
<1>13. ASSUME NEW t \in Threads, NEW c \in Conds, Broadcast(t, c) PROVE NoLostWakeup'
  BY <1>13 DEF Broadcast, WaitersOn
<1>14. ASSUME NEW t \in Threads, SpuriousWakeup(t) PROVE NoLostWakeup'
  BY <1>14 DEF SpuriousWakeup
<1>15. ASSUME NEW q \in Queues, RWSleep(q) PROVE NoLostWakeup'
  BY <1>15 DEF RWSleep
<1>16. ASSUME NEW q \in Queues, RWWake(q) PROVE NoLostWakeup'
  BY <1>16 DEF RWWake, ParkedOn, QueueInv, CallInv
<1>17. CASE UNCHANGED vars
  BY <1>17 DEF vars
<1> QED
  BY <1>1, <1>2, <1>3, <1>4, <1>5, <1>6, <1>7, <1>8, <1>9, <1>10, <1>11,
     <1>12, <1>13, <1>14, <1>15, <1>16, <1>17
  DEF Next, Continue

(* No sleeper of LT_MutexWord_lock_slow is forgotten, for any number of    *)
(* threads and mutex words and however they and the read-write words share *)
(* the wait queues: somebody comes to its queue.                           *)
THEOREM NoSleeperForgotten == Spec => []NoLostWakeup
BY StepNoLostWakeup, InitNoLostWakeup, TypeCorrectness, PTL DEF Spec

(* What that says of a mutex on a queue of its own, no read-write word     *)
(* asleep on it: its own word is marked, or a thread is about to take it,  *)
(* mark it or wake one of its sleepers.                                    *)
COROLLARY LoneMutexNotForgotten ==
  ASSUME NoLostWakeup, TypeOK, LockWordsAssumption,
         NEW t \in Threads, pc[t] \in {"slow_park", "parked"},
         MutexesOf(MutexQueue[arg[t]]) = {arg[t]}, ~rwAsleep[MutexQueue[arg[t]]]
  PROVE  word[arg[t]] = CONTENDED \/ \E u \in Threads : Waker(u, arg[t])
BY DEF NoLostWakeup, SomeoneComes

-----------------------------------------------------------------------------
(* The words implement Monitor when no two condition words share a wait    *)
(* queue: every step of LockWords is a step of Monitor, or leaves the      *)
(* monitor's state as it is.                                               *)

(* No two condition words hash to the same wait queue.                     *)
CondQueuesPrivate ==
  \A c, d \in Conds : CondQueue[c] = CondQueue[d] => c = d

(* The state of the monitor a state of the words stands for. *)
OwnerBar == [m \in Mutexes |-> OwnerOf(m)]
WaitBar == [c \in Conds |-> {t \in Threads : AsleepOn(t, c)}]

(* A step that locks and unlocks nothing keeps the owners.                 *)
LEMMA OwnerStays == ASSUME held' = held PROVE OwnerBar' = OwnerBar
BY DEF OwnerBar, OwnerOf

(* A thread that gets a free mutex becomes its owner in the monitor. *)
LEMMA OwnerGained ==
  ASSUME IInv, NEW t \in Threads, NEW m \in Mutexes,
         word[m] = UNLOCKED, held[t] = NoMutex,
         held' = [held EXCEPT ![t] = m]
  PROVE  /\ OwnerBar[m] = NoThread
         /\ OwnerBar' = [OwnerBar EXCEPT ![m] = t]
<1> USE LockWordsAssumption DEF IInv, TypeOK
<1>1. OwnerOf(m) = NoThread
  BY DEF OwnerOf, WordInv
<1>2. OwnerOf(m)' = t
  <2>1. \A u \in Threads : held'[u] = m <=> u = t
    BY DEF WordInv
  <2> QED
    BY <2>1 DEF OwnerOf
<1>3. ASSUME NEW n \in Mutexes, n # m PROVE OwnerOf(n)' = OwnerOf(n)
  <2>1. \A u \in Threads : held'[u] = n <=> held[u] = n
    BY <1>3
  <2> QED
    BY <2>1 DEF OwnerOf
<1> QED
  BY <1>1, <1>2, <1>3 DEF OwnerBar

(* A thread that unlocks is the owner, and leaves none. *)
LEMMA OwnerLost ==
  ASSUME IInv, NEW t \in Threads, NEW m \in Mutexes,
         held[t] = m, held' = [held EXCEPT ![t] = NoMutex]
  PROVE  /\ OwnerBar[m] = t
         /\ OwnerBar' = [OwnerBar EXCEPT ![m] = NoThread]
<1> USE LockWordsAssumption DEF IInv, TypeOK
<1>1. OwnerOf(m) = t
  <2>1. \A u \in Threads : held[u] = m <=> u = t
    BY DEF MutualExclusion
  <2> QED
    BY <2>1 DEF OwnerOf
<1>2. OwnerOf(m)' = NoThread
  <2>1. \A u \in Threads : held'[u] # m
    BY DEF MutualExclusion
  <2> QED
    BY <2>1 DEF OwnerOf
<1>3. ASSUME NEW n \in Mutexes, n # m PROVE OwnerOf(n)' = OwnerOf(n)
  <2>1. \A u \in Threads : held'[u] = n <=> held[u] = n
    BY <1>3
  <2> QED
    BY <2>1 DEF OwnerOf
<1> QED
  BY <1>1, <1>2, <1>3 DEF OwnerBar

(* A step that changes nobody's sleep changes no wait set. *)
LEMMA WaitStays ==
  ASSUME \A t \in Threads, c \in Conds : AsleepOn(t, c)' <=> AsleepOn(t, c)
  PROVE  WaitBar' = WaitBar
BY DEF WaitBar

(* A step that changes the sleepers of one condition changes its wait set. *)
LEMMA WaitMoves ==
  ASSUME NEW c \in Conds, NEW S \in SUBSET Threads,
         \A t \in Threads : AsleepOn(t, c)' <=> t \in S,
         \A t \in Threads, d \in Conds :
           d # c => (AsleepOn(t, d)' <=> AsleepOn(t, d))
  PROVE  WaitBar' = [WaitBar EXCEPT ![c] = S]
BY DEF WaitBar

(* Membership in the wait set of a condition.                              *)
LEMMA WaitBarDomain ==
  \A t \in Threads, c \in Conds : t \in WaitBar[c] <=> AsleepOn(t, c)
BY DEF WaitBar

(* A wait set consists of threads.                                         *)
LEMMA WaitBarType == \A c \in Conds : WaitBar[c] \in SUBSET Threads
BY DEF WaitBar

-----------------------------------------------------------------------------
(* The initial words are an initial monitor.                               *)
LEMMA InitRefines == Init => M!MonitorInit
<1> SUFFICES ASSUME Init PROVE M!MonitorInit
  OBVIOUS
<1>1. \A m \in Mutexes : OwnerOf(m) = NoThread
  BY LockWordsAssumption DEF Init, OwnerOf
<1>2. \A t \in Threads, c \in Conds : ~AsleepOn(t, c)
  BY LockWordsAssumption DEF Init, AsleepOn
<1> QED
  BY <1>1, <1>2 DEF M!MonitorInit

(* The steps of the monitor, in terms of its state alone. *)
LEMMA MonitorStutters ==
  ASSUME OwnerBar' = OwnerBar, WaitBar' = WaitBar
  PROVE  [M!MonitorNext]_(M!mvars)
BY DEF OwnerBar, WaitBar, M!mvars

(* A free mutex gets an owner: LT_MutexWord_lock has returned.             *)
LEMMA MonitorAcquires ==
  ASSUME NEW t \in Threads, NEW m \in Mutexes,
         OwnerBar[m] = NoThread, OwnerBar' = [OwnerBar EXCEPT ![m] = t],
         WaitBar' = WaitBar
  PROVE  [M!MonitorNext]_(M!mvars)
<1>1. M!Acquire(t, m)
  BY DEF M!Acquire, OwnerBar, WaitBar
<1> QED
  BY <1>1 DEF M!MonitorNext

(* An owner gives its mutex up: LT_MutexWord_unlock.                       *)
LEMMA MonitorReleases ==
  ASSUME NEW t \in Threads, NEW m \in Mutexes,
         OwnerBar[m] = t, OwnerBar' = [OwnerBar EXCEPT ![m] = NoThread],
         WaitBar' = WaitBar
  PROVE  [M!MonitorNext]_(M!mvars)
<1>1. M!Release(t, m)
  BY DEF M!Release, OwnerBar, WaitBar
<1> QED
  BY <1>1 DEF M!MonitorNext

(* An owner gives its mutex up and goes to sleep: LT_CondWord_wait.        *)
LEMMA MonitorWaits ==
  ASSUME NEW t \in Threads, NEW m \in Mutexes, NEW c \in Conds,
         OwnerBar[m] = t, OwnerBar' = [OwnerBar EXCEPT ![m] = NoThread],
         WaitBar' = [WaitBar EXCEPT ![c] = WaitBar[c] \cup {t}]
  PROVE  [M!MonitorNext]_(M!mvars)
<1>1. M!Wait(t, c, m)
  BY DEF M!Wait, OwnerBar, WaitBar
<1> QED
  BY <1>1 DEF M!MonitorNext

(* Some sleepers of a condition are taken out, one at least if there are   *)
(* any: LT_CondWord_signal.                                                *)
LEMMA MonitorNotifies ==
  ASSUME NEW c \in Conds, NEW S \in SUBSET WaitBar[c],
         WaitBar[c] # {} => S # {},
         WaitBar' = [WaitBar EXCEPT ![c] = WaitBar[c] \ S],
         OwnerBar' = OwnerBar
  PROVE  [M!MonitorNext]_(M!mvars)
<1>1. M!Notify(c)
  BY DEF M!Notify, OwnerBar, WaitBar
<1> QED
  BY <1>1 DEF M!MonitorNext

(* All sleepers of a condition are taken out: LT_CondWord_broadcast.       *)
LEMMA MonitorNotifiesAll ==
  ASSUME NEW c \in Conds, WaitBar' = [WaitBar EXCEPT ![c] = {}],
         OwnerBar' = OwnerBar
  PROVE  [M!MonitorNext]_(M!mvars)
<1>1. M!NotifyAll(c)
  BY DEF M!NotifyAll, OwnerBar, WaitBar
<1> QED
  BY <1>1 DEF M!MonitorNext

(* One sleeper returns by itself from pthread_cond_wait.                   *)
LEMMA MonitorWakes ==
  ASSUME NEW t \in Threads, NEW c \in Conds, t \in WaitBar[c],
         WaitBar' = [WaitBar EXCEPT ![c] = WaitBar[c] \ {t}],
         OwnerBar' = OwnerBar
  PROVE  [M!MonitorNext]_(M!mvars)
<1>1. M!Spurious(t, c)
  BY DEF M!Spurious, OwnerBar, WaitBar
<1> QED
  BY <1>1 DEF M!MonitorNext

-----------------------------------------------------------------------------
(* A waiter read its sequence number no later than now. *)
LEMMA SeenBound ==
  ASSUME IInv, NEW u \in Threads, NEW d \in Conds, cv[u] = d
  PROVE  /\ seen[u] \in Nat /\ seq[d] \in Nat /\ seen[u] <= seq[d]
         /\ InCondSection(u) => seen[u] = seq[d]
<1>1. cv[u] # NoCond
  BY LockWordsAssumption
<1>2. seen[u] \in 0..MaxSignals /\ seq[d] \in 0..MaxSignals
  BY DEF IInv, TypeOK
<1>3. seen[u] <= seq[cv[u]] /\ (InCondSection(u) => seen[u] = seq[cv[u]])
  BY <1>1 DEF IInv, SeenInv
<1> QED
  BY <1>2, <1>3, LockWordsAssumption

(* What a signal does to the sleepers of the conditions. *)
LEMMA SignalTakesSleeper ==
  ASSUME CondQueuesPrivate, IInv, NEW t \in Threads, NEW c \in Conds, Signal(t, c)
  PROVE  /\ \A u \in Threads, d \in Conds : AsleepOn(u, d)' => AsleepOn(u, d)
         /\ \A u \in Threads, d \in Conds :
              d # c /\ AsleepOn(u, d) => AsleepOn(u, d)'
         /\ (\E u \in Threads : AsleepOn(u, c)) =>
              \E u \in Threads : AsleepOn(u, c) /\ ~AsleepOn(u, c)'
<1> USE LockWordsAssumption
    DEF IInv, TypeOK, InLockSlow, InWait, Labels, AsleepOn, Signal, WaitersOn
<1>1. ASSUME NEW u \in Threads, NEW d \in Conds, AsleepOn(u, d)'
      PROVE  AsleepOn(u, d)
  <2>a. cv[u] = d
    BY <1>1
  <2>1. seen[u] \in Nat /\ seq[d] \in Nat /\ seen[u] <= seq[d]
    <3> HIDE DEF IInv
    <3> QED
      BY <2>a, SeenBound
  <2>2. seq'[d] = IF d = c THEN seq[d] + 1 ELSE seq[d]
    OBVIOUS
  <2>3. pc'[u] = pc[u] \/ pc[u] = "wait_parked"
    OBVIOUS
  <2> QED
    BY <1>1, <2>a, <2>1, <2>2, <2>3
<1>2. ASSUME NEW u \in Threads, NEW d \in Conds, d # c, AsleepOn(u, d)
      PROVE  AsleepOn(u, d)'
  BY <1>2 DEF CondQueuesPrivate
<1>3. ASSUME NEW u \in Threads, AsleepOn(u, c)
      PROVE  \E v \in Threads : AsleepOn(v, c) /\ ~AsleepOn(v, c)'
  <2>1. pc[u] \in {"wait_parked", "wait_reenter"}
    BY <1>3 DEF QueueInv, InCondSection
  <2>2. CASE pc[u] = "wait_reenter"
    BY <1>3, <2>2
  <2>3. CASE pc[u] = "wait_parked"
    <3>1. PICK v \in WaitersOn(CondQueue[c]) : pc' = [pc EXCEPT ![v] = "wait_reenter"]
      BY <1>3, <2>3
    <3>2. cv[v] # NoCond
      BY <3>1 DEF CallInv, InCondSection
    <3>a. cv[v] = c
      BY <3>1, <3>2 DEF CondQueuesPrivate
    <3>3. seen[v] <= seq[c] /\ seen[v] \in Nat /\ seq[c] \in Nat
      <4> HIDE DEF IInv
      <4> QED
        BY <3>1, <3>a, SeenBound
    <3>4. pc[v] = "wait_parked" /\ pc'[v] = "wait_reenter" /\ seq'[c] = seq[c] + 1
      BY <3>1
    <3> QED
      BY <3>1, <3>a, <3>3, <3>4
  <2> QED
    BY <2>1, <2>2, <2>3
<1> QED
  BY <1>1, <1>2, <1>3

(* ... and a broadcast. *)
LEMMA BroadcastTakesSleepers ==
  ASSUME CondQueuesPrivate, IInv, NEW t \in Threads, NEW c \in Conds,
         Broadcast(t, c)
  PROVE  \A u \in Threads, d \in Conds :
           AsleepOn(u, d)' <=> AsleepOn(u, d) /\ d # c
<1> USE LockWordsAssumption
    DEF IInv, TypeOK, InLockSlow, InWait, Labels, AsleepOn, Broadcast, WaitersOn
<1> SUFFICES ASSUME NEW u \in Threads, NEW d \in Conds
             PROVE  AsleepOn(u, d)' <=> AsleepOn(u, d) /\ d # c
  OBVIOUS
<1>1. CASE cv[u] # d
  BY <1>1
<1>2. CASE cv[u] = d
  <2>1. seen[u] \in Nat /\ seq[d] \in Nat /\ seen[u] <= seq[d]
    <3> HIDE DEF IInv
    <3> QED
      BY <1>2, SeenBound
  <2>2. CASE d = c
    <3>1. pc[u] \notin {"wake", "wait_check"}
      BY <1>2, <2>2 DEF QueueInv, InCondSection
    <3>2. seq'[d] = seq[d] + 1
      BY <2>2
    <3> QED
      BY <1>2, <2>1, <2>2, <3>1, <3>2
  <2>3. CASE d # c
    BY <1>2, <2>3 DEF CondQueuesPrivate
  <2> QED
    BY <2>2, <2>3
<1> QED
  BY <1>1, <1>2

(* A mutex is taken by its inline fast path, first or on return of a wait. *)
LEMMA LockRefines ==
  ASSUME IInv, NEW t \in Threads, NEW m \in Mutexes,
         pc[t] \in {"run", "relock"}, held[t] = NoMutex,
         CompareAndLock(t, m) \/ GoSlow(t, m)
  PROVE  [M!MonitorNext]_(M!mvars)
<1> USE LockWordsAssumption DEF IInv, TypeOK
<1>1. \A u \in Threads, c \in Conds : AsleepOn(u, c)' <=> AsleepOn(u, c)
  BY DEF CompareAndLock, GoSlow, AsleepOn, CallInv, InCondSection, InWait
<1>2. WaitBar' = WaitBar
  BY <1>1, WaitStays
<1>3. CASE CompareAndLock(t, m)
  BY <1>2, <1>3, OwnerGained, MonitorAcquires DEF CompareAndLock
<1>4. CASE GoSlow(t, m)
  BY <1>2, <1>4, OwnerStays, MonitorStutters DEF GoSlow
<1> QED
  BY <1>3, <1>4

(* Every step of the words is a step of the monitor or leaves it alone.    *)
LEMMA StepRefines ==
  CondQueuesPrivate /\ IInv /\ [Next]_vars => [M!MonitorNext]_(M!mvars)
<1> SUFFICES ASSUME CondQueuesPrivate, IInv, [Next]_vars
             PROVE  [M!MonitorNext]_(M!mvars)
  OBVIOUS
<1> DEFINE Goal == [M!MonitorNext]_(M!mvars)
           Awake == \A t \in Threads, c \in Conds : AsleepOn(t, c)' <=> AsleepOn(t, c)
<1>a. held' = held /\ Awake => Goal
  BY OwnerStays, WaitStays, MonitorStutters
<1> HIDE DEF Goal
<1> USE LockWordsAssumption
    DEF IInv, TypeOK, InLockSlow, InWait, Labels, AsleepOn, CallInv, InCondSection
<1>1. ASSUME NEW t \in Threads, NEW m \in Mutexes, Lock(t, m) PROVE Goal
  BY <1>1, LockRefines DEF Lock, Goal
<1>2. ASSUME NEW t \in Threads, SlowEnter(t) PROVE Goal
  BY <1>2, <1>a DEF SlowEnter
<1>3. ASSUME NEW t \in Threads, SlowTry(t) PROVE Goal
  <2>1. arg[t] \in Mutexes /\ held[t] = NoMutex
    BY <1>3 DEF SlowTry
  <2>2. Awake
    BY <1>3 DEF SlowTry
  <2>3. CASE word[arg[t]] = UNLOCKED
    BY <1>3, <2>1, <2>2, <2>3, WaitStays, OwnerGained, MonitorAcquires DEF SlowTry, Goal
  <2>4. CASE word[arg[t]] # UNLOCKED
    BY <1>a, <1>3, <2>2, <2>4 DEF SlowTry
  <2> QED
    BY <2>3, <2>4
<1>4. ASSUME NEW t \in Threads, SlowLeave(t) PROVE Goal
  BY <1>4, <1>a DEF SlowLeave
<1>5. ASSUME NEW t \in Threads, Unlock(t) PROVE Goal
  <2>1. held[t] \in Mutexes
    BY <1>5 DEF Unlock
  <2>2. Awake
    BY <1>5 DEF Unlock, Exchange
  <2>3. held' = [held EXCEPT ![t] = NoMutex]
    BY <1>5 DEF Unlock, Exchange
  <2> HIDE DEF AsleepOn, IInv
  <2>4. WaitBar' = WaitBar
    BY <2>2, WaitStays
  <2> QED
    BY <2>1, <2>3, <2>4, OwnerLost, MonitorReleases DEF Goal
<1>6. ASSUME NEW t \in Threads, Wake(t) PROVE Goal
  BY <1>6, <1>a DEF Wake, ParkedOn
<1>7. ASSUME NEW t \in Threads, NEW c \in Conds, WaitEnter(t, c) PROVE Goal
  BY <1>7, <1>a DEF WaitEnter
<1>8. ASSUME NEW t \in Threads, WaitUnlock(t) PROVE Goal
  <2>1. cv[t] \in Conds /\ held[t] \in Mutexes
    BY <1>8 DEF WaitUnlock
  <2>2. \A u \in Threads, c \in Conds :
          AsleepOn(u, c)' <=> AsleepOn(u, c) \/ (u = t /\ c = cv[t])
    BY <1>8 DEF WaitUnlock, Exchange
  <2>3. held' = [held EXCEPT ![t] = NoMutex]
    BY <1>8 DEF WaitUnlock, Exchange
  <2> HIDE DEF AsleepOn, IInv
  <2>4. WaitBar' = [WaitBar EXCEPT ![cv[t]] = WaitBar[cv[t]] \cup {t}]
    BY <2>1, <2>2, WaitMoves, WaitBarDomain, WaitBarType
  <2> QED
    BY <2>1, <2>3, <2>4, OwnerLost, MonitorWaits DEF Goal
<1>9. ASSUME NEW t \in Threads, WaitCheck(t) PROVE Goal
  <2>1. cv[t] \in Conds /\ InCondSection(t)
    BY <1>9 DEF WaitCheck
  <2>2. seen[t] = seq[cv[t]]
    <3> HIDE DEF IInv
    <3> QED
      BY <2>1, SeenBound
  <2>3. pc' = [pc EXCEPT ![t] = "wait_parked"] /\ cv' = cv
    BY <1>9, <2>2 DEF WaitCheck, SleepOrLeave
  <2> QED
    BY <1>9, <1>a, <2>3 DEF WaitCheck
<1>10. ASSUME NEW t \in Threads, WaitReenter(t) PROVE Goal
  BY <1>10, <1>a DEF WaitReenter, SleepOrLeave
<1>11. ASSUME NEW t \in Threads, Relock(t) PROVE Goal
  <2>1. arg[t] \in Mutexes /\ held[t] = NoMutex
    BY <1>11 DEF Relock
  <2> QED
    BY <1>11, <2>1, LockRefines DEF Relock, Goal
<1>12. ASSUME NEW t \in Threads, NEW c \in Conds, Signal(t, c) PROVE Goal
  <2> DEFINE Left == {u \in Threads : AsleepOn(u, c) /\ ~AsleepOn(u, c)'}
  <2>1. held' = held
    BY <1>12 DEF Signal
  <2> HIDE DEF AsleepOn, IInv
  <2>2. WaitBar' = [WaitBar EXCEPT ![c] = WaitBar[c] \ Left]
    BY <1>12, SignalTakesSleeper, WaitMoves, WaitBarDomain, WaitBarType
  <2>3. Left \in SUBSET WaitBar[c] /\ (WaitBar[c] # {} => Left # {})
    BY <1>12, SignalTakesSleeper, WaitBarDomain, WaitBarType
  <2> HIDE DEF Left
  <2> QED
    BY <2>1, <2>2, <2>3, OwnerStays, MonitorNotifies DEF Goal
<1>13. ASSUME NEW t \in Threads, NEW c \in Conds, Broadcast(t, c) PROVE Goal
  <2>1. held' = held
    BY <1>13 DEF Broadcast
  <2> HIDE DEF AsleepOn, IInv
  <2>2. WaitBar' = [WaitBar EXCEPT ![c] = {}]
    BY <1>13, BroadcastTakesSleepers, WaitMoves
  <2> QED
    BY <2>1, <2>2, OwnerStays, MonitorNotifiesAll DEF Goal
<1>14. ASSUME NEW t \in Threads, SpuriousWakeup(t) PROVE Goal
  <2>1. CASE pc[t] = "wait_parked" /\ seen[t] # seq[cv[t]]
    <3>1. cv[t] \in Conds /\ AsleepOn(t, cv[t]) /\ held' = held
      BY <1>14, <2>1 DEF SpuriousWakeup
    <3>2. \A u \in Threads, c \in Conds :
            AsleepOn(u, c)' <=> AsleepOn(u, c) /\ ~(u = t /\ c = cv[t])
      BY <1>14, <2>1 DEF SpuriousWakeup
    <3> HIDE DEF AsleepOn, IInv
    <3>3. WaitBar' = [WaitBar EXCEPT ![cv[t]] = WaitBar[cv[t]] \ {t}]
      BY <3>1, <3>2, WaitMoves, WaitBarDomain, WaitBarType
    <3>4. t \in WaitBar[cv[t]]
      BY <3>1, WaitBarDomain
    <3> QED
      BY <3>1, <3>3, <3>4, OwnerStays, MonitorWakes DEF Goal
  <2>2. CASE ~(pc[t] = "wait_parked" /\ seen[t] # seq[cv[t]])
    BY <1>14, <2>2, <1>a DEF SpuriousWakeup
  <2> QED
    BY <2>1, <2>2
<1>rs. ASSUME NEW q \in Queues, RWSleep(q) PROVE Goal
  BY <1>rs, <1>a DEF RWSleep
<1>rw. ASSUME NEW q \in Queues, RWWake(q) PROVE Goal
  BY <1>rw, <1>a DEF RWWake, ParkedOn
<1>15. ASSUME UNCHANGED vars PROVE Goal
  <2>1. held' = held /\ pc' = pc /\ cv' = cv /\ seen' = seen /\ seq' = seq
    BY <1>15 DEF vars
  <2>2. Awake
    BY <2>1
  <2> HIDE DEF Awake, AsleepOn, IInv
  <2> QED
    BY <1>a, <2>1, <2>2
<1> HIDE DEF IInv, TypeOK, AsleepOn, CallInv, InCondSection, Awake
<1>16. ASSUME NEW t \in Threads, Continue(t) PROVE Goal
  BY <1>16, <1>2, <1>3, <1>4, <1>6, <1>8, <1>9, <1>10, <1>11 DEF Continue
<1>17. ASSUME Next PROVE Goal
  BY <1>17, <1>1, <1>5, <1>7, <1>12, <1>13, <1>14, <1>rs, <1>rw, <1>16 DEF Next
<1>18. Goal
  BY <1>15, <1>17
<1> QED
  BY <1>18 DEF Goal

(* The words implement the monitor, for any number of threads, mutexes and *)
(* conditions, if every condition word has a wait queue to itself.         *)
THEOREM WordsImplementMonitor ==
  ASSUME CondQueuesPrivate PROVE Spec => ImplementsMonitor
<1>1. IInv /\ [Next]_vars => [M!MonitorNext]_(M!mvars)
  BY StepRefines
<1> QED
  BY <1>1, InitRefines, TypeCorrectness, PTL DEF Spec, ImplementsMonitor, M!MonitorSpec
=============================================================================
