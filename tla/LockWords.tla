------------------------------ MODULE LockWords ------------------------------
(***************************************************************************)
(* The mutex and condition words of src/ListTalk/utils/lock.h and          *)
(* src/src/utils/lock.c.  A word is one machine word; a thread that has to *)
(* sleep does so on the pthread mutex and condition ("wait queue") its     *)
(* word's address hashes to, and two words may share a queue: two mutexes, *)
(* two conditions, or a mutex and a read-write word, whose sleepers are    *)
(* here only as far as they take part in a mutex's queue.                  *)
(*                                                                         *)
(* Every access to a word that races with an inline fast path is a step of *)
(* its own; a section that runs under a queue's pthread mutex and touches  *)
(* nothing that is read outside of it is one step.                         *)
(***************************************************************************)
EXTENDS Naturals, FiniteSets

CONSTANTS Threads,      \* native threads
          Mutexes,      \* LT_MutexWord addresses
          Conds,        \* LT_CondWord addresses
          Queues,       \* indices of the two wait queue arrays
          MutexQueue,   \* LT_lock_wait_queue_index of each mutex word
          CondQueue,    \* LT_lock_wait_queue_index of each condition word
          MaxSignals,   \* bound: signals and broadcasts per condition word
          NoThread, NoMutex, NoCond

ASSUME LockWordsAssumption ==
  /\ MutexQueue \in [Mutexes -> Queues]
  /\ CondQueue \in [Conds -> Queues]
  /\ MaxSignals \in Nat
  /\ NoThread \notin Threads
  /\ NoMutex \notin Mutexes
  /\ NoCond \notin Conds

VARIABLES
  word,       \* word[m]: the LT_MutexWord
  seq,        \* seq[c]: the LT_CondWord, a sequence number
  lockHolder, \* lockHolder[q]: owner of LT_lock_wait_queues[q].mutex
  condHolder, \* condHolder[q]: owner of LT_cond_wait_queues[q].mutex
  rwAsleep,   \* rwAsleep[q]: sleepers of a read-write word on lock queue q
  pc,         \* where each thread stands in lock.c
  held,       \* the mutex a thread has locked, as its caller knows it
  arg,        \* the mutex argument of the running call
  cv,         \* the condition a thread waits on, NoCond outside of a wait
  seen        \* the local variable sequence of LT_CondWord_wait

vars == <<word, seq, lockHolder, condHolder, rwAsleep, pc, held, arg, cv, seen>>

UNLOCKED == 0
LOCKED == 1
CONTENDED == 2

(* "run" is the caller's own code; the other labels name the next thing    *)
(* the thread does in lock_slow, unlock_slow or wait.                      *)
InLockSlow == {"slow_try", "slow_park", "slow_exit"}   \* queue mutex held
InWait == {"wait_unlock", "wait_check"}                \* queue mutex held
Labels == {"run", "slow_enter", "parked", "wake",
           "wait_parked", "wait_reenter", "relock"} \cup InLockSlow \cup InWait

TypeOK ==
  /\ word \in [Mutexes -> {UNLOCKED, LOCKED, CONTENDED}]
  /\ seq \in [Conds -> 0..MaxSignals]
  /\ lockHolder \in [Queues -> Threads \cup {NoThread}]
  /\ condHolder \in [Queues -> Threads \cup {NoThread}]
  /\ rwAsleep \in [Queues -> BOOLEAN]
  /\ pc \in [Threads -> Labels]
  /\ held \in [Threads -> Mutexes \cup {NoMutex}]
  /\ arg \in [Threads -> Mutexes \cup {NoMutex}]
  /\ cv \in [Threads -> Conds \cup {NoCond}]
  /\ seen \in [Threads -> 0..MaxSignals]

Init ==
  /\ word = [m \in Mutexes |-> UNLOCKED]
  /\ seq = [c \in Conds |-> 0]
  /\ lockHolder = [q \in Queues |-> NoThread]
  /\ condHolder = [q \in Queues |-> NoThread]
  /\ rwAsleep = [q \in Queues |-> FALSE]
  /\ pc = [t \in Threads |-> "run"]
  /\ held = [t \in Threads |-> NoMutex]
  /\ arg = [t \in Threads |-> NoMutex]
  /\ cv = [t \in Threads |-> NoCond]
  /\ seen = [t \in Threads |-> 0]

-----------------------------------------------------------------------------
(* Locking *)

(* A mistake for the model checker to find: the swap fails on a contended  *)
(* word only. *)
CompareAndLockAny(t, m) ==
  /\ word[m] # CONTENDED
  /\ word' = [word EXCEPT ![m] = LOCKED]
  /\ held' = [held EXCEPT ![t] = m]
  /\ pc' = [pc EXCEPT ![t] = "run"]
  /\ UNCHANGED <<seq, lockHolder, condHolder, rwAsleep, arg, cv, seen>>

(* The compare-and-swap of LT_MutexWord_try_lock, when it succeeds. *)
CompareAndLock(t, m) ==
  /\ word[m] = UNLOCKED
  /\ word' = [word EXCEPT ![m] = LOCKED]
  /\ held' = [held EXCEPT ![t] = m]
  /\ pc' = [pc EXCEPT ![t] = "run"]
  /\ UNCHANGED <<seq, lockHolder, condHolder, rwAsleep, arg, cv, seen>>

(* ... and when it fails inside LT_MutexWord_lock. *)
GoSlow(t, m) ==
  /\ word[m] # UNLOCKED
  /\ pc' = [pc EXCEPT ![t] = "slow_enter"]
  /\ arg' = [arg EXCEPT ![t] = m]
  /\ UNCHANGED <<word, seq, lockHolder, condHolder, rwAsleep, held, cv, seen>>

(* LT_MutexWord_lock.  A thread holds at most one mutex at a time; a       *)
(* try_lock that fails leaves everything as it was, so that CompareAndLock *)
(* is also all of LT_MutexWord_try_lock.                                   *)
Lock(t, m) ==
  /\ pc[t] = "run"
  /\ held[t] = NoMutex
  /\ CompareAndLock(t, m) \/ GoSlow(t, m)

(* The queue mutex is taken, on entry of lock_slow and again on return     *)
(* from pthread_cond_wait.                                                 *)
SlowEnter(t) ==
  LET q == MutexQueue[arg[t]] IN
  /\ pc[t] = "slow_enter"
  /\ lockHolder[q] = NoThread
  /\ lockHolder' = [lockHolder EXCEPT ![q] = t]
  /\ pc' = [pc EXCEPT ![t] = "slow_try"]
  /\ UNCHANGED <<word, seq, condHolder, rwAsleep, held, arg, cv, seen>>

(* Mistake: a thread that gets the mutex in the slow path marks it as      *)
(* LOCKED and forgets the other sleepers. *)
SlowTryUncontended(t) ==
  LET m == arg[t] IN
  /\ pc[t] = "slow_try"
  /\ \/ /\ word[m] = UNLOCKED
        /\ word' = [word EXCEPT ![m] = LOCKED]
        /\ held' = [held EXCEPT ![t] = m]
        /\ pc' = [pc EXCEPT ![t] = "slow_exit"]
     \/ /\ word[m] # UNLOCKED
        /\ word' = [word EXCEPT ![m] = CONTENDED]
        /\ pc' = [pc EXCEPT ![t] = "slow_park"]
        /\ UNCHANGED held
  /\ UNCHANGED <<seq, lockHolder, condHolder, rwAsleep, arg, cv, seen>>

(* The exchange of lock_slow leaves CONTENDED behind in either case. *)
SlowTry(t) ==
  LET m == arg[t] IN
  /\ pc[t] = "slow_try"
  /\ word' = [word EXCEPT ![m] = CONTENDED]
  /\ \/ /\ word[m] = UNLOCKED
        /\ held' = [held EXCEPT ![t] = m]
        /\ pc' = [pc EXCEPT ![t] = "slow_exit"]
     \/ /\ word[m] # UNLOCKED
        /\ pc' = [pc EXCEPT ![t] = "slow_park"]
        /\ UNCHANGED held
  /\ UNCHANGED <<seq, lockHolder, condHolder, rwAsleep, arg, cv, seen>>

(* Either the return from lock_slow or pthread_cond_wait: both give the    *)
(* queue mutex up, the latter while the thread falls asleep.               *)
SlowLeave(t) ==
  /\ \/ /\ pc[t] = "slow_exit"
        /\ pc' = [pc EXCEPT ![t] = "run"]
     \/ /\ pc[t] = "slow_park"
        /\ pc' = [pc EXCEPT ![t] = "parked"]
  /\ lockHolder' = [lockHolder EXCEPT ![MutexQueue[arg[t]]] = NoThread]
  /\ UNCHANGED <<word, seq, condHolder, rwAsleep, held, arg, cv, seen>>

-----------------------------------------------------------------------------
(* Unlocking *)

(* Mistake: the old state is compared with the wrong constant. *)
ExchangeLocked(t, m, next) ==
  /\ word' = [word EXCEPT ![m] = UNLOCKED]
  /\ held' = [held EXCEPT ![t] = NoMutex]
  /\ arg' = [arg EXCEPT ![t] = m]
  /\ pc' = [pc EXCEPT ![t] = IF word[m] = LOCKED THEN "wake" ELSE next]
  /\ UNCHANGED <<seq, lockHolder, condHolder, rwAsleep, cv, seen>>

(* The exchange of LT_MutexWord_unlock; next is where the thread goes when *)
(* nobody has to be woken.                                                 *)
Exchange(t, m, next) ==
  /\ word' = [word EXCEPT ![m] = UNLOCKED]
  /\ held' = [held EXCEPT ![t] = NoMutex]
  /\ arg' = [arg EXCEPT ![t] = m]
  /\ pc' = [pc EXCEPT ![t] = IF word[m] = CONTENDED THEN "wake" ELSE next]
  /\ UNCHANGED <<seq, lockHolder, condHolder, rwAsleep, cv, seen>>

Unlock(t) ==
  /\ pc[t] = "run"
  /\ held[t] # NoMutex
  /\ Exchange(t, held[t], "run")

(* The threads pthread_cond_signal may wake: whoever sleeps on the queue,  *)
(* whatever word they sleep for.                                           *)
ParkedOn(q) == {u \in Threads : pc[u] = "parked" /\ MutexQueue[arg[u]] = q}

(* unlock_slow: lock the queue, signal one sleeper, unlock the queue.  The *)
(* one signalled may be a sleeper of a read-write word, who looks at that  *)
(* word.  A wait goes on to its own loop, an unlock returns.               *)
Wake(t) ==
  LET q == MutexQueue[arg[t]]
      after == IF cv[t] = NoCond THEN "run" ELSE "wait_check"
  IN
  /\ pc[t] = "wake"
  /\ lockHolder[q] = NoThread
  /\ \/ /\ ParkedOn(q) = {} \/ rwAsleep[q]
        /\ pc' = [pc EXCEPT ![t] = after]
     \/ \E u \in ParkedOn(q) :
          pc' = [pc EXCEPT ![t] = after, ![u] = "slow_enter"]
  /\ UNCHANGED <<word, seq, lockHolder, condHolder, rwAsleep, held, arg, cv, seen>>

-----------------------------------------------------------------------------
(* Read-write words on the queues of mutexes (module RWLockWord has the    *)
(* words themselves).  A thread goes to sleep while the word is taken.  It *)
(* sleeps, or has been signalled in vain and looks again, until the owner  *)
(* gives the word up, finds the waiters counted in it and wakes the whole  *)
(* queue.                                                                  *)
RWSleep(q) ==
  /\ lockHolder[q] = NoThread
  /\ rwAsleep' = [rwAsleep EXCEPT ![q] = TRUE]
  /\ UNCHANGED <<word, seq, lockHolder, condHolder, pc, held, arg, cv, seen>>

RWWake(q) ==
  /\ rwAsleep[q]
  /\ lockHolder[q] = NoThread
  /\ rwAsleep' = [rwAsleep EXCEPT ![q] = FALSE]
  /\ pc' = [u \in Threads |-> IF u \in ParkedOn(q) THEN "slow_enter" ELSE pc[u]]
  /\ UNCHANGED <<word, seq, lockHolder, condHolder, held, arg, cv, seen>>

-----------------------------------------------------------------------------
(* Condition words *)

(* LT_CondWord_wait reads the sequence under the queue mutex before it     *)
(* lets the caller's mutex go.                                             *)
WaitEnter(t, c) ==
  LET q == CondQueue[c] IN
  /\ pc[t] = "run"
  /\ held[t] # NoMutex
  /\ condHolder[q] = NoThread
  /\ condHolder' = [condHolder EXCEPT ![q] = t]
  /\ seen' = [seen EXCEPT ![t] = seq[c]]
  /\ cv' = [cv EXCEPT ![t] = c]
  /\ pc' = [pc EXCEPT ![t] = "wait_unlock"]
  /\ UNCHANGED <<word, seq, lockHolder, rwAsleep, held, arg>>

WaitUnlock(t) ==
  /\ pc[t] = "wait_unlock"
  /\ Exchange(t, held[t], "wait_check")

(* The loop condition and pthread_cond_wait.  A thread that stays asleep   *)
(* or falls asleep gives the queue mutex up; so does one that leaves.      *)
SleepOrLeave(t) ==
  IF seq[cv[t]] = seen[t]
  THEN /\ pc' = [pc EXCEPT ![t] = "wait_parked"]
       /\ UNCHANGED cv
  ELSE /\ pc' = [pc EXCEPT ![t] = "relock"]
       /\ cv' = [cv EXCEPT ![t] = NoCond]

WaitCheck(t) ==
  /\ pc[t] = "wait_check"
  /\ condHolder' = [condHolder EXCEPT ![CondQueue[cv[t]]] = NoThread]
  /\ SleepOrLeave(t)
  /\ UNCHANGED <<word, seq, lockHolder, rwAsleep, held, arg, seen>>

(* Mistake: the sequence is read again on every turn of the loop. *)
WaitReenterRereads(t) ==
  /\ pc[t] = "wait_reenter"
  /\ condHolder[CondQueue[cv[t]]] = NoThread
  /\ seen' = [seen EXCEPT ![t] = seq[cv[t]]]
  /\ pc' = [pc EXCEPT ![t] = "wait_parked"]
  /\ UNCHANGED <<word, seq, lockHolder, condHolder, rwAsleep, held, arg, cv>>

(* A woken waiter gets the queue mutex back and looks at the sequence. *)
WaitReenter(t) ==
  /\ pc[t] = "wait_reenter"
  /\ condHolder[CondQueue[cv[t]]] = NoThread
  /\ SleepOrLeave(t)
  /\ UNCHANGED <<word, seq, lockHolder, condHolder, rwAsleep, held, arg, seen>>

(* The LT_MutexWord_lock at the end of LT_CondWord_wait. *)
Relock(t) ==
  /\ pc[t] = "relock"
  /\ CompareAndLock(t, arg[t]) \/ GoSlow(t, arg[t])

WaitersOn(q) == {u \in Threads : pc[u] = "wait_parked" /\ CondQueue[cv[u]] = q}

(* Mistake: the sequence is counted without the queue mutex. *)
SignalUnlocked(t, c) ==
  LET q == CondQueue[c] IN
  /\ pc[t] = "run"
  /\ seq[c] < MaxSignals
  /\ seq' = [seq EXCEPT ![c] = @ + 1]
  /\ \/ /\ WaitersOn(q) = {}
        /\ UNCHANGED pc
     \/ \E u \in WaitersOn(q) : pc' = [pc EXCEPT ![u] = "wait_reenter"]
  /\ UNCHANGED <<word, lockHolder, condHolder, rwAsleep, held, arg, cv, seen>>

(* LT_CondWord_signal.  The caller may or may not hold the mutex. *)
Signal(t, c) ==
  LET q == CondQueue[c] IN
  /\ pc[t] = "run"
  /\ seq[c] < MaxSignals
  /\ condHolder[q] = NoThread
  /\ seq' = [seq EXCEPT ![c] = @ + 1]
  /\ \/ /\ WaitersOn(q) = {}
        /\ UNCHANGED pc
     \/ \E u \in WaitersOn(q) : pc' = [pc EXCEPT ![u] = "wait_reenter"]
  /\ UNCHANGED <<word, lockHolder, condHolder, rwAsleep, held, arg, cv, seen>>

(* LT_CondWord_broadcast. *)
Broadcast(t, c) ==
  LET q == CondQueue[c] IN
  /\ pc[t] = "run"
  /\ seq[c] < MaxSignals
  /\ condHolder[q] = NoThread
  /\ seq' = [seq EXCEPT ![c] = @ + 1]
  /\ pc' = [u \in Threads |-> IF u \in WaitersOn(q) THEN "wait_reenter" ELSE pc[u]]
  /\ UNCHANGED <<word, lockHolder, condHolder, rwAsleep, held, arg, cv, seen>>

(* pthread_cond_wait may return without a signal. *)
SpuriousWakeup(t) ==
  /\ \/ /\ pc[t] = "parked"
        /\ pc' = [pc EXCEPT ![t] = "slow_enter"]
     \/ /\ pc[t] = "wait_parked"
        /\ pc' = [pc EXCEPT ![t] = "wait_reenter"]
  /\ UNCHANGED <<word, seq, lockHolder, condHolder, rwAsleep, held, arg, cv, seen>>

-----------------------------------------------------------------------------
(* The steps a thread takes inside lock.c without anyone calling it again. *)
Continue(t) == \/ SlowEnter(t) \/ SlowTry(t) \/ SlowLeave(t)
               \/ Wake(t)
               \/ WaitUnlock(t) \/ WaitCheck(t) \/ WaitReenter(t) \/ Relock(t)

Next == \/ \E t \in Threads :
             \/ Continue(t)
             \/ Unlock(t)
             \/ \E m \in Mutexes : Lock(t, m)
             \/ \E c \in Conds : WaitEnter(t, c) \/ Signal(t, c) \/ Broadcast(t, c)
             \/ SpuriousWakeup(t)
        \/ \E q \in Queues : RWSleep(q) \/ RWWake(q)

Spec == Init /\ [][Next]_vars

(* A runnable thread is eventually scheduled.  Nothing forces a caller to  *)
(* lock, to unlock or to signal, no thread need wake spuriously, and the   *)
(* owner of a read-write word may keep it.                                 *)
FairSpec == Spec /\ \A t \in Threads : WF_vars(Continue(t))

-----------------------------------------------------------------------------
(* Safety *)

(* At most one thread is between the return of a lock and its unlock: the  *)
(* promise of LT_MutexWord_lock, with its inline fast path racing the slow *)
(* path of other threads.                                                  *)
MutualExclusion ==
  \A t, u \in Threads : held[t] # NoMutex /\ held[t] = held[u] => t = u

(* Threads that may still set m's word or wake one of m's sleepers. *)
Waker(t, m) == pc[t] \in {"slow_enter", "slow_try", "wake"} /\ arg[t] = m

(* The mutexes that hash to a queue. *)
MutexesOf(q) == {m \in Mutexes : MutexQueue[m] = q}

(* Somebody will come to queue q: a mutex of the queue tells its owner to  *)
(* wake a sleeper, a thread is on its way that will take one, mark one or  *)
(* wake a sleeper, or the owner of a read-write word will wake them all.   *)
SomeoneComes(q) ==
  \/ \E m \in MutexesOf(q) : word[m] = CONTENDED \/ \E u \in Threads : Waker(u, m)
  \/ rwAsleep[q]

(* A thread that sleeps, or is about to, in LT_MutexWord_lock_slow is not  *)
(* forgotten, however the 64 queues are shared: somebody will come to its  *)
(* queue.  On a queue that only its own mutex hashes to, that is its       *)
(* mutex's owner or somebody who takes or marks this very mutex.           *)
NoLostWakeup ==
  \A t \in Threads :
    pc[t] \in {"slow_park", "parked"} => SomeoneComes(MutexQueue[arg[t]])

(* The parts of the inductive invariant. *)

(* A word is UNLOCKED exactly when nobody holds it. *)
WordInv == \A m \in Mutexes : word[m] = UNLOCKED <=> \A t \in Threads : held[t] # m

(* The queue mutexes are owned by the threads that stand in the sections   *)
(* they protect; a waiter in unlock_slow still has its condition's queue.  *)
InCondSection(t) == pc[t] \in InWait \/ (pc[t] = "wake" /\ cv[t] # NoCond)

QueueInv ==
  \A t \in Threads :
    /\ pc[t] \in InLockSlow =>
         arg[t] # NoMutex /\ lockHolder[MutexQueue[arg[t]]] = t
    /\ InCondSection(t) => cv[t] # NoCond /\ condHolder[CondQueue[cv[t]]] = t

(* What the caller's mutex and the arguments are in each section. *)
CallInv ==
  \A t \in Threads :
    /\ pc[t] \notin {"run", "wait_unlock"} => arg[t] # NoMutex
    /\ pc[t] = "wait_unlock" => held[t] # NoMutex
    /\ pc[t] \notin {"run", "wait_unlock", "slow_exit"} => held[t] = NoMutex
    /\ pc[t] = "slow_exit" => held[t] = arg[t]
    /\ cv[t] # NoCond <=>
         InCondSection(t) \/ pc[t] \in {"wait_parked", "wait_reenter"}

(* From the read of the sequence to the sleep no signal can come between:  *)
(* the waiter has the queue of its condition.                              *)
SeenInv ==
  \A t \in Threads : cv[t] # NoCond =>
    /\ seen[t] <= seq[cv[t]]
    /\ InCondSection(t) => seen[t] = seq[cv[t]]

IInv == /\ TypeOK
        /\ WordInv
        /\ MutualExclusion
        /\ QueueInv
        /\ CallInv
        /\ SeenInv

-----------------------------------------------------------------------------
(* The promise *)

OwnerOf(m) == IF \E t \in Threads : held[t] = m
              THEN CHOOSE t \in Threads : held[t] = m
              ELSE NoThread

(* Asleep, or certain to fall asleep again, on c. *)
AsleepOn(t, c) ==
  /\ cv[t] = c
  /\ \/ pc[t] \in {"wake", "wait_check", "wait_parked"}
     \/ pc[t] = "wait_reenter" /\ seen[t] = seq[c]

M == INSTANCE Monitor WITH
       owner <- [m \in Mutexes |-> OwnerOf(m)],
       waiting <- [c \in Conds |-> {t \in Threads : AsleepOn(t, c)}]

(* The words implement a monitor: a wait releases the mutex and joins the  *)
(* sleepers in one step, a signal to a condition with sleepers takes at    *)
(* least one of them out, a broadcast all.                                 *)
ImplementsMonitor == M!MonitorSpec

(* ConditionVariable>>signal wakes one thread waiting on the condition. *)
SignalWakesWaiter ==
  [][\A c \in Conds :
       seq'[c] # seq[c] /\ (\E t \in Threads : AsleepOn(t, c)) =>
         \E t \in Threads : AsleepOn(t, c) /\ ~AsleepOn(t, c)']_vars

(* The mutexes of a queue do not all stay unlocked for ever while a thread *)
(* sleeps for one of them: one is taken, by a sleeper or a newcomer,       *)
(* unless a thread goes to sleep there for a read-write word.              *)
FreeMutexIsTaken ==
  \A q \in Queues :
    (ParkedOn(q) # {} /\ ~rwAsleep[q] /\ \A m \in MutexesOf(q) : word[m] = UNLOCKED)
      ~> (rwAsleep[q] \/ \E m \in MutexesOf(q) : word[m] # UNLOCKED)
=============================================================================
