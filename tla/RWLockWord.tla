----------------------------- MODULE RWLockWord -----------------------------
(***************************************************************************)
(* The reader-writer word of src/ListTalk/utils/lock.h and                 *)
(* src/src/utils/lock.c: a writer bit, a count of readers and, in the      *)
(* upper half of the same machine word, a count of the threads in the slow *)
(* path.  One lock with a wait queue of its own; unlike a mutex, an unlock *)
(* wakes every thread on the queue.                                        *)
(***************************************************************************)
EXTENDS Naturals, FiniteSets

CONSTANTS Threads, NoThread

ASSUME RWAssumption == IsFiniteSet(Threads) /\ NoThread \notin Threads

VARIABLES
  writer,   \* LT_RWLOCK_WRITER is set
  readers,  \* the LT_RWLOCK_READER part of the word
  waiters,  \* the LT_RWLOCK_WAITERS part of the word
  holder,   \* owner of the wait queue's pthread mutex
  pc,       \* where each thread stands in lock.c
  mode,     \* "read" or "write": which slow path the thread is in
  held      \* what the caller holds: "none", "read" or "write"

word == <<writer, readers, waiters>>
vars == <<writer, readers, waiters, holder, pc, mode, held>>

Active == writer \/ readers > 0     \* state & LT_RWLOCK_ACTIVE_MASK

InQueue == {"count", "try", "park", "exit"}     \* queue mutex held
Labels == {"run", "enter", "parked", "reenter", "wake"} \cup InQueue

TypeOK == /\ writer \in BOOLEAN
          /\ readers \in Nat
          /\ waiters \in Nat
          /\ holder \in Threads \cup {NoThread}
          /\ pc \in [Threads -> Labels]
          /\ mode \in [Threads -> {"read", "write"}]
          /\ held \in [Threads -> {"none", "read", "write"}]

Init == /\ writer = FALSE
        /\ readers = 0
        /\ waiters = 0
        /\ holder = NoThread
        /\ pc = [t \in Threads |-> "run"]
        /\ mode = [t \in Threads |-> "read"]
        /\ held = [t \in Threads |-> "none"]

Goto(t, l) == pc' = [pc EXCEPT ![t] = l]

(* The lock is taken in either mode by one compare-and-swap. *)
Take(t, m) ==
  /\ held' = [held EXCEPT ![t] = m]
  /\ IF m = "write" THEN writer' = TRUE /\ UNCHANGED readers
                    ELSE readers' = readers + 1 /\ UNCHANGED writer

-----------------------------------------------------------------------------
(* A mistake for the model checker to find: the fast path of a writer      *)
(* tests the writer bit only. *)
FastAllowedNoReaders(m) == waiters = 0 /\ ~writer

(* When the inline fast path of a mode succeeds: a reader also gives way   *)
(* to threads in the slow path.                                            *)
FastAllowed(m) == waiters = 0 /\ ~writer /\ (m = "write" => readers = 0)

(* LT_RWLockWord_try_read_lock and try_write_lock. *)
TryLock(t, m) ==
  /\ FastAllowed(m)
  /\ Take(t, m)
  /\ UNCHANGED <<waiters, holder, pc, mode>>

(* LT_RWLockWord_read_lock and write_lock.  The caller holds nothing yet.  *)
Lock(t, m) ==
  /\ pc[t] = "run"
  /\ held[t] = "none"
  /\ \/ TryLock(t, m)
     \/ /\ ~FastAllowed(m)
        /\ mode' = [mode EXCEPT ![t] = m]
        /\ Goto(t, "enter")
        /\ UNCHANGED <<word, holder, held>>

(* Mistake: a thread is counted again whenever it wakes up. *)
EnterCounts(t) ==
  /\ holder = NoThread
  /\ holder' = t
  /\ pc[t] \in {"enter", "reenter"} /\ Goto(t, "count")
  /\ UNCHANGED <<word, mode, held>>

(* The queue mutex, on entry of a slow path or on return from              *)
(* pthread_cond_wait; only on entry is the thread counted.                 *)
Enter(t) ==
  /\ holder = NoThread
  /\ holder' = t
  /\ \/ pc[t] = "enter" /\ Goto(t, "count")
     \/ pc[t] = "reenter" /\ Goto(t, "try")
  /\ UNCHANGED <<word, mode, held>>

(* The atomic_fetch_add of LT_RWLOCK_WAITERS. *)
Count(t) ==
  /\ pc[t] = "count"
  /\ waiters' = waiters + 1
  /\ Goto(t, "try")
  /\ UNCHANGED <<writer, readers, holder, mode, held>>

(* The inner loops: a slow reader needs only the writer gone, a slow       *)
(* writer needs everybody gone.                                            *)
SlowAllowed(m) == ~writer /\ (m = "write" => readers = 0)

(* A weak compare-and-swap that fails goes round the inner loop again, so  *)
(* that the loop ends either in a swap or with a load that forbids one.    *)
Try(t) ==
  /\ pc[t] = "try"
  /\ \/ /\ SlowAllowed(mode[t])
        /\ Take(t, mode[t])
        /\ waiters' = waiters - 1
        /\ Goto(t, "exit")
     \/ /\ ~SlowAllowed(mode[t])
        /\ Goto(t, "park")
        /\ UNCHANGED <<word, held>>
  /\ UNCHANGED <<holder, mode>>

(* The queue mutex is given up by the return or by pthread_cond_wait. *)
Leave(t) ==
  /\ \/ pc[t] = "exit" /\ Goto(t, "run")
     \/ pc[t] = "park" /\ Goto(t, "parked")
  /\ holder' = NoThread
  /\ UNCHANGED <<word, mode, held>>

(* Mistake: an unlock wakes when there is more than one waiter. *)
UnlockOffByOne(t) ==
  /\ pc[t] = "run"
  /\ held[t] # "none"
  /\ held' = [held EXCEPT ![t] = "none"]
  /\ IF held[t] = "write" THEN writer' = FALSE /\ UNCHANGED readers
                          ELSE readers' = readers - 1 /\ UNCHANGED writer
  /\ Goto(t, IF ~Active' /\ waiters > 1 THEN "wake" ELSE "run")
  /\ UNCHANGED <<waiters, holder, mode>>

(* Mistake: only the unlock of a writer wakes. *)
UnlockWriterWakes(t) ==
  /\ pc[t] = "run"
  /\ held[t] # "none"
  /\ held' = [held EXCEPT ![t] = "none"]
  /\ IF held[t] = "write" THEN writer' = FALSE /\ UNCHANGED readers
                          ELSE readers' = readers - 1 /\ UNCHANGED writer
  /\ Goto(t, IF held[t] = "write" /\ waiters > 0 THEN "wake" ELSE "run")
  /\ UNCHANGED <<waiters, holder, mode>>

(* LT_RWLockWord_read_unlock and write_unlock up to the decision to wake.  *)
Unlock(t) ==
  /\ pc[t] = "run"
  /\ held[t] # "none"
  /\ held' = [held EXCEPT ![t] = "none"]
  /\ IF held[t] = "write" THEN writer' = FALSE /\ UNCHANGED readers
                          ELSE readers' = readers - 1 /\ UNCHANGED writer
  /\ Goto(t, IF ~Active' /\ waiters > 0 THEN "wake" ELSE "run")
  /\ UNCHANGED <<waiters, holder, mode>>

(* LT_RWLockWord_unlock_slow broadcasts under the queue mutex. *)
Wake(t) ==
  /\ pc[t] = "wake"
  /\ holder = NoThread
  /\ pc' = [u \in Threads |-> IF u = t THEN "run"
                              ELSE IF pc[u] = "parked" THEN "reenter"
                              ELSE pc[u]]
  /\ UNCHANGED <<word, holder, mode, held>>

(* pthread_cond_wait may return without a signal. *)
SpuriousWakeup(t) ==
  /\ pc[t] = "parked"
  /\ Goto(t, "reenter")
  /\ UNCHANGED <<word, holder, mode, held>>

-----------------------------------------------------------------------------
Continue(t) == Enter(t) \/ Count(t) \/ Try(t) \/ Leave(t) \/ Wake(t)

Next == \E t \in Threads :
          \/ Continue(t)
          \/ \E m \in {"read", "write"} : Lock(t, m)
          \/ Unlock(t)
          \/ SpuriousWakeup(t)

Spec == Init /\ [][Next]_vars

(* A runnable thread is eventually scheduled, and a caller that holds the  *)
(* lock releases it.                                                       *)
FairSpec ==
  Spec /\ \A t \in Threads : WF_vars(Continue(t)) /\ WF_vars(Unlock(t))

-----------------------------------------------------------------------------
Holders(m) == {t \in Threads : held[t] = m}

(* A thread that is in the waiters part of the word. *)
Counted == {t \in Threads : pc[t] \in {"try", "park", "parked", "reenter"}}

(* A writer is alone: nobody else holds the lock in either mode, whichever *)
(* of the fast and slow paths the threads came in by.                      *)
WriterAlone ==
  \A t, u \in Threads : held[t] = "write" /\ held[u] # "none" => t = u

(* The word counts the holders and the slow-path threads exactly.  A       *)
(* waiter counted once too often would shut the fast path for ever and     *)
(* make every unlock wake an empty queue.                                  *)
WordInv == /\ writer <=> Holders("write") # {}
           /\ readers = Cardinality(Holders("read"))
           /\ waiters = Cardinality(Counted)

QueueInv == \A t \in Threads : pc[t] \in InQueue <=> holder = t

CallInv == \A t \in Threads : /\ pc[t] \notin {"run", "exit"} => held[t] = "none"
                              /\ pc[t] = "exit" => held[t] = mode[t]

(* Nobody sleeps for a lock it could have, unless a broadcast is on its    *)
(* way.                                                                    *)
NoSleeperStranded ==
  \A t \in Threads :
    pc[t] \in {"park", "parked"} /\ SlowAllowed(mode[t]) =>
      \E u \in Threads : pc[u] = "wake"

IInv == TypeOK /\ WordInv /\ WriterAlone /\ QueueInv /\ CallInv

(* A free lock with threads asleep for it is taken again, and does not     *)
(* stay free while they sleep for ever.                                    *)
FreeLockIsTaken ==
  (~Active /\ \E t \in Threads : pc[t] = "parked") ~> Active
=============================================================================
