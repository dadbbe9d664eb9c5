------------------------------- MODULE Monitor -------------------------------
(***************************************************************************)
(* What src/ListTalk/utils/lock.h promises of a mutex word and a condition *)
(* word: a mutex has at most one owner, a wait releases the mutex and      *)
(* joins the waiters of the condition in one step, and a signal takes at   *)
(* least one waiter out of a nonempty wait set.  LockWords implements this *)
(* specification; the modules of the classes built on the words use its    *)
(* actions in place of the words.                                          *)
(***************************************************************************)
EXTENDS Naturals

CONSTANTS Threads,   \* the native threads
          Mutexes,   \* the LT_MutexWord objects
          Conds,     \* the LT_CondWord objects
          NoThread   \* not a thread

VARIABLES owner,     \* owner[m]: the thread inside m, or NoThread
          waiting    \* waiting[c]: the threads asleep on c

mvars == <<owner, waiting>>

MonitorTypeOK == /\ owner \in [Mutexes -> Threads \cup {NoThread}]
                 /\ waiting \in [Conds -> SUBSET Threads]

MonitorInit == /\ owner = [m \in Mutexes |-> NoThread]
               /\ waiting = [c \in Conds |-> {}]

(* LT_MutexWord_lock returns, or LT_MutexWord_try_lock succeeds. *)
Acquire(t, m) == /\ owner[m] = NoThread
                 /\ owner' = [owner EXCEPT ![m] = t]
                 /\ UNCHANGED waiting

(* LT_MutexWord_unlock. *)
Release(t, m) == /\ owner[m] = t
                 /\ owner' = [owner EXCEPT ![m] = NoThread]
                 /\ UNCHANGED waiting

(* LT_CondWord_wait up to the point where the caller sleeps.  The woken    *)
(* caller acquires the mutex again in a step of its own.                   *)
Wait(t, c, m) == /\ owner[m] = t
                 /\ owner' = [owner EXCEPT ![m] = NoThread]
                 /\ waiting' = [waiting EXCEPT ![c] = @ \cup {t}]

(* LT_CondWord_signal: as with pthread_cond_signal, more than one waiter   *)
(* may return.                                                             *)
Notify(c) == /\ \E S \in SUBSET waiting[c] :
                  /\ waiting[c] # {} => S # {}
                  /\ waiting' = [waiting EXCEPT ![c] = @ \ S]
             /\ UNCHANGED owner

(* LT_CondWord_broadcast. *)
NotifyAll(c) == /\ waiting' = [waiting EXCEPT ![c] = {}]
                /\ UNCHANGED owner

(* A wait may return although nobody signalled it after it was last        *)
(* counted as asleep.                                                      *)
Spurious(t, c) == /\ t \in waiting[c]
                  /\ waiting' = [waiting EXCEPT ![c] = @ \ {t}]
                  /\ UNCHANGED owner

MonitorNext ==
  \/ \E t \in Threads, m \in Mutexes :
       \/ Acquire(t, m)
       \/ Release(t, m)
       \/ \E c \in Conds : Wait(t, c, m)
  \/ \E c \in Conds : \/ Notify(c)
                      \/ NotifyAll(c)
                      \/ \E t \in Threads : Spurious(t, c)

MonitorSpec == MonitorInit /\ [][MonitorNext]_mvars
=============================================================================
