----------------------------- MODULE ThreadLife -----------------------------
(***************************************************************************)
(* The life of one managed LT_Thread (src/src/classes/Thread.c): its       *)
(* native thread runs thread_main while other threads, and the thread      *)
(* itself, join it, detach it and signal it.  state_lock and state_cond    *)
(* are the mutex and the condition of Monitor.                             *)
(***************************************************************************)
EXTENDS Naturals, FiniteSets

CONSTANTS Callers,   \* other threads that call methods of the thread
          Self,      \* the native thread of the LT_Thread
          NoThread, NONE

ASSUME ThreadLifeAssumption ==
  /\ Self \notin Callers
  /\ NoThread \notin Callers \cup {Self}
  /\ NONE \notin {"result", "error", "done", "queued", "not_queued", "signal", "posix"}

Threads == Callers \cup {Self}
Mutexes == {"state_lock"}
Conds == {"state_cond"}

VARIABLES
  owner, waiting,                        \* the monitor
  published,   \* LT_Thread.thread_state is not NULL
  finished, joined, joining, detached,   \* the bits of LT_Thread
  native,      \* where Self stands in thread_main
  handle,      \* the pthread: "joinable", "detached" or "reaped"
  pending,     \* LT_ThreadState.pending_signal
  pc,          \* where each caller stands
  answer       \* what the last call of a caller returned

monitor == <<owner, waiting>>
bits == <<finished, joined, joining, detached>>
vars == <<owner, waiting, published, finished, joined, joining, detached,
          native, handle, pending, pc, answer>>

Mon == INSTANCE Monitor

Native == {"created", "publishing", "running", "finishing", "finished", "exited"}
Answers == {NONE, "result", "error", "done", "queued", "not_queued"}
Labels == {"out", "unlock",
           "join_loop", "join_asleep", "pthread_join", "join_ok", "join_failed",
           "join_ok_locked", "join_failed_locked",
           "detach_unlock", "pthread_detach", "signal_cas"}

TypeOK == /\ Mon!MonitorTypeOK
          /\ published \in BOOLEAN /\ finished \in BOOLEAN
          /\ joined \in BOOLEAN /\ joining \in BOOLEAN /\ detached \in BOOLEAN
          /\ native \in Native
          /\ handle \in {"joinable", "detached", "reaped"}
          /\ pending \in {NONE, "signal", "posix"}
          /\ pc \in [Threads -> Labels]
          /\ answer \in [Threads -> Answers]

(* LT_Thread_new, once pthread_create has returned. *)
Init == /\ Mon!MonitorInit
        /\ published = FALSE /\ finished = FALSE
        /\ joined = FALSE /\ joining = FALSE /\ detached = FALSE
        /\ native = "created"
        /\ handle = "joinable"
        /\ pending = NONE
        /\ pc = [t \in Threads |-> "out"]
        /\ answer = [t \in Threads |-> NONE]

Goto(t, l) == pc' = [pc EXCEPT ![t] = l]
Answer(t, x) == answer' = [answer EXCEPT ![t] = x]

(* A thread is free to call: a caller between two calls, and Self while    *)
(* its callable runs. *)
Free(t) == pc[t] = "out" /\ (t = Self => native = "running")

-----------------------------------------------------------------------------
(* thread_main *)

(* Both ends of thread_main hold state_lock; the pointer to the thread's   *)
(* state is published by the first and taken back by the second. *)
MainLock == /\ \/ native = "created" /\ native' = "publishing"
               \/ native = "running" /\ pc[Self] = "out" /\ native' = "finishing"
            /\ Mon!Acquire(Self, "state_lock")
            /\ UNCHANGED <<published, bits, handle, pending, pc, answer>>

MainPublish == /\ native = "publishing"
               /\ published' = TRUE
               /\ native' = "running"
               /\ Mon!Release(Self, "state_lock")
               /\ UNCHANGED <<bits, handle, pending, pc, answer>>

(* A mistake for the model checker to find: the pointer to the thread's    *)
(* state is left behind. *)
MainFinishPublished ==
  /\ native = "finishing"
  /\ finished' = TRUE
  /\ native' = "finished"
  /\ Mon!Release(Self, "state_lock")
  /\ UNCHANGED <<published, joined, joining, detached, handle, pending, pc, answer>>

MainFinish == /\ native = "finishing"
              /\ finished' = TRUE
              /\ published' = FALSE
              /\ native' = "finished"
              /\ Mon!Release(Self, "state_lock")
              /\ UNCHANGED <<joined, joining, detached, handle, pending, pc, answer>>

(* thread_main returns: the destructor of the thread-local state frees it, *)
(* with the signal that may still be in it. *)
MainExit == /\ native = "finished"
            /\ native' = "exited"
            /\ pending' = NONE
            /\ UNCHANGED <<monitor, published, bits, handle, pc, answer>>

(* LT_check_pending_signal, called at every evaluation: the signal is      *)
(* taken out of the slot and applied. *)
CheckPendingSignal == /\ Free(Self)
                      /\ pending # NONE
                      /\ pending' = NONE
                      /\ UNCHANGED <<monitor, published, bits, native, handle, pc, answer>>

(* LT_posix_signal_handler stores whatever the slot holds. *)
PosixSignal == /\ native \in Native \ {"created", "exited"}
               /\ pending' = "posix"
               /\ UNCHANGED <<monitor, published, bits, native, handle, pc, answer>>

-----------------------------------------------------------------------------
(* LT_Thread_join *)

(* Mistake: the error of a detached thread leaves the mutex locked. *)
JoinKeepsLock(t) ==
  /\ Free(t)
  /\ Mon!Acquire(t, "state_lock")
  /\ IF detached THEN Goto(t, "out") /\ Answer(t, "error")
                 ELSE Goto(t, "join_loop") /\ UNCHANGED answer
  /\ UNCHANGED <<published, bits, native, handle, pending>>

Join(t) == /\ Free(t)
           /\ Mon!Acquire(t, "state_lock")
           /\ IF detached THEN Goto(t, "unlock") /\ Answer(t, "error")
                          ELSE Goto(t, "join_loop") /\ UNCHANGED answer
           /\ UNCHANGED <<published, bits, native, handle, pending>>

(* Mistake: nobody looks whether a join is under way. *)
JoinLoopUnchecked(t) ==
  /\ pc[t] = "join_loop"
  /\ \/ joined /\ Goto(t, "unlock") /\ Answer(t, "result") /\ UNCHANGED <<monitor, joining>>
     \/ /\ ~joined
        /\ joining' = TRUE
        /\ Mon!Release(t, "state_lock")
        /\ Goto(t, "pthread_join")
        /\ UNCHANGED answer
  /\ UNCHANGED <<published, finished, joined, detached, native, handle, pending>>

JoinLoop(t) ==
  /\ pc[t] = "join_loop"
  /\ \/ /\ joining
        /\ Mon!Wait(t, "state_cond", "state_lock")
        /\ Goto(t, "join_asleep")
        /\ UNCHANGED <<joining, answer>>
     \/ /\ ~joining /\ joined
        /\ Goto(t, "unlock")
        /\ Answer(t, "result")
        /\ UNCHANGED <<monitor, joining>>
     \/ /\ ~joining /\ ~joined
        /\ joining' = TRUE
        /\ Mon!Release(t, "state_lock")
        /\ Goto(t, "pthread_join")
        /\ UNCHANGED answer
  /\ UNCHANGED <<published, finished, joined, detached, native, handle, pending>>

JoinAwake(t) == /\ pc[t] = "join_asleep"
                /\ t \notin waiting["state_cond"]
                /\ Mon!Acquire(t, "state_lock")
                /\ Goto(t, "join_loop")
                /\ UNCHANGED <<published, bits, native, handle, pending, answer>>

(* pthread_join: of oneself it fails with EDEADLK, of a joinable thread it *)
(* waits for the exit.  A detached or reaped handle may be recognised, or  *)
(* the call may return as if it had joined a thread that has exited. *)
PthreadJoin(t) ==
  /\ pc[t] = "pthread_join"
  /\ \/ (t = Self \/ handle # "joinable") /\ Goto(t, "join_failed") /\ UNCHANGED handle
     \/ t # Self /\ native = "exited" /\ Goto(t, "join_ok") /\ handle' = "reaped"
  /\ UNCHANGED <<monitor, published, bits, native, pending, answer>>

JoinRelock(t) == /\ \/ pc[t] = "join_ok" /\ Goto(t, "join_ok_locked")
                    \/ pc[t] = "join_failed" /\ Goto(t, "join_failed_locked")
                 /\ Mon!Acquire(t, "state_lock")
                 /\ UNCHANGED <<published, bits, native, handle, pending, answer>>

(* Mistake: the error number of pthread_join is not looked at. *)
JoinSettleUnchecked(t) ==
  /\ pc[t] \in {"join_ok_locked", "join_failed_locked"}
  /\ joined' = TRUE
  /\ Answer(t, "result")
  /\ joining' = FALSE
  /\ Mon!NotifyAll("state_cond")
  /\ Goto(t, "unlock")
  /\ UNCHANGED <<published, finished, detached, native, handle, pending>>

(* Mistake: only a join that succeeded wakes the others. *)
JoinSettleSilent(t) ==
  /\ \/ /\ pc[t] = "join_ok_locked" /\ joined' = TRUE /\ Answer(t, "result")
        /\ Mon!NotifyAll("state_cond")
     \/ /\ pc[t] = "join_failed_locked" /\ UNCHANGED joined /\ Answer(t, "error")
        /\ UNCHANGED monitor
  /\ joining' = FALSE
  /\ Goto(t, "unlock")
  /\ UNCHANGED <<published, finished, detached, native, handle, pending>>

(* Either outcome lets the other joiners go on. *)
JoinSettle(t) ==
  /\ \/ pc[t] = "join_ok_locked" /\ joined' = TRUE /\ Answer(t, "result")
     \/ pc[t] = "join_failed_locked" /\ UNCHANGED joined /\ Answer(t, "error")
  /\ joining' = FALSE
  /\ Mon!NotifyAll("state_cond")
  /\ Goto(t, "unlock")
  /\ UNCHANGED <<published, finished, detached, native, handle, pending>>

-----------------------------------------------------------------------------
(* LT_Thread_makeDetached *)

MakeDetached(t) ==
  /\ Free(t)
  /\ Mon!Acquire(t, "state_lock")
  /\ \/ /\ joined \/ joining
        /\ Goto(t, "unlock") /\ Answer(t, "error") /\ UNCHANGED detached
     \/ /\ ~joined /\ ~joining /\ detached
        /\ Goto(t, "unlock") /\ Answer(t, "done") /\ UNCHANGED detached
     \/ /\ ~joined /\ ~joining /\ ~detached
        /\ detached' = TRUE
        /\ Goto(t, "detach_unlock") /\ UNCHANGED answer
  /\ UNCHANGED <<published, finished, joined, joining, native, handle, pending>>

DetachUnlock(t) == /\ pc[t] = "detach_unlock"
                   /\ Mon!Release(t, "state_lock")
                   /\ Goto(t, "pthread_detach")
                   /\ UNCHANGED <<published, bits, native, handle, pending, answer>>

(* Of a reaped handle the call may fail or go unnoticed. *)
PthreadDetach(t) ==
  /\ pc[t] = "pthread_detach"
  /\ \/ handle # "reaped" /\ handle' = "detached" /\ Answer(t, "done")
     \/ handle = "reaped" /\ UNCHANGED handle /\ \E x \in {"done", "error"} : Answer(t, x)
  /\ Goto(t, "out")
  /\ UNCHANGED <<monitor, published, bits, native, pending>>

-----------------------------------------------------------------------------
(* LT_Thread_signal *)

Signal(t) == /\ Free(t)
             /\ Mon!Acquire(t, "state_lock")
             /\ IF published THEN Goto(t, "signal_cas") /\ UNCHANGED answer
                             ELSE Goto(t, "unlock") /\ Answer(t, "not_queued")
             /\ UNCHANGED <<published, bits, native, handle, pending>>

(* The compare-and-swap on the slot of the thread's state. *)
SignalCas(t) == /\ pc[t] = "signal_cas"
                /\ \/ pending = NONE /\ pending' = "signal" /\ Answer(t, "queued")
                   \/ pending # NONE /\ UNCHANGED pending /\ Answer(t, "not_queued")
                /\ Goto(t, "unlock")
                /\ UNCHANGED <<monitor, published, bits, native, handle>>

Unlock(t) == /\ pc[t] = "unlock"
             /\ Mon!Release(t, "state_lock")
             /\ Goto(t, "out")
             /\ UNCHANGED <<published, bits, native, handle, pending, answer>>

SpuriousWakeup(t) == /\ Mon!Spurious(t, "state_cond")
                     /\ UNCHANGED <<published, bits, native, handle, pending, pc, answer>>

-----------------------------------------------------------------------------
Call(t) == Join(t) \/ MakeDetached(t) \/ Signal(t)

Continue(t) == \/ JoinLoop(t) \/ JoinAwake(t) \/ PthreadJoin(t)
               \/ JoinRelock(t) \/ JoinSettle(t)
               \/ DetachUnlock(t) \/ PthreadDetach(t)
               \/ SignalCas(t) \/ Unlock(t)

Main == MainLock \/ MainPublish \/ MainFinish \/ MainExit

Next == \/ Main
        \/ CheckPendingSignal
        \/ PosixSignal
        \/ \E t \in Threads : Call(t) \/ Continue(t) \/ SpuriousWakeup(t)

Spec == Init /\ [][Next]_vars

(* A runnable thread is scheduled, and the callable returns. *)
FairSpec == /\ Spec
            /\ WF_vars(Main)
            /\ \A t \in Threads : WF_vars(Continue(t))

-----------------------------------------------------------------------------
(* Whoever is inside a critical section owns the mutex, and whoever is     *)
(* counted as asleep is; the flags and the native thread agree. *)
InMain == {"publishing", "finishing"}
InCall == {"unlock", "join_loop", "join_ok_locked", "join_failed_locked",
           "detach_unlock", "signal_cas"}

OwnerInv ==
  /\ \A t \in Threads :
       owner["state_lock"] = t <=> pc[t] \in InCall \/ (t = Self /\ native \in InMain)
  /\ pc[Self] # "out" => native = "running"
  /\ \A t \in Threads : t \in waiting["state_cond"] => pc[t] = "join_asleep"

StateInv == /\ published <=> native \in {"running", "finishing"}
            /\ finished <=> native \in {"finished", "exited"}
            /\ joined => finished
            /\ handle = "reaped" => native = "exited"
            /\ \A t \in Threads :
                 /\ pc[t] = "signal_cas" => published
                 /\ pc[t] \in {"join_ok", "join_ok_locked"} => native = "exited"

(* A join is under way exactly while one thread is inside pthread_join or  *)
(* on its way back. *)
Joiners == {t \in Threads : pc[t] \in {"pthread_join", "join_ok", "join_failed",
                                      "join_ok_locked", "join_failed_locked"}}

JoinInv == /\ joining <=> Joiners # {}
           /\ \A t, u \in Joiners : t = u
           /\ joining => ~joined
           /\ handle = "reaped" =>
                joined \/ \E t \in Joiners : pc[t] \in {"join_ok", "join_ok_locked"}

IInv == TypeOK /\ OwnerInv /\ StateInv /\ JoinInv

(* The assert of LT_Thread_join, and what it is for: a join answers with   *)
(* the result only when thread_main has stored it. *)
JoinAnswersFinalResult ==
  \A t \in Threads :
    pc[t] \in {"join_ok", "join_ok_locked"} \/ answer[t] = "result" => finished

(* However the joiners are woken, one at a time is inside pthread_join, on *)
(* a handle nobody has reaped, and the joining bit says so to the others. *)
OneJoinerAtATime ==
  /\ \A t, u \in Threads :
       pc[t] = "pthread_join" /\ pc[u] = "pthread_join" => t = u
  /\ \A t \in Threads : pc[t] = "pthread_join" => joining /\ handle # "reaped"

(* A signal writes to the state of the thread only while that exists: the  *)
(* pointer is taken back before the native thread's exit frees the state.  *)
SignalFindsLiveState ==
  \A t \in Threads : pc[t] = "signal_cas" => native \notin {"created", "exited"}

(* Every call comes to an end once the callers make no new calls and no    *)
(* wait returns without a broadcast, unless the thread asked to join       *)
(* itself while another thread was joining it: it then waits for its       *)
(* joiner, and its joiner for it. *)
JoinsEnd ==
  /\ <>[][\A t \in Threads : ~Call(t) /\ ~SpuriousWakeup(t)]_vars
  /\ [](pc[Self] # "join_asleep")
  => <>[](\A t \in Threads : pc[t] = "out")

(* "Cannot join daemon thread": nobody enters pthread_join for a thread    *)
(* that has been detached. *)
DaemonNotJoined == \A t \in Threads : pc[t] = "pthread_join" => handle # "detached"
=============================================================================
