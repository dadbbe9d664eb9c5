------------------------- MODULE ThreadLife_proofs -------------------------
(***************************************************************************)
(* The invariants of ThreadLife hold for any number of callers.  The       *)
(* argument is one invariant, Inv: the mutex is owned by whoever stands in *)
(* a critical section, the flags say where the native thread stands, and   *)
(* a join is under way exactly while one thread is inside pthread_join or  *)
(* on its way back.                                                        *)
(***************************************************************************)
EXTENDS ThreadLife, TLAPS

Inv == IInv /\ JoinAnswersFinalResult

(* A new thread satisfies the invariant. *)
LEMMA InitInv == Init => Inv
BY ThreadLifeAssumption
DEF Init, Inv, IInv, TypeOK, OwnerInv, StateInv, JoinInv, JoinAnswersFinalResult,
    Joiners, InMain, InCall, Native, Answers, Labels, Threads, Mutexes, Conds,
    Mon!MonitorInit, Mon!MonitorTypeOK

(* Every step of the thread, of a caller and of the signal handler keeps   *)
(* the invariant. *)
LEMMA StepInv == Inv /\ [Next]_vars => Inv'
<1> SUFFICES ASSUME Inv, [Next]_vars PROVE Inv'
  OBVIOUS
<1> USE ThreadLifeAssumption
    DEF Inv, IInv, TypeOK, Mon!MonitorTypeOK, Native, Answers, Labels, Mutexes, Conds,
        Goto, Answer, monitor, bits
<1>0. Self \in Threads /\ NoThread \notin Threads
  BY DEF Threads
<1>1. ASSUME MainLock PROVE Inv'
  <2>1. TypeOK'
    BY <1>1, <1>0 DEF MainLock, Mon!Acquire
  <2>2. OwnerInv'
    BY <1>1, <1>0 DEF MainLock, Mon!Acquire, OwnerInv, InMain, InCall
  <2>3. StateInv'
    BY <1>1, <1>0 DEF MainLock, Mon!Acquire, StateInv, OwnerInv, InMain, InCall
  <2>4. JoinInv' /\ JoinAnswersFinalResult'
    BY <1>1, <1>0 DEF MainLock, Mon!Acquire, JoinInv, Joiners, JoinAnswersFinalResult, StateInv, OwnerInv, InMain, InCall
  <2> QED
    BY <2>1, <2>2, <2>3, <2>4
<1>2. ASSUME MainPublish PROVE Inv'
  <2>1. TypeOK'
    BY <1>2, <1>0 DEF MainPublish, Mon!Release
  <2>2. OwnerInv'
    BY <1>2, <1>0 DEF MainPublish, Mon!Release, OwnerInv, InMain, InCall
  <2>3. StateInv'
    BY <1>2, <1>0 DEF MainPublish, Mon!Release, StateInv, OwnerInv, InMain, InCall
  <2>4. JoinInv' /\ JoinAnswersFinalResult'
    BY <1>2, <1>0 DEF MainPublish, Mon!Release, JoinInv, Joiners, JoinAnswersFinalResult, StateInv, OwnerInv, InMain, InCall
  <2> QED
    BY <2>1, <2>2, <2>3, <2>4
<1>3. ASSUME MainFinish PROVE Inv'
  <2>1. TypeOK'
    BY <1>3, <1>0 DEF MainFinish, Mon!Release
  <2>2. OwnerInv'
    BY <1>3, <1>0 DEF MainFinish, Mon!Release, OwnerInv, InMain, InCall
  <2>3. StateInv'
    BY <1>3, <1>0 DEF MainFinish, Mon!Release, StateInv, OwnerInv, InMain, InCall
  <2>4. JoinInv' /\ JoinAnswersFinalResult'
    BY <1>3, <1>0 DEF MainFinish, Mon!Release, JoinInv, Joiners, JoinAnswersFinalResult, StateInv, OwnerInv, InMain, InCall
  <2> QED
    BY <2>1, <2>2, <2>3, <2>4
<1>4. ASSUME MainExit PROVE Inv'
  <2>1. TypeOK'
    BY <1>4, <1>0 DEF MainExit
  <2>2. OwnerInv'
    BY <1>4, <1>0 DEF MainExit, OwnerInv, InMain, InCall
  <2>3. StateInv'
    BY <1>4, <1>0 DEF MainExit, StateInv, OwnerInv, InMain, InCall
  <2>4. JoinInv' /\ JoinAnswersFinalResult'
    BY <1>4, <1>0 DEF MainExit, JoinInv, Joiners, JoinAnswersFinalResult, StateInv, OwnerInv, InMain, InCall
  <2> QED
    BY <2>1, <2>2, <2>3, <2>4
<1>5. ASSUME CheckPendingSignal PROVE Inv'
  <2>1. TypeOK'
    BY <1>5, <1>0 DEF CheckPendingSignal, Free
  <2>2. OwnerInv'
    BY <1>5, <1>0 DEF CheckPendingSignal, Free, OwnerInv, InMain, InCall
  <2>3. StateInv'
    BY <1>5, <1>0 DEF CheckPendingSignal, Free, StateInv, OwnerInv, InMain, InCall
  <2>4. JoinInv' /\ JoinAnswersFinalResult'
    BY <1>5, <1>0 DEF CheckPendingSignal, Free, JoinInv, Joiners, JoinAnswersFinalResult, StateInv, OwnerInv, InMain, InCall
  <2> QED
    BY <2>1, <2>2, <2>3, <2>4
<1>6. ASSUME PosixSignal PROVE Inv'
  <2>1. TypeOK'
    BY <1>6, <1>0 DEF PosixSignal
  <2>2. OwnerInv'
    BY <1>6, <1>0 DEF PosixSignal, OwnerInv, InMain, InCall
  <2>3. StateInv'
    BY <1>6, <1>0 DEF PosixSignal, StateInv, OwnerInv, InMain, InCall
  <2>4. JoinInv' /\ JoinAnswersFinalResult'
    BY <1>6, <1>0 DEF PosixSignal, JoinInv, Joiners, JoinAnswersFinalResult, StateInv, OwnerInv, InMain, InCall
  <2> QED
    BY <2>1, <2>2, <2>3, <2>4
<1>7. ASSUME NEW t \in Threads, Join(t) PROVE Inv'
  <2>1. TypeOK'
    BY <1>7, <1>0 DEF Join, Free, Mon!Acquire
  <2>2. OwnerInv'
    BY <1>7, <1>0 DEF Join, Free, Mon!Acquire, OwnerInv, InMain, InCall
  <2>3. StateInv'
    BY <1>7, <1>0 DEF Join, Free, Mon!Acquire, StateInv, OwnerInv, InMain, InCall
  <2>4. JoinInv' /\ JoinAnswersFinalResult'
    BY <1>7, <1>0 DEF Join, Free, Mon!Acquire, JoinInv, Joiners, JoinAnswersFinalResult, StateInv, OwnerInv, InMain, InCall
  <2> QED
    BY <2>1, <2>2, <2>3, <2>4
<1>8. ASSUME NEW t \in Threads, JoinLoop(t) PROVE Inv'
  <2>1. TypeOK'
    <3>1. owner' \in [Mutexes -> Threads \cup {NoThread}]
      BY <1>8, <1>0 DEF JoinLoop, Mon!Wait, Mon!Release
    <3>2. waiting' \in [Conds -> SUBSET Threads]
      BY <1>8, <1>0 DEF JoinLoop, Mon!Wait, Mon!Release
    <3>3. pc' \in [Threads -> Labels] /\ answer' \in [Threads -> Answers]
      BY <1>8, <1>0 DEF JoinLoop, Mon!Wait, Mon!Release
    <3>4. joining' \in BOOLEAN /\ detached' \in BOOLEAN
      BY <1>8, <1>0 DEF JoinLoop, Mon!Wait, Mon!Release
    <3> QED
      BY <1>8, <3>1, <3>2, <3>3, <3>4 DEF JoinLoop, Mon!Wait, Mon!Release
  <2>2. OwnerInv'
    BY <1>8, <1>0 DEF JoinLoop, Mon!Wait, Mon!Release, OwnerInv, InMain, InCall
  <2>3. StateInv'
    BY <1>8, <1>0 DEF JoinLoop, Mon!Wait, Mon!Release, StateInv, OwnerInv, InMain, InCall
  <2>4. JoinInv' /\ JoinAnswersFinalResult'
    BY <1>8, <1>0 DEF JoinLoop, Mon!Wait, Mon!Release, JoinInv, Joiners, JoinAnswersFinalResult, StateInv, OwnerInv, InMain, InCall
  <2> QED
    BY <2>1, <2>2, <2>3, <2>4
<1>9. ASSUME NEW t \in Threads, JoinAwake(t) PROVE Inv'
  <2>1. TypeOK'
    BY <1>9, <1>0 DEF JoinAwake, Mon!Acquire
  <2>2. OwnerInv'
    BY <1>9, <1>0 DEF JoinAwake, Mon!Acquire, OwnerInv, InMain, InCall
  <2>3. StateInv'
    BY <1>9, <1>0 DEF JoinAwake, Mon!Acquire, StateInv, OwnerInv, InMain, InCall
  <2>4. JoinInv' /\ JoinAnswersFinalResult'
    BY <1>9, <1>0 DEF JoinAwake, Mon!Acquire, JoinInv, Joiners, JoinAnswersFinalResult, StateInv, OwnerInv, InMain, InCall
  <2> QED
    BY <2>1, <2>2, <2>3, <2>4
<1>10. ASSUME NEW t \in Threads, PthreadJoin(t) PROVE Inv'
  <2>1. TypeOK'
    BY <1>10, <1>0 DEF PthreadJoin
  <2>2. OwnerInv'
    BY <1>10, <1>0 DEF PthreadJoin, OwnerInv, InMain, InCall
  <2>3. StateInv'
    BY <1>10, <1>0 DEF PthreadJoin, StateInv, OwnerInv, InMain, InCall
  <2>4. JoinInv' /\ JoinAnswersFinalResult'
    BY <1>10, <1>0 DEF PthreadJoin, JoinInv, Joiners, JoinAnswersFinalResult, StateInv, OwnerInv, InMain, InCall
  <2> QED
    BY <2>1, <2>2, <2>3, <2>4
<1>11. ASSUME NEW t \in Threads, JoinRelock(t) PROVE Inv'
  <2>1. TypeOK'
    BY <1>11, <1>0 DEF JoinRelock, Mon!Acquire
  <2>2. OwnerInv'
    BY <1>11, <1>0 DEF JoinRelock, Mon!Acquire, OwnerInv, InMain, InCall
  <2>3. StateInv'
    BY <1>11, <1>0 DEF JoinRelock, Mon!Acquire, StateInv, OwnerInv, InMain, InCall
  <2>4. JoinInv' /\ JoinAnswersFinalResult'
    BY <1>11, <1>0 DEF JoinRelock, Mon!Acquire, JoinInv, Joiners, JoinAnswersFinalResult, StateInv, OwnerInv, InMain, InCall
  <2> QED
    BY <2>1, <2>2, <2>3, <2>4
<1>12. ASSUME NEW t \in Threads, JoinSettle(t) PROVE Inv'
  <2>1. TypeOK'
    BY <1>12, <1>0 DEF JoinSettle, Mon!NotifyAll
  <2>2. OwnerInv'
    BY <1>12, <1>0 DEF JoinSettle, Mon!NotifyAll, OwnerInv, InMain, InCall
  <2>3. StateInv'
    BY <1>12, <1>0 DEF JoinSettle, Mon!NotifyAll, StateInv, OwnerInv, InMain, InCall
  <2>4. JoinInv' /\ JoinAnswersFinalResult'
    BY <1>12, <1>0 DEF JoinSettle, Mon!NotifyAll, JoinInv, Joiners, JoinAnswersFinalResult, StateInv, OwnerInv, InMain, InCall
  <2> QED
    BY <2>1, <2>2, <2>3, <2>4
<1>13. ASSUME NEW t \in Threads, MakeDetached(t) PROVE Inv'
  <2>1. TypeOK'
    <3>1. owner' \in [Mutexes -> Threads \cup {NoThread}]
      BY <1>13, <1>0 DEF MakeDetached, Free, Mon!Acquire
    <3>2. waiting' \in [Conds -> SUBSET Threads]
      BY <1>13, <1>0 DEF MakeDetached, Free, Mon!Acquire
    <3>3. pc' \in [Threads -> Labels] /\ answer' \in [Threads -> Answers]
      BY <1>13, <1>0 DEF MakeDetached, Free, Mon!Acquire
    <3>4. joining' \in BOOLEAN /\ detached' \in BOOLEAN
      BY <1>13, <1>0 DEF MakeDetached, Free, Mon!Acquire
    <3> QED
      BY <1>13, <3>1, <3>2, <3>3, <3>4 DEF MakeDetached, Free, Mon!Acquire
  <2>2. OwnerInv'
    BY <1>13, <1>0 DEF MakeDetached, Free, Mon!Acquire, OwnerInv, InMain, InCall
  <2>3. StateInv'
    BY <1>13, <1>0 DEF MakeDetached, Free, Mon!Acquire, StateInv, OwnerInv, InMain, InCall
  <2>4. JoinInv' /\ JoinAnswersFinalResult'
    BY <1>13, <1>0 DEF MakeDetached, Free, Mon!Acquire, JoinInv, Joiners, JoinAnswersFinalResult, StateInv, OwnerInv, InMain, InCall
  <2> QED
    BY <2>1, <2>2, <2>3, <2>4
<1>14. ASSUME NEW t \in Threads, DetachUnlock(t) PROVE Inv'
  <2>1. TypeOK'
    BY <1>14, <1>0 DEF DetachUnlock, Mon!Release
  <2>2. OwnerInv'
    BY <1>14, <1>0 DEF DetachUnlock, Mon!Release, OwnerInv, InMain, InCall
  <2>3. StateInv'
    BY <1>14, <1>0 DEF DetachUnlock, Mon!Release, StateInv, OwnerInv, InMain, InCall
  <2>4. JoinInv' /\ JoinAnswersFinalResult'
    BY <1>14, <1>0 DEF DetachUnlock, Mon!Release, JoinInv, Joiners, JoinAnswersFinalResult, StateInv, OwnerInv, InMain, InCall
  <2> QED
    BY <2>1, <2>2, <2>3, <2>4
<1>15. ASSUME NEW t \in Threads, PthreadDetach(t) PROVE Inv'
  <2>1. TypeOK'
    BY <1>15, <1>0 DEF PthreadDetach
  <2>2. OwnerInv'
    BY <1>15, <1>0 DEF PthreadDetach, OwnerInv, InMain, InCall
  <2>3. StateInv'
    BY <1>15, <1>0 DEF PthreadDetach, StateInv, OwnerInv, InMain, InCall
  <2>4. JoinInv' /\ JoinAnswersFinalResult'
    BY <1>15, <1>0 DEF PthreadDetach, JoinInv, Joiners, JoinAnswersFinalResult, StateInv, OwnerInv, InMain, InCall
  <2> QED
    BY <2>1, <2>2, <2>3, <2>4
<1>16. ASSUME NEW t \in Threads, Signal(t) PROVE Inv'
  <2>1. TypeOK'
    BY <1>16, <1>0 DEF Signal, Free, Mon!Acquire
  <2>2. OwnerInv'
    BY <1>16, <1>0 DEF Signal, Free, Mon!Acquire, OwnerInv, InMain, InCall
  <2>3. StateInv'
    BY <1>16, <1>0 DEF Signal, Free, Mon!Acquire, StateInv, OwnerInv, InMain, InCall
  <2>4. JoinInv' /\ JoinAnswersFinalResult'
    BY <1>16, <1>0 DEF Signal, Free, Mon!Acquire, JoinInv, Joiners, JoinAnswersFinalResult, StateInv, OwnerInv, InMain, InCall
  <2> QED
    BY <2>1, <2>2, <2>3, <2>4
<1>17. ASSUME NEW t \in Threads, SignalCas(t) PROVE Inv'
  <2>1. TypeOK'
    BY <1>17, <1>0 DEF SignalCas
  <2>2. OwnerInv'
    BY <1>17, <1>0 DEF SignalCas, OwnerInv, InMain, InCall
  <2>3. StateInv'
    BY <1>17, <1>0 DEF SignalCas, StateInv, OwnerInv, InMain, InCall
  <2>4. JoinInv' /\ JoinAnswersFinalResult'
    BY <1>17, <1>0 DEF SignalCas, JoinInv, Joiners, JoinAnswersFinalResult, StateInv, OwnerInv, InMain, InCall
  <2> QED
    BY <2>1, <2>2, <2>3, <2>4
<1>18. ASSUME NEW t \in Threads, Unlock(t) PROVE Inv'
  <2>1. TypeOK'
    BY <1>18, <1>0 DEF Unlock, Mon!Release
  <2>2. OwnerInv'
    BY <1>18, <1>0 DEF Unlock, Mon!Release, OwnerInv, InMain, InCall
  <2>3. StateInv'
    BY <1>18, <1>0 DEF Unlock, Mon!Release, StateInv, OwnerInv, InMain, InCall
  <2>4. JoinInv' /\ JoinAnswersFinalResult'
    BY <1>18, <1>0 DEF Unlock, Mon!Release, JoinInv, Joiners, JoinAnswersFinalResult, StateInv, OwnerInv, InMain, InCall
  <2> QED
    BY <2>1, <2>2, <2>3, <2>4
<1>19. ASSUME NEW t \in Threads, SpuriousWakeup(t) PROVE Inv'
  <2>1. TypeOK'
    BY <1>19, <1>0 DEF SpuriousWakeup, Mon!Spurious
  <2>2. OwnerInv'
    BY <1>19, <1>0 DEF SpuriousWakeup, Mon!Spurious, OwnerInv, InMain, InCall
  <2>3. StateInv'
    BY <1>19, <1>0 DEF SpuriousWakeup, Mon!Spurious, StateInv, OwnerInv, InMain, InCall
  <2>4. JoinInv' /\ JoinAnswersFinalResult'
    BY <1>19, <1>0 DEF SpuriousWakeup, Mon!Spurious, JoinInv, Joiners, JoinAnswersFinalResult, StateInv, OwnerInv, InMain, InCall
  <2> QED
    BY <2>1, <2>2, <2>3, <2>4
<1>20. CASE UNCHANGED vars
  BY <1>20 DEF vars, OwnerInv, StateInv, JoinInv, Joiners, JoinAnswersFinalResult, InMain, InCall
<1> QED
  BY <1>1, <1>2, <1>3, <1>4, <1>5, <1>6, <1>7, <1>8, <1>9, <1>10, <1>11, <1>12, <1>13, <1>14, <1>15, <1>16, <1>17, <1>18, <1>19, <1>20 DEF Next, Main, Call, Continue

(* The invariant holds in every run: LT_Thread keeps its mutex, its flags  *)
(* and its native thread consistent for any number of callers. *)
THEOREM ThreadConsistent == Spec => []IInv
<1>1. Inv => IInv
  BY DEF Inv
<1> QED
  BY InitInv, StepInv, <1>1, PTL DEF Spec

(* The assert of LT_Thread_join never fails, and a join that answers with  *)
(* a result does so after thread_main has stored it. *)
THEOREM JoinAnswers == Spec => []JoinAnswersFinalResult
<1>1. Inv => JoinAnswersFinalResult
  BY DEF Inv
<1> QED
  BY InitInv, StepInv, <1>1, PTL DEF Spec

(* One thread at a time is inside pthread_join, on a handle that nobody    *)
(* has reaped. *)
THEOREM OneJoiner == Spec => []OneJoinerAtATime
<1>1. IInv => OneJoinerAtATime
  BY DEF IInv, JoinInv, Joiners, OneJoinerAtATime
<1> QED
  BY ThreadConsistent, <1>1, PTL

(* LT_Thread_signal stores into the thread's state only while the native   *)
(* thread has one. *)
THEOREM SignalIsSafe == Spec => []SignalFindsLiveState
<1>1. IInv => SignalFindsLiveState
  BY DEF IInv, StateInv, SignalFindsLiveState
<1> QED
  BY ThreadConsistent, <1>1, PTL
=============================================================================
