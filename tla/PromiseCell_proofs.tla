------------------------- MODULE PromiseCell_proofs -------------------------
(***************************************************************************)
(* The invariants of PromiseCell hold for any number of threads, promises  *)
(* and values and any nesting of forces.  The argument is one invariant:   *)
(* a promise is being resolved exactly while one thread is inside its      *)
(* thunk, so the thread that settles it finds it without a value, and a    *)
(* thread that has no answer yet remembers none.                           *)
(***************************************************************************)
EXTENDS PromiseCell, TLAPS

(* A call that waits or fails, and a throw, has no answer.                 *)
NoAnswer ==
  \A t \in Threads :
    pc[t] \in {"force_loop", "force_asleep", "unlock_error",
               "throwing", "settle_throw", "unlock_throw"} => answer[t] = NONE

Inv == IInv /\ NoAnswer /\ CallersAgree /\ NobodySleepsOnSettled

(* What the stack of a thread holds after a thunk was entered.             *)
LEMMA Push ==
  ASSUME NEW S, NEW s \in Seq(S), NEW p \in S
  PROVE /\ <<p>> \o s \in Seq(S)
        /\ Len(<<p>> \o s) = Len(s) + 1
        /\ (<<p>> \o s)[1] = p
        /\ \A i \in 2..(Len(s) + 1) : (<<p>> \o s)[i] = s[i - 1]
        /\ \A i \in 1..Len(s) : (<<p>> \o s)[i + 1] = s[i]
OBVIOUS

(* And after the innermost one was left.                                   *)
LEMMA Pop ==
  ASSUME NEW S, NEW s \in Seq(S), s # <<>>
  PROVE /\ Tail(s) \in Seq(S)
        /\ Len(s) \in Nat \ {0}
        /\ Len(Tail(s)) = Len(s) - 1
        /\ s[1] = Head(s)
        /\ \A i \in 1..Len(Tail(s)) : Tail(s)[i] = s[i + 1]
OBVIOUS

(* Nobody is inside a promise that was never forced.                       *)
LEMMA InitInv == Init => Inv
BY PromiseAssumption
DEF Init, Inv, IInv, TypeOK, OwnerInv, CallInv, OneEvaluation, Inside, NoAnswer,
    CallersAgree, NobodySleepsOnSettled, Sections, Labels, Mutexes, Conds,
    Mon!MonitorInit, Mon!MonitorTypeOK

(* Steps that change neither a promise nor a stack: calls, waits, wakeups, *)
(* errors, throws and their catches.                                       *)
LEMMA QuietStep ==
  ASSUME Inv, NEW t \in Threads,
         \/ ForceCall(t) \/ ForceAwake(t) \/ Value(t) \/ ThunkReturns(t) \/ Catch(t)
         \/ Unwind(t) \/ SettleLock(t) \/ Unlock(t) \/ SpuriousWakeup(t)
  PROVE  Inv'
<1> USE PromiseAssumption
    DEF Inv, IInv, TypeOK, Mon!MonitorTypeOK, Labels, Mutexes, Conds, Goto, Answer,
        monitor, cell
<1>0. UNCHANGED <<cell, stack>>
  BY DEF ForceCall, ForceAwake, Value, ThunkReturns, Catch, Unwind, SettleLock, Unlock,
         SpuriousWakeup
<1>1. OneEvaluation'
  BY <1>0 DEF OneEvaluation, Inside
<1>2. CASE ForceCall(t)
  <2> USE <1>2, <1>0 DEF ForceCall, Mon!Acquire
  <2>1. TypeOK'
    OBVIOUS
  <2>2. OwnerInv' /\ CallInv'
    BY DEF OwnerInv, CallInv, Sections
  <2>3. NoAnswer' /\ CallersAgree' /\ NobodySleepsOnSettled'
    BY DEF NoAnswer, CallersAgree, NobodySleepsOnSettled
  <2> QED
    BY <1>1, <2>1, <2>2, <2>3
<1>3. CASE ForceAwake(t)
  <2> USE <1>3, <1>0 DEF ForceAwake, Mon!Acquire
  <2>1. TypeOK'
    OBVIOUS
  <2>2. OwnerInv' /\ CallInv'
    BY DEF OwnerInv, CallInv, Sections
  <2>3. NoAnswer' /\ CallersAgree' /\ NobodySleepsOnSettled'
    BY DEF NoAnswer, CallersAgree, NobodySleepsOnSettled
  <2> QED
    BY <1>1, <2>1, <2>2, <2>3
<1>4. CASE Value(t)
  <2>0. PICK p \in Promises :
          /\ Mon!Acquire(t, p)
          /\ target' = [target EXCEPT ![t] = p]
          /\ \/ value[p] # NONE /\ Answer(t, value[p]) /\ Goto(t, "unlock")
             \/ value[p] = NONE /\ Answer(t, NONE) /\ Goto(t, "unlock_error")
    BY <1>4 DEF Value
  <2> USE <1>0, <2>0 DEF Mon!Acquire
  <2>1. TypeOK'
    OBVIOUS
  <2>2. OwnerInv' /\ CallInv'
    BY <1>4 DEF OwnerInv, CallInv, Sections, Value
  <2>3. UNCHANGED value
    BY <1>0
  <2>4. \A u \in Threads \ {t} : /\ pc'[u] = pc[u]
                                /\ answer'[u] = answer[u]
                                /\ target'[u] = target[u]
    BY <2>0
  <2>5. target'[t] = p /\ \/ pc'[t] = "unlock" /\ answer'[t] = value[p]
                          \/ pc'[t] = "unlock_error" /\ answer'[t] = NONE
    BY <2>0
  <2>6. NoAnswer'
    BY <2>4, <2>5 DEF NoAnswer
  <2>7. CallersAgree'
    BY <2>3, <2>4, <2>5 DEF CallersAgree
  <2>8. NobodySleepsOnSettled'
    BY DEF NobodySleepsOnSettled
  <2> QED
    BY <1>1, <2>1, <2>2, <2>6, <2>7, <2>8
<1>5. CASE ThunkReturns(t)
  <2> USE <1>5, <1>0 DEF ThunkReturns
  <2>0. Head(stack[t]) \in Promises
    BY Pop
  <2>1. TypeOK'
    BY <2>0
  <2>2. OwnerInv' /\ CallInv'
    BY <2>0 DEF OwnerInv, CallInv, Sections
  <2>3. NoAnswer' /\ CallersAgree' /\ NobodySleepsOnSettled'
    BY <2>0 DEF NoAnswer, CallersAgree, NobodySleepsOnSettled
  <2> QED
    BY <1>1, <2>1, <2>2, <2>3
<1>6. CASE Catch(t)
  <2> USE <1>6, <1>0 DEF Catch
  <2>1. TypeOK'
    OBVIOUS
  <2>2. OwnerInv' /\ CallInv'
    BY DEF OwnerInv, CallInv, Sections
  <2>3. NoAnswer' /\ CallersAgree' /\ NobodySleepsOnSettled'
    BY DEF NoAnswer, CallersAgree, NobodySleepsOnSettled
  <2> QED
    BY <1>1, <2>1, <2>2, <2>3
<1>7. CASE Unwind(t)
  <2> USE <1>7, <1>0 DEF Unwind, Mon!Acquire
  <2>0. Head(stack[t]) \in Promises
    BY Pop
  <2>1. TypeOK'
    BY <2>0
  <2>2. OwnerInv' /\ CallInv'
    BY <2>0 DEF OwnerInv, CallInv, Sections
  <2>3. NoAnswer' /\ CallersAgree' /\ NobodySleepsOnSettled'
    BY <2>0 DEF NoAnswer, CallersAgree, NobodySleepsOnSettled
  <2> QED
    BY <1>1, <2>1, <2>2, <2>3
<1>8. CASE SettleLock(t)
  <2> USE <1>8, <1>0 DEF SettleLock, Mon!Acquire
  <2>1. TypeOK'
    OBVIOUS
  <2>2. OwnerInv' /\ CallInv'
    BY DEF OwnerInv, CallInv, Sections
  <2>3. NoAnswer' /\ CallersAgree' /\ NobodySleepsOnSettled'
    BY DEF NoAnswer, CallersAgree, NobodySleepsOnSettled
  <2> QED
    BY <1>1, <2>1, <2>2, <2>3
<1>9. CASE Unlock(t)
  <2> USE <1>9, <1>0 DEF Unlock, Mon!Release
  <2>1. TypeOK'
    OBVIOUS
  <2>2. OwnerInv' /\ CallInv'
    BY DEF OwnerInv, CallInv, Sections
  <2>3. NoAnswer' /\ CallersAgree' /\ NobodySleepsOnSettled'
    BY DEF NoAnswer, CallersAgree, NobodySleepsOnSettled
  <2> QED
    BY <1>1, <2>1, <2>2, <2>3
<1>10. CASE SpuriousWakeup(t)
  <2> USE <1>10, <1>0 DEF SpuriousWakeup, Mon!Spurious
  <2>1. TypeOK'
    OBVIOUS
  <2>2. OwnerInv' /\ CallInv'
    BY DEF OwnerInv, CallInv, Sections
  <2>3. NoAnswer' /\ CallersAgree' /\ NobodySleepsOnSettled'
    BY DEF NoAnswer, CallersAgree, NobodySleepsOnSettled
  <2> QED
    BY <1>1, <2>1, <2>2, <2>3
<1> QED
  BY <1>2, <1>3, <1>4, <1>5, <1>6, <1>7, <1>8, <1>9, <1>10

(* A force that finds the promise resolving, or with a value.              *)
LEMMA ForceLoopWaits ==
  ASSUME Inv, NEW t \in Threads, ForceLoop(t),
         resolving[target[t]] \/ value[target[t]] # NONE
  PROVE  Inv'
<1> DEFINE p == target[t]
<1> USE PromiseAssumption
    DEF Inv, IInv, TypeOK, Mon!MonitorTypeOK, Labels, Mutexes, Conds, Goto, Answer,
        monitor, cell
<1>0. p \in Promises /\ pc[t] = "force_loop" /\ UNCHANGED <<cell, stack, target>>
  BY DEF ForceLoop
<1>1. OneEvaluation'
  BY <1>0 DEF OneEvaluation, Inside
<1>2. CASE resolving[p] /\ resolving_thread[p] = t
  <2>0. Goto(t, "unlock_error") /\ UNCHANGED <<monitor, answer>>
    BY <1>2 DEF ForceLoop
  <2>1. TypeOK' /\ OwnerInv' /\ CallInv'
    BY <1>0, <2>0 DEF OwnerInv, CallInv, Sections
  <2>2. NoAnswer' /\ CallersAgree' /\ NobodySleepsOnSettled'
    BY <1>0, <2>0 DEF NoAnswer, CallersAgree, NobodySleepsOnSettled
  <2> QED
    BY <1>1, <2>1, <2>2
<1>3. CASE resolving[p] /\ resolving_thread[p] # t
  <2>0. Mon!Wait(t, p, p) /\ Goto(t, "force_asleep") /\ UNCHANGED answer
    BY <1>3 DEF ForceLoop
  <2>1. TypeOK'
    BY <1>0, <2>0 DEF Mon!Wait
  <2>2. OwnerInv' /\ CallInv'
    BY <1>0, <2>0 DEF OwnerInv, CallInv, Sections, Mon!Wait
  <2>3. NoAnswer' /\ CallersAgree' /\ NobodySleepsOnSettled'
    BY <1>0, <1>3, <2>0 DEF NoAnswer, CallersAgree, NobodySleepsOnSettled, Mon!Wait
  <2> QED
    BY <1>1, <2>1, <2>2, <2>3
<1>4. CASE ~resolving[p] /\ value[p] # NONE
  <2>0. Answer(t, value[p]) /\ Goto(t, "unlock") /\ UNCHANGED monitor
    BY <1>4 DEF ForceLoop
  <2>1. TypeOK' /\ OwnerInv' /\ CallInv'
    BY <1>0, <2>0 DEF OwnerInv, CallInv, Sections
  <2>2. NoAnswer' /\ CallersAgree' /\ NobodySleepsOnSettled'
    BY <1>0, <2>0 DEF NoAnswer, CallersAgree, NobodySleepsOnSettled
  <2> QED
    BY <1>1, <2>1, <2>2
<1> QED
  BY <1>0, <1>2, <1>3, <1>4

(* A force that enters the thunk.  Nobody was inside it, so the thread is  *)
(* inside it once and is the only one.                                     *)
LEMMA ForceLoopEnters ==
  ASSUME Inv, NEW t \in Threads, ForceLoop(t),
         ~resolving[target[t]], value[target[t]] = NONE
  PROVE  Inv'
<1> DEFINE p == target[t]
<1> USE PromiseAssumption
    DEF Inv, IInv, TypeOK, Mon!MonitorTypeOK, Labels, Mutexes, Conds, Goto
<1>0. /\ p \in Promises
      /\ pc[t] = "force_loop"
      /\ resolving' = [resolving EXCEPT ![p] = TRUE]
      /\ resolving_thread' = [resolving_thread EXCEPT ![p] = t]
      /\ Mon!Release(t, p)
      /\ stack' = [stack EXCEPT ![t] = <<p>> \o stack[t]]
      /\ Goto(t, "run")
      /\ UNCHANGED <<value, answer, target>>
  BY DEF ForceLoop
<1> HIDE DEF p
<1>1. stack[t] \in Seq(Promises)
  OBVIOUS
<1>2. /\ stack'[t] \in Seq(Promises)
      /\ Len(stack'[t]) = Len(stack[t]) + 1
      /\ stack'[t][1] = p
      /\ \A i \in 2..(Len(stack[t]) + 1) : stack'[t][i] = stack[t][i - 1]
      /\ \A i \in 1..Len(stack[t]) : stack'[t][i + 1] = stack[t][i]
  BY <1>0, <1>1, Push
<1>3. Len(stack[t]) \in Nat
  BY <1>1
<1>4. TypeOK'
  <2>1. stack' \in [Threads -> Seq(Promises)]
    BY <1>0, <1>2
  <2> QED
    BY <1>0, <2>1 DEF Mon!Release
<1>5. OwnerInv'
  BY <1>0 DEF OwnerInv, Sections, Mon!Release, p
<1>6. CallInv'
  BY <1>0 DEF CallInv
<1>7. \A q \in Promises : ~Inside(t, p) /\ (Inside(t, q)' <=> (Inside(t, q) \/ q = p))
  <2>1. ~Inside(t, p)
    BY <1>0 DEF OneEvaluation, p
  <2>2. ASSUME NEW q \in Promises PROVE Inside(t, q)' <=> (Inside(t, q) \/ q = p)
    <3>1. ASSUME Inside(t, q)' PROVE Inside(t, q) \/ q = p
      <4>1. PICK i \in 1..Len(stack'[t]) : stack'[t][i] = q
        BY <3>1 DEF Inside
      <4>2. CASE i = 1
        BY <4>1, <4>2, <1>2
      <4>3. CASE i # 1
        <5>1. i - 1 \in 1..Len(stack[t]) /\ i \in 2..(Len(stack[t]) + 1)
          BY <4>3, <1>2, <1>3
        <5> QED
          BY <5>1, <4>1, <1>2 DEF Inside
      <4> QED
        BY <4>2, <4>3
    <3>2. ASSUME Inside(t, q) PROVE Inside(t, q)'
      <4>1. PICK i \in 1..Len(stack[t]) : stack[t][i] = q
        BY <3>2 DEF Inside
      <4>2. i + 1 \in 1..Len(stack'[t]) /\ stack'[t][i + 1] = q
        BY <4>1, <1>2, <1>3
      <4> QED
        BY <4>2 DEF Inside
    <3>3. ASSUME q = p PROVE Inside(t, q)'
      <4>1. 1 \in 1..Len(stack'[t])
        BY <1>2, <1>3
      <4> QED
        BY <3>3, <4>1, <1>2 DEF Inside
    <3> QED
      BY <3>1, <3>2, <3>3
  <2> QED
    BY <2>1, <2>2
<1>8. \A u \in Threads \ {t} : stack'[u] = stack[u]
  BY <1>0
<1>9. OneEvaluation'
  <2>1. \A q \in Promises, u \in Threads :
          Inside(u, q)' <=> resolving'[q] /\ resolving_thread'[q] = u
    <3> TAKE q \in Promises, u \in Threads
    <3>1. CASE u = t
      BY <3>1, <1>0, <1>7 DEF OneEvaluation
    <3>2. CASE u # t
      <4>1. Inside(u, q)' <=> Inside(u, q)
        BY <3>2, <1>8 DEF Inside
      <4> QED
        BY <3>2, <4>1, <1>0 DEF OneEvaluation, p
    <3> QED
      BY <3>1, <3>2
  <2>2. \A u \in Threads : \A i, j \in 1..Len(stack'[u]) :
          stack'[u][i] = stack'[u][j] => i = j
    <3> TAKE u \in Threads
    <3>1. CASE u = t
      <4>1. \A i \in 2..Len(stack'[t]) : i - 1 \in 1..Len(stack[t]) /\ stack'[t][i] # p
        BY <1>2, <1>3, <1>7 DEF Inside
      <4>2. ASSUME NEW i \in 1..Len(stack'[t]), NEW j \in 1..Len(stack'[t]),
                   stack'[t][i] = stack'[t][j]
            PROVE  i = j
        <5>1. CASE i = 1 \/ j = 1
          <6>1. i \in 2..Len(stack'[t]) => stack'[t][i] # p
            BY <4>1
          <6>2. j \in 2..Len(stack'[t]) => stack'[t][j] # p
            BY <4>1
          <6> QED
            BY <5>1, <6>1, <6>2, <4>2, <1>2, <1>3
        <5>2. CASE i # 1 /\ j # 1
          <6>1. /\ i - 1 \in 1..Len(stack[t]) /\ j - 1 \in 1..Len(stack[t])
                /\ stack[t][i - 1] = stack[t][j - 1]
            BY <5>2, <4>2, <1>2, <1>3
          <6>2. i - 1 = j - 1
            BY <6>1 DEF OneEvaluation
          <6> QED
            BY <6>2, <1>2, <1>3
        <5> QED
          BY <5>1, <5>2
      <4> QED
        BY <3>1, <4>2
    <3>2. CASE u # t
      BY <3>2, <1>8 DEF OneEvaluation
    <3> QED
      BY <3>1, <3>2
  <2>3. \A q \in Promises : resolving'[q] => value'[q] = NONE
    BY <1>0 DEF OneEvaluation, p
  <2> QED
    BY <2>1, <2>2, <2>3 DEF OneEvaluation, Inside
<1>10. NoAnswer' /\ CallersAgree'
  BY <1>0 DEF NoAnswer, CallersAgree
<1>11. NobodySleepsOnSettled'
  BY <1>0 DEF NobodySleepsOnSettled, Mon!Release
<1> QED
  BY <1>4, <1>5, <1>6, <1>9, <1>10, <1>11

(* The end of a thunk.  The thread was inside it once, so it is not inside *)
(* it any more; and it was the one the promise was waiting for, so there   *)
(* was no value yet that the new one could replace.                        *)
LEMMA SettleStep ==
  ASSUME Inv, NEW t \in Threads, Settle(t)
  PROVE  Inv'
<1> DEFINE p == target[t]
<1> USE PromiseAssumption
    DEF Inv, IInv, TypeOK, Mon!MonitorTypeOK, Labels, Mutexes, Conds, Goto
<1>0. /\ p \in Promises
      /\ \/ /\ pc[t] = "settle"
            /\ value' = [value EXCEPT ![p] = answer[t]]
            /\ Goto(t, "unlock")
         \/ /\ pc[t] = "settle_throw"
            /\ UNCHANGED value
            /\ Goto(t, "unlock_throw")
      /\ resolving' = [resolving EXCEPT ![p] = FALSE]
      /\ resolving_thread' = [resolving_thread EXCEPT ![p] = NoThread]
      /\ Mon!NotifyAll(p)
      /\ stack' = [stack EXCEPT ![t] = Tail(stack[t])]
      /\ UNCHANGED <<target, answer>>
  BY DEF Settle
<1>1. stack[t] \in Seq(Promises) /\ stack[t] # <<>> /\ Head(stack[t]) = p
  BY <1>0 DEF CallInv
<1>2. /\ stack'[t] \in Seq(Promises)
      /\ Len(stack[t]) \in Nat \ {0}
      /\ Len(stack'[t]) = Len(stack[t]) - 1
      /\ stack[t][1] = p
      /\ \A i \in 1..Len(stack'[t]) : stack'[t][i] = stack[t][i + 1]
  BY <1>0, <1>1, Pop
<1>3. \A u \in Threads \ {t} : stack'[u] = stack[u]
  BY <1>0
<1>4. \A i \in 1..Len(stack'[t]) : stack'[t][i] # p
  <2> TAKE i \in 1..Len(stack'[t])
  <2>1. 1 \in 1..Len(stack[t]) /\ i + 1 \in 1..Len(stack[t]) /\ i + 1 # 1
    BY <1>2
  <2>2. stack[t][1] # stack[t][i + 1]
    BY <2>1 DEF OneEvaluation
  <2> QED
    BY <2>2, <1>2
<1>5. resolving[p] /\ resolving_thread[p] = t /\ value[p] = NONE
  <2>1. Inside(t, p)
    BY <1>2 DEF Inside
  <2> QED
    BY <1>0, <2>1 DEF OneEvaluation
<1>6. \A u \in Threads : answer[u] # NONE /\ pc[u] \in {"run", "unlock"} => target[u] # p
  BY <1>5 DEF CallersAgree
<1> HIDE DEF p
<1>7. TypeOK'
  <2>1. stack' \in [Threads -> Seq(Promises)]
    BY <1>0, <1>2
  <2>2. value' \in [Promises -> Values \cup {NONE}]
    BY <1>0
  <2>3. pc' \in [Threads -> Labels]
    BY <1>0
  <2>4. waiting' \in [Promises -> SUBSET Threads] /\ UNCHANGED owner
    BY <1>0 DEF Mon!NotifyAll
  <2> QED
    BY <1>0, <2>1, <2>2, <2>3, <2>4
<1>8. OwnerInv'
  BY <1>0 DEF OwnerInv, Sections, Mon!NotifyAll
<1>9. CallInv'
  BY <1>0, <1>3 DEF CallInv
<1>10. \A q \in Promises : Inside(t, q)' <=> Inside(t, q) /\ q # p
  <2> TAKE q \in Promises
  <2>1. ASSUME Inside(t, q)' PROVE Inside(t, q) /\ q # p
    <3>1. PICK i \in 1..Len(stack'[t]) : stack'[t][i] = q
      BY <2>1 DEF Inside
    <3>2. i + 1 \in 1..Len(stack[t]) /\ stack[t][i + 1] = q
      BY <3>1, <1>2
    <3> QED
      BY <3>1, <3>2, <1>4 DEF Inside
  <2>2. ASSUME Inside(t, q), q # p PROVE Inside(t, q)'
    <3>1. PICK i \in 1..Len(stack[t]) : stack[t][i] = q
      BY <2>2 DEF Inside
    <3>2. i - 1 \in 1..Len(stack'[t]) /\ (i - 1) + 1 = i
      BY <3>1, <2>2, <1>2
    <3>3. stack'[t][i - 1] = q
      BY <3>1, <3>2, <1>2
    <3> QED
      BY <3>2, <3>3 DEF Inside
  <2> QED
    BY <2>1, <2>2
<1>11. OneEvaluation'
  <2>1. \A q \in Promises, u \in Threads :
          Inside(u, q)' <=> resolving'[q] /\ resolving_thread'[q] = u
    <3> TAKE q \in Promises, u \in Threads
    <3>1. CASE u = t
      BY <3>1, <1>0, <1>10 DEF OneEvaluation
    <3>2. CASE u # t
      <4>1. Inside(u, q)' <=> Inside(u, q)
        BY <3>2, <1>3 DEF Inside
      <4> QED
        BY <3>2, <4>1, <1>0, <1>5 DEF OneEvaluation
    <3> QED
      BY <3>1, <3>2
  <2>2. \A u \in Threads : \A i, j \in 1..Len(stack'[u]) :
          stack'[u][i] = stack'[u][j] => i = j
    <3> TAKE u \in Threads
    <3>1. CASE u = t
      <4>1. ASSUME NEW i \in 1..Len(stack'[t]), NEW j \in 1..Len(stack'[t]),
                   stack'[t][i] = stack'[t][j]
            PROVE  i = j
        <5>1. /\ i + 1 \in 1..Len(stack[t]) /\ j + 1 \in 1..Len(stack[t])
              /\ stack[t][i + 1] = stack[t][j + 1]
          BY <4>1, <1>2
        <5>2. i + 1 = j + 1
          BY <5>1 DEF OneEvaluation
        <5> QED
          BY <5>2, <1>2
      <4> QED
        BY <3>1, <4>1
    <3>2. CASE u # t
      BY <3>2, <1>3 DEF OneEvaluation
    <3> QED
      BY <3>1, <3>2
  <2>3. \A q \in Promises : resolving'[q] => value'[q] = NONE
    BY <1>0 DEF OneEvaluation
  <2> QED
    BY <2>1, <2>2, <2>3 DEF OneEvaluation, Inside
<1>12. NoAnswer'
  BY <1>0 DEF NoAnswer
<1>13. CallersAgree'
  <2> SUFFICES ASSUME NEW u \in Threads, pc'[u] \in {"run", "unlock"}, answer'[u] # NONE
               PROVE  answer'[u] = value'[target'[u]]
    BY DEF CallersAgree
  <2>1. CASE u = t
    BY <2>1, <1>0 DEF p
  <2>2. CASE u # t
    <3>1. pc[u] \in {"run", "unlock"} /\ answer[u] # NONE
      BY <2>2, <1>0
    <3>2. target[u] # p /\ answer[u] = value[target[u]]
      BY <3>1, <1>6 DEF CallersAgree
    <3> QED
      BY <3>2, <1>0
  <2> QED
    BY <2>1, <2>2
<1>14. NobodySleepsOnSettled'
  BY <1>0 DEF NobodySleepsOnSettled, Mon!NotifyAll
<1> QED
  BY <1>7, <1>8, <1>9, <1>11, <1>12, <1>13, <1>14

(* Every step of every thread keeps the invariant.                         *)
LEMMA StepInv == Inv /\ [Next]_vars => Inv'
<1> SUFFICES ASSUME Inv, [Next]_vars PROVE Inv'
  OBVIOUS
<1>1. ASSUME NEW t \in Threads, ForceLoop(t) PROVE Inv'
  BY <1>1, ForceLoopWaits, ForceLoopEnters
<1>2. ASSUME NEW t \in Threads, Settle(t) PROVE Inv'
  BY <1>2, SettleStep
<1>3. ASSUME NEW t \in Threads, ~ForceLoop(t), ~Settle(t),
             Call(t) \/ ThunkEnds(t) \/ Continue(t) \/ SpuriousWakeup(t)
      PROVE  Inv'
  BY <1>3, QuietStep DEF Call, ThunkEnds, Continue
<1>4. ASSUME UNCHANGED vars PROVE Inv'
  BY <1>4
  DEF vars, Inv, IInv, TypeOK, OwnerInv, CallInv, OneEvaluation, Inside, NoAnswer,
      CallersAgree, NobodySleepsOnSettled, Mon!MonitorTypeOK
<1> QED
  BY <1>1, <1>2, <1>3, <1>4 DEF Next

(* However forces nest and whichever way thunks end, the bits of a promise *)
(* tell which thread is inside its thunk, the mutex is held by whoever is  *)
(* in a critical section, and every thread stands where its call says.     *)
THEOREM PromiseInvariant == Spec => []IInv
<1>1. Inv => IInv
  BY DEF Inv
<1> QED
  BY <1>1, InitInv, StepInv, PTL DEF Spec

(* "Delayed computation evaluated at most once when forced": what a thread *)
(* was answered by a promise stays the value of the promise.               *)
THEOREM EveryCallerAgrees == Spec => []CallersAgree
<1>1. Inv => CallersAgree
  BY DEF Inv
<1> QED
  BY <1>1, InitInv, StepInv, PTL DEF Spec

(* Nobody sleeps on a promise whose evaluation ended, by a throw or not.   *)
THEOREM NoSleeperIsForgotten == Spec => []NobodySleepsOnSettled
<1>1. Inv => NobodySleepsOnSettled
  BY DEF Inv
<1> QED
  BY <1>1, InitInv, StepInv, PTL DEF Spec

(* The steps that change a value change that of a promise without one, and *)
(* whoever is inside a thunk is inside that of a promise without a value.  *)
LEMMA StepKeepsValues ==
  Inv /\ Inv' /\ [Next]_vars =>
    \A p \in Promises : value[p] # NONE =>
      /\ value'[p] = value[p]
      /\ \A t \in Threads : ~Inside(t, p)'
<1> SUFFICES ASSUME Inv, Inv', [Next]_vars, NEW p \in Promises, value[p] # NONE
             PROVE  value'[p] = value[p] /\ \A t \in Threads : ~Inside(t, p)'
  OBVIOUS
<1>1. value'[p] = value[p]
  <2>1. ASSUME NEW t \in Threads, Settle(t) PROVE value'[p] = value[p]
    <3>1. target[t] \in Promises /\ stack[t] \in Seq(Promises)
      BY DEF Inv, IInv, TypeOK
    <3>2. stack[t] # <<>> /\ Head(stack[t]) = target[t]
      BY <2>1 DEF Settle, Inv, IInv, CallInv
    <3>3. Inside(t, target[t])
      BY <3>1, <3>2, Pop DEF Inside
    <3>4. value[target[t]] = NONE
      BY <3>1, <3>3 DEF Inv, IInv, OneEvaluation
    <3> QED
      BY <2>1, <3>4 DEF Settle, Inv, IInv, TypeOK
  <2>2. ASSUME NEW t \in Threads, ~Settle(t),
               Call(t) \/ ThunkEnds(t) \/ Continue(t) \/ SpuriousWakeup(t)
        PROVE  UNCHANGED value
    BY <2>2
    DEF Call, ThunkEnds, Continue, ForceCall, Value, ThunkReturns, Unwind, ForceLoop,
        ForceAwake, Catch, SettleLock, Unlock, SpuriousWakeup, cell
  <2>3. ASSUME UNCHANGED vars PROVE value'[p] = value[p]
    BY <2>3 DEF vars
  <2> QED
    BY <2>1, <2>2, <2>3 DEF Next
<1>2. ~resolving'[p]
  BY <1>1 DEF Inv, IInv, OneEvaluation
<1> QED
  BY <1>1, <1>2 DEF Inv, IInv, OneEvaluation, Inside

(* Once a thunk has returned its value stays and it is never entered       *)
(* again, also by a thread that began to force the promise before.         *)
THEOREM NeverEvaluatedTwice == Spec => EvaluatedOnce
<1>1. Inv /\ Inv' /\ [Next]_vars =>
        [\A p \in Promises : value[p] # NONE =>
           /\ value'[p] = value[p]
           /\ \A t \in Threads : ~Inside(t, p)']_vars
  BY StepKeepsValues
<1> QED
  BY <1>1, InitInv, StepInv, PTL DEF Spec, EvaluatedOnce
====
