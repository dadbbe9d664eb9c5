---------------------------- MODULE PromiseCell ----------------------------
(***************************************************************************)
(* src/src/classes/Promise.c: threads force promises, and the thunk of a   *)
(* promise may force others.  A throw out of a thunk passes through the    *)
(* unwind-protect of LT_Promise_force, which leaves the promise delayed.   *)
(* Every promise has a mutex and a condition, those of Monitor.            *)
(***************************************************************************)
EXTENDS Naturals, Sequences

CONSTANTS Threads, Promises, Values,
          NONE,       \* the value of a promise that has none
          NoThread

ASSUME PromiseAssumption == NoThread \notin Threads /\ NONE \notin Values

Mutexes == Promises
Conds == Promises

VARIABLES
  owner, waiting,     \* the monitor: lock and cond of each promise
  value,              \* LT_Promise.value, NONE while has_value is 0
  resolving,          \* LT_Promise.resolving
  resolving_thread,   \* NoThread while resolving_thread_valid is 0
  stack,   \* the promises whose thunks a thread is inside, innermost first
  target,  \* the promise of the call a thread is in
  pc,
  answer   \* what the last call of a thread returned, or its thunk

monitor == <<owner, waiting>>
cell == <<value, resolving, resolving_thread>>
vars == <<owner, waiting, value, resolving, resolving_thread,
          stack, target, pc, answer>>

Mon == INSTANCE Monitor

Labels == {"run", "force_loop", "force_asleep", "unlock", "unlock_error",
           "returned", "settle", "throwing", "settle_throw", "unlock_throw"}

TypeOK == /\ Mon!MonitorTypeOK
          /\ value \in [Promises -> Values \cup {NONE}]
          /\ resolving \in [Promises -> BOOLEAN]
          /\ resolving_thread \in [Promises -> Threads \cup {NoThread}]
          /\ stack \in [Threads -> Seq(Promises)]
          /\ target \in [Threads -> Promises]
          /\ pc \in [Threads -> Labels]
          /\ answer \in [Threads -> Values \cup {NONE}]

(* LT_Promise_delay. *)
Init == /\ Mon!MonitorInit
        /\ value = [p \in Promises |-> NONE]
        /\ resolving = [p \in Promises |-> FALSE]
        /\ resolving_thread = [p \in Promises |-> NoThread]
        /\ stack = [t \in Threads |-> <<>>]
        /\ target \in [Threads -> Promises]
        /\ pc = [t \in Threads |-> "run"]
        /\ answer = [t \in Threads |-> NONE]

Goto(t, l) == pc' = [pc EXCEPT ![t] = l]
Answer(t, v) == answer' = [answer EXCEPT ![t] = v]

-----------------------------------------------------------------------------
(* A call of LT_Promise_force, from outside any thunk or from inside one. *)
ForceCall(t) == /\ pc[t] = "run"
            /\ \E p \in Promises : /\ Mon!Acquire(t, p)
                                   /\ target' = [target EXCEPT ![t] = p]
            /\ Answer(t, NONE)
            /\ Goto(t, "force_loop")
            /\ UNCHANGED <<cell, stack>>

(* A mistake for the model checker to find: a waiter forgets that the       *)
(* promise may have got its value meanwhile. *)
ForceLoopAgain(t) ==
  LET p == target[t] IN
  /\ pc[t] = "force_loop"
  /\ \/ /\ resolving[p]
        /\ Mon!Wait(t, p, p)
        /\ Goto(t, "force_asleep")
        /\ UNCHANGED <<cell, stack>>
     \/ /\ ~resolving[p]
        /\ resolving' = [resolving EXCEPT ![p] = TRUE]
        /\ resolving_thread' = [resolving_thread EXCEPT ![p] = t]
        /\ Mon!Release(t, p)
        /\ stack' = [stack EXCEPT ![t] = <<p>> \o @]
        /\ Goto(t, "run")
        /\ UNCHANGED value
  /\ UNCHANGED <<target, answer>>

(* Mistake: the error of a force from inside the own thunk leaves the      *)
(* mutex locked. *)
ForceLoopKeepsLock(t) ==
  LET p == target[t] IN
  /\ pc[t] = "force_loop"
  /\ \/ /\ resolving[p] /\ resolving_thread[p] = t
        /\ Goto(t, "throwing")
        /\ UNCHANGED <<monitor, cell, stack>>
     \/ /\ ~resolving[p] /\ value[p] = NONE
        /\ resolving' = [resolving EXCEPT ![p] = TRUE]
        /\ resolving_thread' = [resolving_thread EXCEPT ![p] = t]
        /\ Mon!Release(t, p)
        /\ stack' = [stack EXCEPT ![t] = <<p>> \o @]
        /\ Goto(t, "run")
        /\ UNCHANGED value
  /\ UNCHANGED <<target, answer>>

ForceLoop(t) ==
  LET p == target[t] IN
  /\ pc[t] = "force_loop"
  /\ \/ /\ resolving[p] /\ resolving_thread[p] = t
        /\ Goto(t, "unlock_error")
        /\ UNCHANGED <<monitor, cell, stack, answer>>
     \/ /\ resolving[p] /\ resolving_thread[p] # t
        /\ Mon!Wait(t, p, p)
        /\ Goto(t, "force_asleep")
        /\ UNCHANGED <<cell, stack, answer>>
     \/ /\ ~resolving[p] /\ value[p] # NONE
        /\ Answer(t, value[p])
        /\ Goto(t, "unlock")
        /\ UNCHANGED <<monitor, cell, stack>>
     \/ /\ ~resolving[p] /\ value[p] = NONE
        /\ resolving' = [resolving EXCEPT ![p] = TRUE]
        /\ resolving_thread' = [resolving_thread EXCEPT ![p] = t]
        /\ Mon!Release(t, p)
        /\ stack' = [stack EXCEPT ![t] = <<p>> \o @]
        /\ Goto(t, "run")
        /\ UNCHANGED <<value, answer>>
  /\ UNCHANGED target

ForceAwake(t) == /\ pc[t] = "force_asleep"
                 /\ t \notin waiting[target[t]]
                 /\ Mon!Acquire(t, target[t])
                 /\ Goto(t, "force_loop")
                 /\ UNCHANGED <<cell, stack, target, answer>>

(* LT_Promise_value: an error while there is no value. *)
Value(t) == /\ pc[t] = "run"
            /\ \E p \in Promises :
                 /\ Mon!Acquire(t, p)
                 /\ target' = [target EXCEPT ![t] = p]
                 /\ \/ value[p] # NONE /\ Answer(t, value[p]) /\ Goto(t, "unlock")
                    \/ value[p] = NONE /\ Answer(t, NONE) /\ Goto(t, "unlock_error")
            /\ UNCHANGED <<cell, stack>>

-----------------------------------------------------------------------------
(* The innermost thunk of a thread returns a value. *)
ThunkReturns(t) == /\ pc[t] = "run" /\ stack[t] # <<>>
                   /\ \E v \in Values : Answer(t, v)
                   /\ target' = [target EXCEPT ![t] = Head(stack[t])]
                   /\ Goto(t, "returned")
                   /\ UNCHANGED <<monitor, cell, stack>>

(* The throw of a failed call ends at a catch of the code that made the    *)
(* call, be that a thunk or not. *)
Catch(t) == /\ pc[t] = "throwing"
            /\ Goto(t, "run")
            /\ UNCHANGED <<monitor, cell, stack, target, answer>>

(* Such a throw, or one of the thunk itself, reaches the unwind-protect of *)
(* the innermost force. *)
Unwind(t) == /\ pc[t] \in {"run", "throwing"} /\ stack[t] # <<>>
             /\ Mon!Acquire(t, Head(stack[t]))
             /\ target' = [target EXCEPT ![t] = Head(stack[t])]
             /\ Answer(t, NONE)
             /\ Goto(t, "settle_throw")
             /\ UNCHANGED <<cell, stack>>

SettleLock(t) == /\ pc[t] = "returned"
                 /\ Mon!Acquire(t, target[t])
                 /\ Goto(t, "settle")
                 /\ UNCHANGED <<cell, stack, target, answer>>

(* Mistake: a throw does not pass through the cleanup. *)
SettleNoUnwind(t) ==
  LET p == target[t] IN
  /\ \/ /\ pc[t] = "settle"
        /\ value' = [value EXCEPT ![p] = answer[t]]
        /\ resolving' = [resolving EXCEPT ![p] = FALSE]
        /\ resolving_thread' = [resolving_thread EXCEPT ![p] = NoThread]
        /\ Mon!NotifyAll(p)
        /\ Goto(t, "unlock")
     \/ /\ pc[t] = "settle_throw"
        /\ UNCHANGED <<cell, monitor>>
        /\ Goto(t, "unlock_throw")
  /\ stack' = [stack EXCEPT ![t] = Tail(@)]
  /\ UNCHANGED <<target, answer>>

(* Mistake: nobody is woken. *)
SettleSilent(t) ==
  LET p == target[t] IN
  /\ \/ /\ pc[t] = "settle"
        /\ value' = [value EXCEPT ![p] = answer[t]]
        /\ Goto(t, "unlock")
     \/ /\ pc[t] = "settle_throw"
        /\ UNCHANGED value
        /\ Goto(t, "unlock_throw")
  /\ resolving' = [resolving EXCEPT ![p] = FALSE]
  /\ resolving_thread' = [resolving_thread EXCEPT ![p] = NoThread]
  /\ stack' = [stack EXCEPT ![t] = Tail(@)]
  /\ UNCHANGED <<monitor, target, answer>>

(* The cleanup of LT_Promise_force; only a thunk that returned leaves a    *)
(* value. *)
Settle(t) ==
  LET p == target[t] IN
  /\ \/ /\ pc[t] = "settle"
        /\ value' = [value EXCEPT ![p] = answer[t]]
        /\ Goto(t, "unlock")
     \/ /\ pc[t] = "settle_throw"
        /\ UNCHANGED value
        /\ Goto(t, "unlock_throw")
  /\ resolving' = [resolving EXCEPT ![p] = FALSE]
  /\ resolving_thread' = [resolving_thread EXCEPT ![p] = NoThread]
  /\ Mon!NotifyAll(p)
  /\ stack' = [stack EXCEPT ![t] = Tail(@)]
  /\ UNCHANGED <<target, answer>>

(* Every operation ends with the unlock; an error is a throw. *)
Unlock(t) == /\ \/ pc[t] = "unlock" /\ Goto(t, "run")
                \/ pc[t] \in {"unlock_error", "unlock_throw"} /\ Goto(t, "throwing")
             /\ Mon!Release(t, target[t])
             /\ UNCHANGED <<cell, stack, target, answer>>

SpuriousWakeup(t) == /\ \E p \in Promises : Mon!Spurious(t, p)
                     /\ UNCHANGED <<cell, stack, target, pc, answer>>

-----------------------------------------------------------------------------
Call(t) == ForceCall(t) \/ Value(t)

ThunkEnds(t) == ThunkReturns(t) \/ (pc[t] = "run" /\ Unwind(t))

Continue(t) == \/ ForceLoop(t) \/ ForceAwake(t) \/ Catch(t)
               \/ pc[t] = "throwing" /\ Unwind(t)
               \/ SettleLock(t) \/ Settle(t) \/ Unlock(t)

Next == \E t \in Threads :
          Call(t) \/ ThunkEnds(t) \/ Continue(t) \/ SpuriousWakeup(t)

Spec == Init /\ [][Next]_vars

(* A runnable thread is scheduled, and a thunk that calls nothing any more *)
(* returns or throws. *)
FairSpec == /\ Spec
            /\ \A t \in Threads : WF_vars(Continue(t)) /\ WF_vars(ThunkEnds(t))

-----------------------------------------------------------------------------
(* Whoever is inside a critical section owns that promise's mutex only, a  *)
(* thread settles the innermost of its promises with the answer of its     *)
(* thunk, and whoever is counted as asleep is. *)
Sections == {"force_loop", "unlock", "unlock_error", "settle", "settle_throw", "unlock_throw"}

OwnerInv ==
  /\ \A p \in Promises, t \in Threads :
       owner[p] = t <=> pc[t] \in Sections /\ target[t] = p
  /\ \A p \in Promises, t \in Threads :
       t \in waiting[p] => pc[t] = "force_asleep" /\ target[t] = p

CallInv ==
  \A t \in Threads :
    /\ pc[t] \in {"returned", "settle"} => answer[t] # NONE
    /\ pc[t] \in {"returned", "settle", "settle_throw"} =>
         stack[t] # <<>> /\ Head(stack[t]) = target[t]

Inside(t, p) == \E i \in 1..Len(stack[t]) : stack[t][i] = p

(* However forces nest and whichever way thunks end, the bits of a promise *)
(* tell exactly which thread is inside its thunk, and it is there once. *)
OneEvaluation ==
  /\ \A p \in Promises, t \in Threads :
       Inside(t, p) <=> resolving[p] /\ resolving_thread[p] = t
  /\ \A t \in Threads : \A i, j \in 1..Len(stack[t]) :
       stack[t][i] = stack[t][j] => i = j
  /\ \A p \in Promises : resolving[p] => value[p] = NONE

IInv == TypeOK /\ OwnerInv /\ CallInv /\ OneEvaluation

(* "Delayed computation evaluated at most once when forced": once a thunk  *)
(* has returned, its value is never replaced and it is never called again, *)
(* not even by a thread that began to force the promise before. *)
EvaluatedOnce ==
  [][\A p \in Promises : value[p] # NONE =>
       /\ value'[p] = value[p]
       /\ \A t \in Threads : ~Inside(t, p)']_vars

(* Whatever a thread was answered by a promise, in a thunk or outside, is  *)
(* still its value as long as the thread remembers it. *)
CallersAgree ==
  \A t \in Threads :
    pc[t] \in {"run", "unlock"} /\ answer[t] # NONE => answer[t] = value[target[t]]

(* Nobody sleeps on a promise that is not being resolved: the broadcast    *)
(* comes with the end of every evaluation, also of one that was left by a  *)
(* throw. *)
NobodySleepsOnSettled ==
  \A p \in Promises : waiting[p] # {} => resolving[p]

(* Threads that force each other's promises from inside their thunks wait  *)
(* for each other: the re-entrance check sees the own thread only. *)
Crosswise ==
  \E S \in SUBSET Threads :
    /\ S # {}
    /\ \A t \in S : /\ pc[t] = "force_asleep"
                    /\ resolving_thread[target[t]] \in S

(* Every force and every evaluation ends once no new calls are made,       *)
(* unless threads force each other's promises crosswise. *)
ForcesEnd ==
  /\ <>[][\A t \in Threads : ~Call(t) /\ ~SpuriousWakeup(t)]_vars
  /\ []~Crosswise
  => <>[](\A t \in Threads : pc[t] = "run" /\ stack[t] = <<>>)
=============================================================================
