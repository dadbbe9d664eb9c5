---------------------------- MODULE BoundedQueue ----------------------------
(***************************************************************************)
(* What src/src/classes/MessageQueue.c promises: a first-in first-out      *)
(* queue of at most Capacity values.  A put appends, a get takes the       *)
(* oldest value and hands it to its caller, and each happens at once.      *)
(***************************************************************************)
EXTENDS Naturals, Sequences

CONSTANTS Threads, Values, Capacity, NIL

VARIABLES buffer,    \* the queued values, the oldest first
          result     \* what the last get or tryGet of a thread returned

qvars == <<buffer, result>>

BQInit == /\ buffer = <<>>
          /\ result = [t \in Threads |-> NIL]

BQPut(v) == /\ Len(buffer) < Capacity
            /\ buffer' = Append(buffer, v)
            /\ UNCHANGED result

BQGet(t) == /\ buffer # <<>>
            /\ result' = [result EXCEPT ![t] = Head(buffer)]
            /\ buffer' = Tail(buffer)

(* A tryGet that takes nothing. *)
BQRefuse(t) == /\ result' = [result EXCEPT ![t] = NIL]
               /\ UNCHANGED buffer

BQNext == \/ \E v \in Values : BQPut(v)
          \/ \E t \in Threads : BQGet(t) \/ BQRefuse(t)

BQSpec == BQInit /\ [][BQNext]_qvars
=============================================================================
