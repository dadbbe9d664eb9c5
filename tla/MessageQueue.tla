---------------------------- MODULE MessageQueue ----------------------------
(***************************************************************************)
(* src/src/classes/MessageQueue.c: a ring buffer under one mutex with the  *)
(* conditions not_empty and not_full.  The mutex and the conditions are    *)
(* those of Monitor, which LockWords implements.                           *)
(***************************************************************************)
EXTENDS Naturals, Sequences, FiniteSets

CONSTANTS Putters,    \* threads that put
          Getters,    \* threads that get
          Values,     \* the values put
          Capacity,   \* LT_MessageQueue.capacity
          NIL,        \* LT_NIL, the content of a free slot
          NoThread

ASSUME MessageQueueAssumption ==
  /\ Capacity \in Nat \ {0}
  /\ NIL \notin Values
  /\ Putters \cap Getters = {}
  /\ NoThread \notin Putters \cup Getters
  /\ IsFiniteSet(Putters) /\ IsFiniteSet(Getters)

Threads == Putters \cup Getters
Mutexes == {"mutex"}
Conds == {"not_empty", "not_full"}

VARIABLES owner, waiting,             \* the monitor
          items, head, tail, count,   \* LT_MessageQueue
          pc,                         \* where each thread stands
          value,                      \* the argument of a put
          result                      \* what the last get or tryGet returned

ring == <<items, head, tail, count>>
monitor == <<owner, waiting>>
vars == <<owner, waiting, items, head, tail, count, pc, value, result>>

Mon == INSTANCE Monitor

Slots == 0..(Capacity - 1)
Labels == {"out", "put_loop", "put_asleep", "put_signal", "tryput_body",
           "get_loop", "get_asleep", "get_signal", "tryget_body", "unlock"}

TypeOK == /\ Mon!MonitorTypeOK
          /\ items \in [Slots -> Values \cup {NIL}]
          /\ head \in Slots
          /\ tail \in Slots
          /\ count \in 0..Capacity
          /\ pc \in [Threads -> Labels]
          /\ value \in [Threads -> Values \cup {NIL}]
          /\ result \in [Threads -> Values \cup {NIL}]

(* LT_MessageQueue_new_named. *)
Init == /\ Mon!MonitorInit
        /\ items = [i \in Slots |-> NIL]
        /\ head = 0
        /\ tail = 0
        /\ count = 0
        /\ pc = [t \in Threads |-> "out"]
        /\ value = [t \in Threads |-> NIL]
        /\ result = [t \in Threads |-> NIL]

Goto(t, l) == pc' = [pc EXCEPT ![t] = l]

next_index(i) == IF i + 1 = Capacity THEN 0 ELSE i + 1

(* The body of a put and of a get, with the mutex held. *)
Store(v) == /\ items' = [items EXCEPT ![tail] = v]
            /\ tail' = next_index(tail)
            /\ count' = count + 1
            /\ UNCHANGED head

(* A mistake for the model checker to find: head moves on before the value *)
(* is read. *)
TakeNext(t) == /\ result' = [result EXCEPT ![t] = items[next_index(head)]]
               /\ items' = [items EXCEPT ![head] = NIL]
               /\ head' = next_index(head)
               /\ count' = count - 1
               /\ UNCHANGED tail

Take(t) == /\ result' = [result EXCEPT ![t] = items[head]]
           /\ items' = [items EXCEPT ![head] = NIL]
           /\ head' = next_index(head)
           /\ count' = count - 1
           /\ UNCHANGED tail

-----------------------------------------------------------------------------
(* LT_MessageQueue_put *)

Put(t, v) == /\ pc[t] = "out"
             /\ Mon!Acquire(t, "mutex")
             /\ value' = [value EXCEPT ![t] = v]
             /\ Goto(t, "put_loop")
             /\ UNCHANGED <<ring, result>>

PutLoop(t) ==
  /\ pc[t] = "put_loop"
  /\ \/ /\ count = Capacity
        /\ Mon!Wait(t, "not_full", "mutex")
        /\ Goto(t, "put_asleep")
        /\ UNCHANGED ring
     \/ /\ count # Capacity
        /\ Store(value[t])
        /\ Goto(t, "put_signal")
        /\ UNCHANGED monitor
  /\ UNCHANGED <<value, result>>

(* LT_CondWord_wait returns with the mutex held. *)
PutAwake(t) == /\ pc[t] = "put_asleep"
               /\ t \notin waiting["not_full"]
               /\ Mon!Acquire(t, "mutex")
               /\ Goto(t, "put_loop")
               /\ UNCHANGED <<ring, value, result>>

(* Mistake: a put signals only when the queue was empty. *)
PutSignalOnEdge(t) ==
  /\ pc[t] = "put_signal"
  /\ IF count = 1 THEN Mon!Notify("not_empty") ELSE UNCHANGED monitor
  /\ Goto(t, "unlock")
  /\ UNCHANGED <<ring, value, result>>

PutSignal(t) == /\ pc[t] = "put_signal"
                /\ Mon!Notify("not_empty")
                /\ Goto(t, "unlock")
                /\ UNCHANGED <<ring, value, result>>

(* LT_MessageQueue_tryPut: a mutex that is taken makes it return at once,  *)
(* with nothing changed. *)
TryPut(t, v) == /\ pc[t] = "out"
                /\ Mon!Acquire(t, "mutex")
                /\ value' = [value EXCEPT ![t] = v]
                /\ Goto(t, "tryput_body")
                /\ UNCHANGED <<ring, result>>

(* Mistake: tryPut does not look at count. *)
TryPutUnguarded(t) ==
  /\ pc[t] = "tryput_body"
  /\ Store(value[t]) /\ Goto(t, "put_signal")
  /\ UNCHANGED <<monitor, value, result>>

TryPutBody(t) ==
  /\ pc[t] = "tryput_body"
  /\ \/ count = Capacity /\ Goto(t, "unlock") /\ UNCHANGED ring
     \/ count # Capacity /\ Store(value[t]) /\ Goto(t, "put_signal")
  /\ UNCHANGED <<monitor, value, result>>

-----------------------------------------------------------------------------
(* LT_MessageQueue_get *)

Get(t) == /\ pc[t] = "out"
          /\ Mon!Acquire(t, "mutex")
          /\ Goto(t, "get_loop")
          /\ UNCHANGED <<ring, value, result>>

GetLoop(t) ==
  /\ pc[t] = "get_loop"
  /\ \/ /\ count = 0
        /\ Mon!Wait(t, "not_empty", "mutex")
        /\ Goto(t, "get_asleep")
        /\ UNCHANGED <<ring, result>>
     \/ /\ count # 0
        /\ Take(t)
        /\ Goto(t, "get_signal")
        /\ UNCHANGED monitor
  /\ UNCHANGED value

GetAwake(t) == /\ pc[t] = "get_asleep"
               /\ t \notin waiting["not_empty"]
               /\ Mon!Acquire(t, "mutex")
               /\ Goto(t, "get_loop")
               /\ UNCHANGED <<ring, value, result>>

(* Mistake: a get signals the getters. *)
GetSignalGetters(t) == /\ pc[t] = "get_signal"
                       /\ Mon!Notify("not_empty")
                       /\ Goto(t, "unlock")
                       /\ UNCHANGED <<ring, value, result>>

GetSignal(t) == /\ pc[t] = "get_signal"
                /\ Mon!Notify("not_full")
                /\ Goto(t, "unlock")
                /\ UNCHANGED <<ring, value, result>>

(* LT_MessageQueue_tryGet and MessageQueue>>tryGet, which answers nil when *)
(* nothing was taken. *)
TryGet(t) ==
  /\ pc[t] = "out"
  /\ \/ /\ Mon!Acquire(t, "mutex")
        /\ Goto(t, "tryget_body")
        /\ UNCHANGED result
     \/ /\ owner["mutex"] # NoThread
        /\ result' = [result EXCEPT ![t] = NIL]
        /\ UNCHANGED <<monitor, pc>>
  /\ UNCHANGED <<ring, value>>

TryGetBody(t) ==
  /\ pc[t] = "tryget_body"
  /\ \/ /\ count = 0
        /\ result' = [result EXCEPT ![t] = NIL]
        /\ Goto(t, "unlock")
        /\ UNCHANGED ring
     \/ count # 0 /\ Take(t) /\ Goto(t, "get_signal")
  /\ UNCHANGED <<monitor, value>>

-----------------------------------------------------------------------------
(* The end of every operation.  The argument of a put is dead now. *)
Unlock(t) == /\ pc[t] = "unlock"
             /\ Mon!Release(t, "mutex")
             /\ value' = [value EXCEPT ![t] = NIL]
             /\ Goto(t, "out")
             /\ UNCHANGED <<ring, result>>

SpuriousWakeup(t) == /\ \E c \in Conds : Mon!Spurious(t, c)
                     /\ UNCHANGED <<ring, pc, value, result>>

Continue(t) == \/ PutLoop(t) \/ PutAwake(t) \/ PutSignal(t) \/ TryPutBody(t)
               \/ GetLoop(t) \/ GetAwake(t) \/ GetSignal(t) \/ TryGetBody(t)
               \/ Unlock(t)

PutSome(t) == \E v \in Values : Put(t, v)

Next == \/ \E t \in Putters : PutSome(t) \/ \E v \in Values : TryPut(t, v)
        \/ \E t \in Getters : Get(t) \/ TryGet(t)
        \/ \E t \in Threads : Continue(t) \/ SpuriousWakeup(t)

Spec == Init /\ [][Next]_vars

(* A runnable thread is scheduled, a producer keeps producing and a        *)
(* consumer keeps consuming; nobody need use tryPut or tryGet.             *)
FairSpec == /\ Spec
            /\ \A t \in Threads : WF_vars(Continue(t))
            /\ \A t \in Putters : WF_vars(PutSome(t))
            /\ \A t \in Getters : WF_vars(Get(t))

-----------------------------------------------------------------------------
(* The slots from head hold the queued values and the others are cleared,  *)
(* whatever way the indices have wrapped round. *)
Queued(i) == (i + Capacity - head) % Capacity < count

RingInv == /\ tail = (head + count) % Capacity
           /\ \A i \in Slots : items[i] # NIL <=> Queued(i)

(* Whoever is inside an operation's body owns the mutex. *)
Inside == Labels \ {"out", "put_asleep", "get_asleep"}
OwnerInv == \A t \in Threads : pc[t] \in Inside <=> owner["mutex"] = t

(* A put on its way has its value, and whoever is counted as asleep is. *)
CallInv ==
  \A t \in Threads :
    /\ pc[t] \in {"put_loop", "put_asleep", "tryput_body"} => value[t] \in Values
    /\ t \in waiting["not_full"] => pc[t] = "put_asleep"
    /\ t \in waiting["not_empty"] => pc[t] = "get_asleep"

IInv == TypeOK /\ RingInv /\ OwnerInv /\ CallInv

(* Threads that will take a value, or signal one that was put, without     *)
(* anybody else's help; and the same for free slots. *)
Takers == {t \in Threads : \/ pc[t] \in {"get_loop", "put_signal"}
                           \/ pc[t] = "get_asleep" /\ t \notin waiting["not_empty"]}
Fillers == {t \in Threads : \/ pc[t] \in {"put_loop", "get_signal"}
                            \/ pc[t] = "put_asleep" /\ t \notin waiting["not_full"]}

(* No wakeup is lost although each put signals one getter only: while a    *)
(* getter sleeps, every queued value has a thread that comes for it or is  *)
(* about to call a getter.  Likewise every free slot while a putter        *)
(* sleeps. *)
NobodySleepsOnWork ==
  /\ waiting["not_empty"] # {} => count <= Cardinality(Takers)
  /\ waiting["not_full"] # {} => Capacity - count <= Cardinality(Fillers)

(* The ring, read from head, is the queue of BoundedQueue: values come out *)
(* in the order they went in, each once, and a get gets the oldest. *)
Contents == [i \in 1..count |-> items[(head + i - 1) % Capacity]]
BQ == INSTANCE BoundedQueue WITH buffer <- Contents
ImplementsBoundedQueue == BQ!BQSpec

(* Producers and consumers never block each other for good: values go in   *)
(* and come out for ever, unless threads that poll with tryPut and tryGet, *)
(* or wake up for nothing, keep the mutex busy for ever.                   *)
Polls(t) == pc[t] \in {"tryput_body", "tryget_body"}

ValuesKeepMoving ==
  <>[](\A t \in Threads : ~Polls(t))
    /\ <>[][\A t \in Threads : ~SpuriousWakeup(t)]_vars =>
  /\ []<>(\E t \in Putters : pc[t] = "put_signal")
  /\ []<>(\E t \in Getters : pc[t] = "get_signal")

(* MessageQueue>>tryGet: "Try to get next value from queue, or nil when    *)
(* queue is empty." *)
TryGetNilOnlyWhenEmpty ==
  [][\A t \in Threads : result[t] # NIL /\ result'[t] = NIL => count = 0]_vars
=============================================================================
