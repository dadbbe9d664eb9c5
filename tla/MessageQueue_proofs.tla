------------------------ MODULE MessageQueue_proofs ------------------------
(***************************************************************************)
(* The invariants of MessageQueue hold for any capacity and any threads,   *)
(* and the ring buffer is the queue of BoundedQueue.                       *)
(***************************************************************************)
EXTENDS MessageQueue, FiniteSetTheorems, TLAPS

(* The remainder of a number less than twice the divisor.                  *)
LEMMA Remainder ==
  ASSUME NEW n \in Nat \ {0}, NEW a \in 0..(2 * n - 1)
  PROVE  a % n = IF a < n THEN a ELSE a - n
<1>1. CASE a < n
  BY <1>1
<1>2. CASE a >= n
  <2>1. a - n \in 0..(n - 1)
    BY <1>2
  <2>2. (a - n) % n = a - n
    BY <2>1
  <2>3. a % n = (a - n) % n
    BY <1>2
  <2> QED
    BY <2>2, <2>3, <1>2
<1> QED
  BY <1>1, <1>2

(* The indices of the ring without a division.                             *)
Wrapped(a) == IF a < Capacity THEN a ELSE a - Capacity
Offset(i) == IF i >= head THEN i - head ELSE i + Capacity - head

Ring == /\ tail = Wrapped(head + count)
        /\ \A i \in Slots : items[i] # NIL <=> Offset(i) < count

LEMMA RingForm ==
  ASSUME head \in Slots, count \in 0..Capacity
  PROVE  /\ RingInv <=> Ring
         /\ \A i \in 1..Capacity : (head + i - 1) % Capacity = Wrapped(head + i - 1)
<1> USE MessageQueueAssumption DEF Slots
<1>1. \A a \in 0..(2 * Capacity - 1) : a % Capacity = Wrapped(a)
  BY Remainder DEF Wrapped
<1>2. (head + count) % Capacity = Wrapped(head + count)
  <2>1. head + count \in 0..(2 * Capacity - 1)
    OBVIOUS
  <2> QED
    BY <1>1, <2>1
<1>3. \A i \in Slots : (i + Capacity - head) % Capacity = Offset(i)
  <2> TAKE i \in Slots
  <2>1. i + Capacity - head \in 0..(2 * Capacity - 1)
    OBVIOUS
  <2>2. Wrapped(i + Capacity - head) = Offset(i)
    BY DEF Wrapped, Offset
  <2> QED
    BY <1>1, <2>1, <2>2
<1>4. \A i \in 1..Capacity : (head + i - 1) % Capacity = Wrapped(head + i - 1)
  <2> TAKE i \in 1..Capacity
  <2>1. head + i - 1 \in 0..(2 * Capacity - 1)
    OBVIOUS
  <2> QED
    BY <1>1, <2>1
<1>5. RingInv <=> Ring
  BY <1>2, <1>3 DEF RingInv, Ring, Queued
<1> QED
  BY <1>4, <1>5

(* The same in the next state.                                             *)
LEMMA RingFormNext ==
  (/\ head \in Slots
   /\ count \in 0..Capacity
   => /\ RingInv <=> Ring
      /\ \A i \in 1..Capacity : (head + i - 1) % Capacity = Wrapped(head + i - 1))'
<1>1. head \in Slots /\ count \in 0..Capacity =>
        /\ RingInv <=> Ring
        /\ \A i \in 1..Capacity : (head + i - 1) % Capacity = Wrapped(head + i - 1)
  BY RingForm
<1> QED
  BY <1>1, PTL

RingTypeOK == /\ items \in [Slots -> Values \cup {NIL}]
              /\ head \in Slots
              /\ tail \in Slots
              /\ count \in 0..Capacity

(* A put fills the first free slot.                                        *)
LEMMA StoreKeepsRing ==
  ASSUME RingTypeOK, RingInv, NEW v \in Values, count # Capacity, Store(v)
  PROVE  RingTypeOK' /\ RingInv'
<1> USE MessageQueueAssumption DEF RingTypeOK, Slots, Store, next_index
<1>1. Ring
  BY RingForm
<1>2. RingTypeOK'
  OBVIOUS
<1>3. Ring'
  <2>1. tail' = Wrapped(head' + count')
    BY <1>1 DEF Ring, Wrapped
  <2>2. ASSUME NEW i \in Slots PROVE items'[i] # NIL <=> Offset(i)' < count'
    <3>1. Offset(i)' = Offset(i)
      BY DEF Offset
    <3>2. CASE i = tail
      BY <1>1, <3>1, <3>2 DEF Ring, Offset, Wrapped
    <3>3. CASE i # tail
      BY <1>1, <3>1, <3>3 DEF Ring, Offset, Wrapped
    <3> QED
      BY <3>2, <3>3
  <2> QED
    BY <2>1, <2>2 DEF Ring, Slots
<1>4. (RingInv <=> Ring)'
  <2>1. head' \in Slots /\ count' \in 0..Capacity
    BY <1>2
  <2> QED
    BY <2>1, RingFormNext
<1> QED
  BY <1>2, <1>3, <1>4

(* A get clears the slot of the oldest value.                              *)
LEMMA TakeKeepsRing ==
  ASSUME RingTypeOK, RingInv, NEW t \in Threads, count # 0, Take(t)
  PROVE  RingTypeOK' /\ RingInv'
<1> USE MessageQueueAssumption DEF RingTypeOK, Slots, Take, next_index
<1>1. Ring
  BY RingForm
<1>2. RingTypeOK'
  OBVIOUS
<1>3. Ring'
  <2>1. tail' = Wrapped(head' + count')
    BY <1>1 DEF Ring, Wrapped
  <2>2. ASSUME NEW i \in Slots PROVE items'[i] # NIL <=> Offset(i)' < count'
    <3>1. CASE i = head
      BY <1>1, <3>1 DEF Ring, Offset, Wrapped
    <3>2. CASE i # head
      BY <1>1, <3>2 DEF Ring, Offset, Wrapped
    <3> QED
      BY <3>1, <3>2
  <2> QED
    BY <2>1, <2>2 DEF Ring, Slots
<1>4. (RingInv <=> Ring)'
  <2>1. head' \in Slots /\ count' \in 0..Capacity
    BY <1>2
  <2> QED
    BY <2>1, RingFormNext
<1> QED
  BY <1>2, <1>3, <1>4

(* Every step of every thread keeps the invariant.                         *)
LEMMA StepIInv == IInv /\ [Next]_vars => IInv'
<1> SUFFICES ASSUME IInv, [Next]_vars PROVE IInv'
  OBVIOUS
<1> USE MessageQueueAssumption
    DEF IInv, Mon!MonitorTypeOK, Threads, Mutexes, Conds, Labels, Goto, ring, monitor
<1>0. RingTypeOK
  BY DEF TypeOK, RingTypeOK
<1>1. ASSUME NEW t \in Putters, NEW v \in Values, Put(t, v) PROVE IInv'
  <2> USE <1>1 DEF Put, Mon!Acquire
  <2>1. TypeOK'
    BY DEF TypeOK
  <2>2. RingInv'
    BY DEF RingInv, Queued
  <2>3. OwnerInv'
    BY DEF OwnerInv, Inside, TypeOK
  <2>4. CallInv'
    BY DEF CallInv, TypeOK
  <2> QED
    BY <2>1, <2>2, <2>3, <2>4
<1>2. ASSUME NEW t \in Threads, PutAwake(t) PROVE IInv'
  <2> USE <1>2 DEF PutAwake, Mon!Acquire
  <2>1. TypeOK'
    BY DEF TypeOK
  <2>2. RingInv'
    BY DEF RingInv, Queued
  <2>3. OwnerInv'
    BY DEF OwnerInv, Inside, TypeOK
  <2>4. CallInv'
    BY DEF CallInv, TypeOK
  <2> QED
    BY <2>1, <2>2, <2>3, <2>4
<1>3. ASSUME NEW t \in Threads, PutSignal(t) PROVE IInv'
  <2> USE <1>3 DEF PutSignal, Mon!Notify
  <2>1. TypeOK'
    BY DEF TypeOK
  <2>2. RingInv'
    BY DEF RingInv, Queued
  <2>3. OwnerInv'
    BY DEF OwnerInv, Inside, TypeOK
  <2>4. CallInv'
    BY DEF CallInv, TypeOK
  <2> QED
    BY <2>1, <2>2, <2>3, <2>4
<1>4. ASSUME NEW t \in Putters, NEW v \in Values, TryPut(t, v) PROVE IInv'
  <2> USE <1>4 DEF TryPut, Mon!Acquire
  <2>1. TypeOK'
    BY DEF TypeOK
  <2>2. RingInv'
    BY DEF RingInv, Queued
  <2>3. OwnerInv'
    BY DEF OwnerInv, Inside, TypeOK
  <2>4. CallInv'
    BY DEF CallInv, TypeOK
  <2> QED
    BY <2>1, <2>2, <2>3, <2>4
<1>5. ASSUME NEW t \in Getters, Get(t) PROVE IInv'
  <2> USE <1>5 DEF Get, Mon!Acquire
  <2>1. TypeOK'
    BY DEF TypeOK
  <2>2. RingInv'
    BY DEF RingInv, Queued
  <2>3. OwnerInv'
    BY DEF OwnerInv, Inside, TypeOK
  <2>4. CallInv'
    BY DEF CallInv, TypeOK
  <2> QED
    BY <2>1, <2>2, <2>3, <2>4
<1>6. ASSUME NEW t \in Threads, GetAwake(t) PROVE IInv'
  <2> USE <1>6 DEF GetAwake, Mon!Acquire
  <2>1. TypeOK'
    BY DEF TypeOK
  <2>2. RingInv'
    BY DEF RingInv, Queued
  <2>3. OwnerInv'
    BY DEF OwnerInv, Inside, TypeOK
  <2>4. CallInv'
    BY DEF CallInv, TypeOK
  <2> QED
    BY <2>1, <2>2, <2>3, <2>4
<1>7. ASSUME NEW t \in Threads, GetSignal(t) PROVE IInv'
  <2> USE <1>7 DEF GetSignal, Mon!Notify
  <2>1. TypeOK'
    BY DEF TypeOK
  <2>2. RingInv'
    BY DEF RingInv, Queued
  <2>3. OwnerInv'
    BY DEF OwnerInv, Inside, TypeOK
  <2>4. CallInv'
    BY DEF CallInv, TypeOK
  <2> QED
    BY <2>1, <2>2, <2>3, <2>4
<1>8. ASSUME NEW t \in Getters, TryGet(t) PROVE IInv'
  <2> USE <1>8 DEF TryGet, Mon!Acquire
  <2>1. TypeOK'
    BY DEF TypeOK
  <2>2. RingInv'
    BY DEF RingInv, Queued
  <2>3. OwnerInv'
    BY DEF OwnerInv, Inside, TypeOK
  <2>4. CallInv'
    BY DEF CallInv, TypeOK
  <2> QED
    BY <2>1, <2>2, <2>3, <2>4
<1>9. ASSUME NEW t \in Threads, Unlock(t) PROVE IInv'
  <2> USE <1>9 DEF Unlock, Mon!Release
  <2>1. TypeOK'
    BY DEF TypeOK
  <2>2. RingInv'
    BY DEF RingInv, Queued
  <2>3. OwnerInv'
    BY DEF OwnerInv, Inside, TypeOK
  <2>4. CallInv'
    BY DEF CallInv, TypeOK
  <2> QED
    BY <2>1, <2>2, <2>3, <2>4
<1>10. ASSUME NEW t \in Threads, SpuriousWakeup(t) PROVE IInv'
  <2> USE <1>10 DEF SpuriousWakeup, Mon!Spurious
  <2>1. TypeOK'
    BY DEF TypeOK
  <2>2. RingInv'
    BY DEF RingInv, Queued
  <2>3. OwnerInv'
    BY DEF OwnerInv, Inside, TypeOK
  <2>4. CallInv'
    BY DEF CallInv, TypeOK
  <2> QED
    BY <2>1, <2>2, <2>3, <2>4
<1>11. ASSUME NEW t \in Threads, PutLoop(t) PROVE IInv'
  <2>1. CASE count # Capacity
    <3>0. value[t] \in Values
      BY <1>11 DEF CallInv, PutLoop
    <3>1. Store(value[t]) /\ Goto(t, "put_signal") /\ UNCHANGED <<monitor, value, result>>
      BY <1>11, <2>1 DEF PutLoop
    <3>2. RingTypeOK' /\ RingInv'
      BY <1>0, <2>1, <3>0, <3>1, StoreKeepsRing
    <3>3. TypeOK'
      BY <3>1, <3>2 DEF TypeOK, RingTypeOK, Store
    <3>4. OwnerInv' /\ CallInv'
      BY <1>11, <3>1 DEF PutLoop, OwnerInv, CallInv, Inside, TypeOK
    <3> QED
      BY <3>2, <3>3, <3>4
  <2>2. CASE count = Capacity
    <3> USE <1>11, <2>2 DEF PutLoop, Mon!Wait
    <3>1. TypeOK'
      BY DEF TypeOK
    <3>2. RingInv'
      BY DEF RingInv, Queued
    <3>3. OwnerInv'
      BY DEF OwnerInv, Inside, TypeOK
    <3>4. CallInv'
      BY DEF CallInv, TypeOK
    <3> QED
      BY <3>1, <3>2, <3>3, <3>4
  <2> QED
    BY <2>1, <2>2
<1>12. ASSUME NEW t \in Threads, TryPutBody(t) PROVE IInv'
  <2>1. CASE count # Capacity
    <3>0. value[t] \in Values
      BY <1>12 DEF CallInv, TryPutBody
    <3>1. Store(value[t]) /\ Goto(t, "put_signal") /\ UNCHANGED <<monitor, value, result>>
      BY <1>12, <2>1 DEF TryPutBody
    <3>2. RingTypeOK' /\ RingInv'
      BY <1>0, <2>1, <3>0, <3>1, StoreKeepsRing
    <3>3. TypeOK'
      BY <3>1, <3>2 DEF TypeOK, RingTypeOK, Store
    <3>4. OwnerInv' /\ CallInv'
      BY <1>12, <3>1 DEF TryPutBody, OwnerInv, CallInv, Inside, TypeOK
    <3> QED
      BY <3>2, <3>3, <3>4
  <2>2. CASE count = Capacity
    <3> USE <1>12, <2>2 DEF TryPutBody
    <3>1. TypeOK'
      BY DEF TypeOK
    <3>2. RingInv'
      BY DEF RingInv, Queued
    <3>3. OwnerInv'
      BY DEF OwnerInv, Inside, TypeOK
    <3>4. CallInv'
      BY DEF CallInv, TypeOK
    <3> QED
      BY <3>1, <3>2, <3>3, <3>4
  <2> QED
    BY <2>1, <2>2
<1>13. ASSUME NEW t \in Threads, GetLoop(t) PROVE IInv'
  <2>1. CASE count # 0
    <3>1. Take(t) /\ Goto(t, "get_signal") /\ UNCHANGED <<monitor, value>>
      BY <1>13, <2>1 DEF GetLoop
    <3>2. RingTypeOK' /\ RingInv'
      BY <1>0, <2>1, <3>1, TakeKeepsRing
    <3>3. TypeOK'
      BY <3>1, <3>2 DEF TypeOK, RingTypeOK, Take
    <3>4. OwnerInv' /\ CallInv'
      BY <1>13, <3>1 DEF GetLoop, OwnerInv, CallInv, Inside, TypeOK
    <3> QED
      BY <3>2, <3>3, <3>4
  <2>2. CASE count = 0
    <3> USE <1>13, <2>2 DEF GetLoop, Mon!Wait
    <3>1. TypeOK'
      BY DEF TypeOK
    <3>2. RingInv'
      BY DEF RingInv, Queued
    <3>3. OwnerInv'
      BY DEF OwnerInv, Inside, TypeOK
    <3>4. CallInv'
      BY DEF CallInv, TypeOK
    <3> QED
      BY <3>1, <3>2, <3>3, <3>4
  <2> QED
    BY <2>1, <2>2
<1>14. ASSUME NEW t \in Threads, TryGetBody(t) PROVE IInv'
  <2>1. CASE count # 0
    <3>1. Take(t) /\ Goto(t, "get_signal") /\ UNCHANGED <<monitor, value>>
      BY <1>14, <2>1 DEF TryGetBody
    <3>2. RingTypeOK' /\ RingInv'
      BY <1>0, <2>1, <3>1, TakeKeepsRing
    <3>3. TypeOK'
      BY <3>1, <3>2 DEF TypeOK, RingTypeOK, Take
    <3>4. OwnerInv' /\ CallInv'
      BY <1>14, <3>1 DEF TryGetBody, OwnerInv, CallInv, Inside, TypeOK
    <3> QED
      BY <3>2, <3>3, <3>4
  <2>2. CASE count = 0
    <3> USE <1>14, <2>2 DEF TryGetBody
    <3>1. TypeOK'
      BY DEF TypeOK
    <3>2. RingInv'
      BY DEF RingInv, Queued
    <3>3. OwnerInv'
      BY DEF OwnerInv, Inside, TypeOK
    <3>4. CallInv'
      BY DEF CallInv, TypeOK
    <3> QED
      BY <3>1, <3>2, <3>3, <3>4
  <2> QED
    BY <2>1, <2>2
<1>15. ASSUME UNCHANGED vars PROVE IInv'
  BY <1>15 DEF vars, TypeOK, RingInv, Queued, OwnerInv, CallInv, Inside
<1> QED
  BY <1>1, <1>2, <1>3, <1>4, <1>5, <1>6, <1>7, <1>8, <1>9, <1>10, <1>11, <1>12, <1>13, <1>14, <1>15 DEF Next, Continue, PutSome

(* An empty queue that nobody uses satisfies the invariant.                *)
LEMMA InitIInv == Init => IInv
<1> SUFFICES ASSUME Init PROVE IInv
  OBVIOUS
<1> USE MessageQueueAssumption DEF Init, Mon!MonitorInit
<1>1. TypeOK
  BY DEF TypeOK, Mon!MonitorTypeOK, Mutexes, Conds, Labels, Slots, Threads
<1>2. RingInv
  <2>1. Ring
    BY DEF Ring, Wrapped, Offset, Slots
  <2>2. head \in Slots /\ count \in 0..Capacity
    BY DEF Slots
  <2> QED
    BY <2>1, <2>2, RingForm
<1>3. OwnerInv /\ CallInv
  BY DEF OwnerInv, CallInv, Inside, Threads, Mutexes, Conds
<1> QED
  BY <1>1, <1>2, <1>3 DEF IInv

(* The ring is consistent, the mutex is held by whoever is inside the body *)
(* of an operation, and a put on its way has its value.                    *)
THEOREM QueueInvariant == Spec => []IInv
BY InitIInv, StepIInv, PTL DEF Spec

-----------------------------------------------------------------------------
(* Sets of threads are finite, so they can be counted.                     *)
LEMMA Counting ==
  ASSUME NEW S \in SUBSET Threads, NEW T \in SUBSET Threads
  PROVE  /\ Cardinality(S) \in Nat /\ Cardinality(T) \in Nat
         /\ S \subseteq T => Cardinality(S) <= Cardinality(T)
         /\ \A t \in Threads :
              /\ S \subseteq T /\ t \in T \ S => Cardinality(S) + 1 <= Cardinality(T)
              /\ S \ {t} \subseteq T => Cardinality(S) <= Cardinality(T) + 1
              /\ \A u \in T \ S : S \ {t} \subseteq T => Cardinality(S) <= Cardinality(T)
<1>1. IsFiniteSet(Threads)
  BY MessageQueueAssumption, FS_Union DEF Threads
<1>2. IsFiniteSet(S) /\ IsFiniteSet(T)
  BY <1>1, FS_Subset
<1>3. Cardinality(S) \in Nat /\ Cardinality(T) \in Nat
  BY <1>2, FS_CardinalityType
<1>4. S \subseteq T => Cardinality(S) <= Cardinality(T)
  BY <1>2, FS_Subset
<1>5. ASSUME NEW t \in Threads, S \subseteq T, t \in T \ S
      PROVE  Cardinality(S) + 1 <= Cardinality(T)
  <2>1. IsFiniteSet(S \cup {t}) /\ Cardinality(S \cup {t}) = Cardinality(S) + 1
    BY <1>2, <1>5, FS_AddElement
  <2>2. Cardinality(S \cup {t}) <= Cardinality(T)
    BY <1>2, <1>5, FS_Subset
  <2> QED
    BY <2>1, <2>2
<1>6. ASSUME NEW t \in Threads, S \ {t} \subseteq T
      PROVE  /\ Cardinality(S) <= Cardinality(T) + 1
             /\ \A u \in T \ S : Cardinality(S) <= Cardinality(T)
  <2>1. /\ IsFiniteSet(S \ {t})
        /\ Cardinality(S \ {t}) \in Nat
        /\ Cardinality(S) <= Cardinality(S \ {t}) + 1
    <3>1. /\ IsFiniteSet(S \ {t})
          /\ Cardinality(S \ {t}) = IF t \in S THEN Cardinality(S) - 1 ELSE Cardinality(S)
      BY <1>2, FS_RemoveElement
    <3>2. Cardinality(S \ {t}) \in Nat
      BY <3>1, FS_CardinalityType
    <3> QED
      BY <1>3, <3>1, <3>2
  <2>2. Cardinality(S \ {t}) <= Cardinality(T)
    BY <1>2, <1>6, FS_Subset
  <2>3. ASSUME NEW u \in T \ S PROVE Cardinality(S \ {t}) + 1 <= Cardinality(T)
    <3>1. u \notin S \ {t}
      OBVIOUS
    <3>2. Cardinality((S \ {t}) \cup {u}) = Cardinality(S \ {t}) + 1
      BY <2>1, <3>1, FS_AddElement
    <3>3. Cardinality((S \ {t}) \cup {u}) <= Cardinality(T)
      BY <1>2, <1>6, FS_Subset
    <3> QED
      BY <3>2, <3>3
  <2> QED
    BY <1>3, <2>1, <2>2, <2>3
<1> QED
  BY <1>3, <1>4, <1>5, <1>6

(* A step that moves no value, puts nobody to sleep and takes nobody off   *)
(* the way to a value or a slot.                                           *)
LEMMA CalmStep ==
  ASSUME NobodySleepsOnWork, TypeOK, UNCHANGED count,
         waiting'["not_empty"] \subseteq waiting["not_empty"],
         waiting'["not_full"] \subseteq waiting["not_full"],
         Takers \subseteq Takers', Fillers \subseteq Fillers'
  PROVE  NobodySleepsOnWork'
<1>1. /\ Takers \in SUBSET Threads /\ Takers' \in SUBSET Threads
      /\ Fillers \in SUBSET Threads /\ Fillers' \in SUBSET Threads
  BY DEF Takers, Fillers
<1>2. Cardinality(Takers) <= Cardinality(Takers') /\ Cardinality(Fillers) <= Cardinality(Fillers')
  BY <1>1, Counting
<1>3. /\ Cardinality(Takers) \in Nat /\ Cardinality(Takers') \in Nat
      /\ Cardinality(Fillers) \in Nat /\ Cardinality(Fillers') \in Nat
  BY <1>1, Counting
<1> QED
  BY <1>2, <1>3, MessageQueueAssumption DEF NobodySleepsOnWork, TypeOK

(* Every step keeps enough threads on their way to the values and slots.   *)
LEMMA StepWork == IInv /\ NobodySleepsOnWork /\ [Next]_vars => NobodySleepsOnWork'
<1> SUFFICES ASSUME IInv, NobodySleepsOnWork, [Next]_vars PROVE NobodySleepsOnWork'
  OBVIOUS
<1> USE MessageQueueAssumption
    DEF IInv, TypeOK, Mon!MonitorTypeOK, Threads, Mutexes, Conds, Labels, Goto, ring, monitor
<1>0. /\ Takers \in SUBSET Threads /\ Takers' \in SUBSET Threads
      /\ Fillers \in SUBSET Threads /\ Fillers' \in SUBSET Threads
      /\ Cardinality(Takers) \in Nat /\ Cardinality(Takers') \in Nat
      /\ Cardinality(Fillers) \in Nat /\ Cardinality(Fillers') \in Nat
  BY Counting DEF Takers, Fillers
<1>1. ASSUME NEW t \in Putters, NEW v \in Values, Put(t, v) PROVE NobodySleepsOnWork'
  <2>1. /\ Takers \subseteq Takers' /\ Fillers \subseteq Fillers' /\ UNCHANGED count
        /\ waiting'["not_empty"] \subseteq waiting["not_empty"]
        /\ waiting'["not_full"] \subseteq waiting["not_full"]
    BY <1>1 DEF Put, Mon!Acquire, Takers, Fillers
  <2> QED
    BY <2>1, CalmStep
<1>2. ASSUME NEW t \in Threads, PutAwake(t) PROVE NobodySleepsOnWork'
  <2>1. /\ Takers \subseteq Takers' /\ Fillers \subseteq Fillers' /\ UNCHANGED count
        /\ waiting'["not_empty"] \subseteq waiting["not_empty"]
        /\ waiting'["not_full"] \subseteq waiting["not_full"]
    BY <1>2 DEF PutAwake, Mon!Acquire, Takers, Fillers
  <2> QED
    BY <2>1, CalmStep
<1>3. ASSUME NEW t \in Putters, NEW v \in Values, TryPut(t, v) PROVE NobodySleepsOnWork'
  <2>1. /\ Takers \subseteq Takers' /\ Fillers \subseteq Fillers' /\ UNCHANGED count
        /\ waiting'["not_empty"] \subseteq waiting["not_empty"]
        /\ waiting'["not_full"] \subseteq waiting["not_full"]
    BY <1>3 DEF TryPut, Mon!Acquire, Takers, Fillers
  <2> QED
    BY <2>1, CalmStep
<1>4. ASSUME NEW t \in Getters, Get(t) PROVE NobodySleepsOnWork'
  <2>1. /\ Takers \subseteq Takers' /\ Fillers \subseteq Fillers' /\ UNCHANGED count
        /\ waiting'["not_empty"] \subseteq waiting["not_empty"]
        /\ waiting'["not_full"] \subseteq waiting["not_full"]
    BY <1>4 DEF Get, Mon!Acquire, Takers, Fillers
  <2> QED
    BY <2>1, CalmStep
<1>5. ASSUME NEW t \in Threads, GetAwake(t) PROVE NobodySleepsOnWork'
  <2>1. /\ Takers \subseteq Takers' /\ Fillers \subseteq Fillers' /\ UNCHANGED count
        /\ waiting'["not_empty"] \subseteq waiting["not_empty"]
        /\ waiting'["not_full"] \subseteq waiting["not_full"]
    BY <1>5 DEF GetAwake, Mon!Acquire, Takers, Fillers
  <2> QED
    BY <2>1, CalmStep
<1>6. ASSUME NEW t \in Getters, TryGet(t) PROVE NobodySleepsOnWork'
  <2>1. /\ Takers \subseteq Takers' /\ Fillers \subseteq Fillers' /\ UNCHANGED count
        /\ waiting'["not_empty"] \subseteq waiting["not_empty"]
        /\ waiting'["not_full"] \subseteq waiting["not_full"]
    BY <1>6 DEF TryGet, Mon!Acquire, Takers, Fillers
  <2> QED
    BY <2>1, CalmStep
<1>7. ASSUME NEW t \in Threads, Unlock(t) PROVE NobodySleepsOnWork'
  <2>1. /\ Takers \subseteq Takers' /\ Fillers \subseteq Fillers' /\ UNCHANGED count
        /\ waiting'["not_empty"] \subseteq waiting["not_empty"]
        /\ waiting'["not_full"] \subseteq waiting["not_full"]
    BY <1>7 DEF Unlock, Mon!Release, Takers, Fillers
  <2> QED
    BY <2>1, CalmStep
<1>8. ASSUME NEW t \in Threads, SpuriousWakeup(t) PROVE NobodySleepsOnWork'
  <2>1. /\ Takers \subseteq Takers' /\ Fillers \subseteq Fillers' /\ UNCHANGED count
        /\ waiting'["not_empty"] \subseteq waiting["not_empty"]
        /\ waiting'["not_full"] \subseteq waiting["not_full"]
    BY <1>8 DEF SpuriousWakeup, Mon!Spurious, Takers, Fillers
  <2> QED
    BY <2>1, CalmStep
<1>9. ASSUME NEW t \in Threads, PutSignal(t) PROVE NobodySleepsOnWork'
  <2>1. pc[t] = "put_signal" /\ pc' = [pc EXCEPT ![t] = "unlock"] /\ UNCHANGED count
    BY <1>9 DEF PutSignal
  <2>2. PICK S \in SUBSET waiting["not_empty"] :
          /\ waiting["not_empty"] # {} => S # {}
          /\ waiting' = [waiting EXCEPT !["not_empty"] = waiting["not_empty"] \ S]
    BY <1>9 DEF PutSignal, Mon!Notify
  <2>3. Takers \ {t} \subseteq Takers' /\ Fillers \subseteq Fillers'
    BY <2>1, <2>2 DEF Takers, Fillers
  <2>4. waiting'["not_empty"] # {} => \E u \in Threads : u \in Takers' \ Takers
    <3> SUFFICES ASSUME waiting'["not_empty"] # {}
                 PROVE  \E u \in Threads : u \in Takers' \ Takers
      OBVIOUS
    <3>1. PICK u \in S : u \in waiting["not_empty"]
      BY <2>2
    <3>2. u \in Threads /\ pc[u] = "get_asleep"
      BY <3>1 DEF CallInv
    <3>3. u \in Takers' /\ u \notin Takers
      BY <3>1, <3>2, <2>1, <2>2 DEF Takers
    <3> QED
      BY <3>2, <3>3
  <2>5. waiting'["not_empty"] # {} => Cardinality(Takers) <= Cardinality(Takers')
    BY <1>0, <2>3, <2>4, Counting
  <2>6. Cardinality(Fillers) <= Cardinality(Fillers')
    BY <1>0, <2>3, Counting
  <2>7. /\ waiting'["not_empty"] # {} => waiting["not_empty"] # {}
        /\ waiting'["not_full"] = waiting["not_full"]
    BY <2>2
  <2> QED
    BY <1>0, <2>1, <2>5, <2>6, <2>7 DEF NobodySleepsOnWork
<1>10. ASSUME NEW t \in Threads, GetSignal(t) PROVE NobodySleepsOnWork'
  <2>1. pc[t] = "get_signal" /\ pc' = [pc EXCEPT ![t] = "unlock"] /\ UNCHANGED count
    BY <1>10 DEF GetSignal
  <2>2. PICK S \in SUBSET waiting["not_full"] :
          /\ waiting["not_full"] # {} => S # {}
          /\ waiting' = [waiting EXCEPT !["not_full"] = waiting["not_full"] \ S]
    BY <1>10 DEF GetSignal, Mon!Notify
  <2>3. Fillers \ {t} \subseteq Fillers' /\ Takers \subseteq Takers'
    BY <2>1, <2>2 DEF Takers, Fillers
  <2>4. waiting'["not_full"] # {} => \E u \in Threads : u \in Fillers' \ Fillers
    <3> SUFFICES ASSUME waiting'["not_full"] # {}
                 PROVE  \E u \in Threads : u \in Fillers' \ Fillers
      OBVIOUS
    <3>1. PICK u \in S : u \in waiting["not_full"]
      BY <2>2
    <3>2. u \in Threads /\ pc[u] = "put_asleep"
      BY <3>1 DEF CallInv
    <3>3. u \in Fillers' /\ u \notin Fillers
      BY <3>1, <3>2, <2>1, <2>2 DEF Fillers
    <3> QED
      BY <3>2, <3>3
  <2>5. waiting'["not_full"] # {} => Cardinality(Fillers) <= Cardinality(Fillers')
    BY <1>0, <2>3, <2>4, Counting
  <2>6. Cardinality(Takers) <= Cardinality(Takers')
    BY <1>0, <2>3, Counting
  <2>7. /\ waiting'["not_full"] # {} => waiting["not_full"] # {}
        /\ waiting'["not_empty"] = waiting["not_empty"]
    BY <2>2
  <2> QED
    BY <1>0, <2>1, <2>5, <2>6, <2>7 DEF NobodySleepsOnWork
<1>11. ASSUME NEW t \in Threads, PutLoop(t) PROVE NobodySleepsOnWork'
  <2>1. CASE count # Capacity
    <3>1. /\ pc[t] = "put_loop" /\ pc' = [pc EXCEPT ![t] = "put_signal"]
          /\ count' = count + 1 /\ UNCHANGED waiting
      BY <1>11, <2>1 DEF PutLoop, Store
    <3>2. Takers \subseteq Takers' /\ t \in Takers' \ Takers
      BY <3>1 DEF Takers, Fillers
    <3>3. Fillers \ {t} \subseteq Fillers'
      BY <3>1 DEF Takers, Fillers
    <3>4. Cardinality(Takers) + 1 <= Cardinality(Takers')
      BY <1>0, <3>2, Counting
    <3>5. Cardinality(Fillers) <= Cardinality(Fillers') + 1
      BY <1>0, <3>3, Counting
    <3> QED
      BY <1>0, <3>1, <3>4, <3>5 DEF NobodySleepsOnWork
  <2>2. CASE count = Capacity
    <3>1. /\ pc[t] = "put_loop" /\ pc' = [pc EXCEPT ![t] = "put_asleep"]
          /\ waiting' = [waiting EXCEPT !["not_full"] = waiting["not_full"] \cup {t}]
          /\ UNCHANGED count
      BY <1>11, <2>2 DEF PutLoop, Mon!Wait
    <3>2. Takers \subseteq Takers'
      BY <3>1 DEF Takers, Fillers
    <3>3. Cardinality(Takers) <= Cardinality(Takers')
      BY <1>0, <3>2, Counting
    <3> QED
      BY <1>0, <2>2, <3>1, <3>3 DEF NobodySleepsOnWork
  <2> QED
    BY <2>1, <2>2
<1>12. ASSUME NEW t \in Threads, TryPutBody(t) PROVE NobodySleepsOnWork'
  <2>1. CASE count # Capacity
    <3>1. /\ pc[t] = "tryput_body" /\ pc' = [pc EXCEPT ![t] = "put_signal"]
          /\ count' = count + 1 /\ UNCHANGED waiting
      BY <1>12, <2>1 DEF TryPutBody, Store
    <3>2. Takers \subseteq Takers' /\ t \in Takers' \ Takers
      BY <3>1 DEF Takers, Fillers
    <3>3. Fillers \ {t} \subseteq Fillers'
      BY <3>1 DEF Takers, Fillers
    <3>4. Cardinality(Takers) + 1 <= Cardinality(Takers')
      BY <1>0, <3>2, Counting
    <3>5. Cardinality(Fillers) <= Cardinality(Fillers') + 1
      BY <1>0, <3>3, Counting
    <3> QED
      BY <1>0, <3>1, <3>4, <3>5 DEF NobodySleepsOnWork
  <2>2. CASE count = Capacity
    <3>1. /\ Takers \subseteq Takers' /\ Fillers \subseteq Fillers'
          /\ UNCHANGED <<count, waiting>>
      BY <1>12, <2>2 DEF TryPutBody, Takers, Fillers
    <3> QED
      BY <3>1, CalmStep
  <2> QED
    BY <2>1, <2>2
<1>13. ASSUME NEW t \in Threads, GetLoop(t) PROVE NobodySleepsOnWork'
  <2>1. CASE count # 0
    <3>1. /\ pc[t] = "get_loop" /\ pc' = [pc EXCEPT ![t] = "get_signal"]
          /\ count' = count - 1 /\ UNCHANGED waiting
      BY <1>13, <2>1 DEF GetLoop, Take
    <3>2. Fillers \subseteq Fillers' /\ t \in Fillers' \ Fillers
      BY <3>1 DEF Takers, Fillers
    <3>3. Takers \ {t} \subseteq Takers'
      BY <3>1 DEF Takers, Fillers
    <3>4. Cardinality(Fillers) + 1 <= Cardinality(Fillers')
      BY <1>0, <3>2, Counting
    <3>5. Cardinality(Takers) <= Cardinality(Takers') + 1
      BY <1>0, <3>3, Counting
    <3> QED
      BY <1>0, <3>1, <3>4, <3>5 DEF NobodySleepsOnWork
  <2>2. CASE count = 0
    <3>1. /\ pc[t] = "get_loop" /\ pc' = [pc EXCEPT ![t] = "get_asleep"]
          /\ waiting' = [waiting EXCEPT !["not_empty"] = waiting["not_empty"] \cup {t}]
          /\ UNCHANGED count
      BY <1>13, <2>2 DEF GetLoop, Mon!Wait
    <3>2. Fillers \subseteq Fillers'
      BY <3>1 DEF Takers, Fillers
    <3>3. Cardinality(Fillers) <= Cardinality(Fillers')
      BY <1>0, <3>2, Counting
    <3> QED
      BY <1>0, <2>2, <3>1, <3>3 DEF NobodySleepsOnWork
  <2> QED
    BY <2>1, <2>2
<1>14. ASSUME NEW t \in Threads, TryGetBody(t) PROVE NobodySleepsOnWork'
  <2>1. CASE count # 0
    <3>1. /\ pc[t] = "tryget_body" /\ pc' = [pc EXCEPT ![t] = "get_signal"]
          /\ count' = count - 1 /\ UNCHANGED waiting
      BY <1>14, <2>1 DEF TryGetBody, Take
    <3>2. Fillers \subseteq Fillers' /\ t \in Fillers' \ Fillers
      BY <3>1 DEF Takers, Fillers
    <3>3. Takers \ {t} \subseteq Takers'
      BY <3>1 DEF Takers, Fillers
    <3>4. Cardinality(Fillers) + 1 <= Cardinality(Fillers')
      BY <1>0, <3>2, Counting
    <3>5. Cardinality(Takers) <= Cardinality(Takers') + 1
      BY <1>0, <3>3, Counting
    <3> QED
      BY <1>0, <3>1, <3>4, <3>5 DEF NobodySleepsOnWork
  <2>2. CASE count = 0
    <3>1. /\ Takers \subseteq Takers' /\ Fillers \subseteq Fillers'
          /\ UNCHANGED <<count, waiting>>
      BY <1>14, <2>2 DEF TryGetBody, Takers, Fillers
    <3> QED
      BY <3>1, CalmStep
  <2> QED
    BY <2>1, <2>2
<1>15. ASSUME UNCHANGED vars PROVE NobodySleepsOnWork'
  BY <1>15 DEF vars, NobodySleepsOnWork, Takers, Fillers
<1> QED
  BY <1>1, <1>2, <1>3, <1>4, <1>5, <1>6, <1>7, <1>8, <1>9, <1>10, <1>11, <1>12, <1>13, <1>14, <1>15 DEF Next, Continue, PutSome

(* No wakeup is lost, for any number of threads and any capacity, although *)
(* each put and each get signals one waiter only.                          *)
THEOREM NoWakeupIsLost == Spec => []NobodySleepsOnWork
<1>1. Init => NobodySleepsOnWork
  BY DEF Init, Mon!MonitorInit, NobodySleepsOnWork, Conds
<1>2. IInv /\ NobodySleepsOnWork /\ [Next]_vars => (IInv /\ NobodySleepsOnWork)'
  BY StepIInv, StepWork
<1> QED
  BY <1>1, <1>2, InitIInv, PTL DEF Spec

-----------------------------------------------------------------------------
(* The ring, read from head, is a sequence as long as count says.          *)
LEMMA ContentsForm ==
  ASSUME RingTypeOK
  PROVE  /\ Contents \in Seq(Values \cup {NIL})
         /\ Len(Contents) = count
         /\ \A i \in 1..count : Contents[i] = items[Wrapped(head + i - 1)]
<1> USE MessageQueueAssumption
<1>0. \A i \in 1..Capacity : (head + i - 1) % Capacity = Wrapped(head + i - 1)
  BY RingForm DEF RingTypeOK
<1>1. \A i \in 1..count : (head + i - 1) % Capacity = Wrapped(head + i - 1)
  BY <1>0 DEF RingTypeOK
<1>2. \A i \in 1..count : Wrapped(head + i - 1) \in Slots
  BY DEF Wrapped, RingTypeOK, Slots
<1>3. \A i \in 1..count : items[(head + i - 1) % Capacity] \in Values \cup {NIL}
  BY <1>1, <1>2 DEF RingTypeOK
<1>4. Contents \in Seq(Values \cup {NIL}) /\ Len(Contents) = count
  BY <1>3 DEF Contents, RingTypeOK
<1> QED
  BY <1>1, <1>4 DEF Contents

LEMMA ContentsFormNext ==
  (RingTypeOK => /\ Contents \in Seq(Values \cup {NIL})
                 /\ Len(Contents) = count
                 /\ \A i \in 1..count : Contents[i] = items[Wrapped(head + i - 1)])'
<1>1. RingTypeOK => /\ Contents \in Seq(Values \cup {NIL})
                    /\ Len(Contents) = count
                    /\ \A i \in 1..count : Contents[i] = items[Wrapped(head + i - 1)]
  BY ContentsForm
<1> QED
  BY <1>1, PTL

(* Two sequences are equal when their elements are.                        *)
LEMMA SameElements ==
  ASSUME NEW S, NEW s \in Seq(S), NEW u \in Seq(S), Len(s) = Len(u),
         \A i \in 1..Len(s) : s[i] = u[i]
  PROVE  s = u
OBVIOUS

(* A put appends its value.                                                *)
LEMMA StoreAppends ==
  ASSUME RingTypeOK, RingTypeOK', RingInv, NEW v \in Values, count # Capacity, Store(v)
  PROVE  Contents' = Append(Contents, v) /\ Len(Contents) < Capacity
<1> USE MessageQueueAssumption
<1>1. /\ Contents \in Seq(Values \cup {NIL}) /\ Len(Contents) = count
      /\ \A i \in 1..count : Contents[i] = items[Wrapped(head + i - 1)]
  BY ContentsForm
<1>2. /\ Contents' \in Seq(Values \cup {NIL}) /\ Len(Contents') = count'
      /\ \A i \in 1..count' : Contents'[i] = items'[Wrapped(head' + i - 1)]
  BY ContentsFormNext DEF Wrapped
<1>3. count' = count + 1 /\ head' = head /\ count \in 0..Capacity
  BY DEF Store, RingTypeOK
<1>4. tail = Wrapped(head + count)
  BY RingForm DEF Ring, RingTypeOK
<1>5. ASSUME NEW i \in 1..count PROVE Contents'[i] = Contents[i]
  <2>1. Wrapped(head + i - 1) # tail /\ Wrapped(head + i - 1) \in Slots
    BY <1>3, <1>4 DEF Wrapped, RingTypeOK, Slots
  <2>2. items'[Wrapped(head + i - 1)] = items[Wrapped(head + i - 1)]
    BY <2>1 DEF Store, RingTypeOK
  <2>3. i \in 1..count'
    BY <1>3
  <2> QED
    BY <1>1, <1>2, <1>3, <2>2, <2>3
<1>6. Contents'[count + 1] = v
  <2>1. Wrapped(head + (count + 1) - 1) = tail
    BY <1>3, <1>4 DEF Wrapped, RingTypeOK, Slots
  <2>2. items'[tail] = v
    BY DEF Store, RingTypeOK
  <2> QED
    BY <1>2, <1>3, <2>1, <2>2
<1>7. Append(Contents, v) \in Seq(Values \cup {NIL}) /\ Len(Append(Contents, v)) = count + 1
  BY <1>1
<1>8. \A i \in 1..(count + 1) : Contents'[i] = Append(Contents, v)[i]
  <2> TAKE i \in 1..(count + 1)
  <2>1. CASE i = count + 1
    BY <2>1, <1>1, <1>6
  <2>2. CASE i # count + 1
    <3>1. i \in 1..count
      BY <2>2, <1>3
    <3> QED
      BY <3>1, <1>1, <1>5
  <2> QED
    BY <2>1, <2>2
<1>9. Contents' = Append(Contents, v)
  BY <1>2, <1>3, <1>7, <1>8, SameElements
<1> QED
  BY <1>1, <1>3, <1>9

(* A get takes the oldest value.                                           *)
LEMMA TakeTakesHead ==
  ASSUME RingTypeOK, RingTypeOK', NEW t \in Threads, count # 0, Take(t)
  PROVE  /\ Contents # <<>>
         /\ Contents' = Tail(Contents)
         /\ result' = [result EXCEPT ![t] = Head(Contents)]
<1> USE MessageQueueAssumption
<1>1. /\ Contents \in Seq(Values \cup {NIL}) /\ Len(Contents) = count
      /\ \A i \in 1..count : Contents[i] = items[Wrapped(head + i - 1)]
  BY ContentsForm
<1>2. /\ Contents' \in Seq(Values \cup {NIL}) /\ Len(Contents') = count'
      /\ \A i \in 1..count' : Contents'[i] = items'[Wrapped(head' + i - 1)]
  BY ContentsFormNext DEF Wrapped
<1>3. /\ count' = count - 1 /\ head' = Wrapped(head + 1)
      /\ count \in 1..Capacity /\ head \in 0..(Capacity - 1)
  BY DEF Take, RingTypeOK, next_index, Wrapped, Slots
<1>4. Contents # <<>>
  BY <1>1, <1>3
<1>5. Head(Contents) = items[head]
  <2>1. Head(Contents) = Contents[1]
    BY <1>1, <1>4
  <2>2. Wrapped(head + 1 - 1) = head
    BY <1>3 DEF Wrapped
  <2> QED
    BY <1>1, <1>3, <2>1, <2>2
<1>6. /\ Tail(Contents) \in Seq(Values \cup {NIL})
      /\ Len(Tail(Contents)) = count'
      /\ \A i \in 1..count' : Tail(Contents)[i] = Contents[i + 1]
  BY <1>1, <1>3, <1>4
<1>7. ASSUME NEW i \in 1..count' PROVE Contents'[i] = Tail(Contents)[i]
  <2>1. i + 1 \in 1..count
    BY <1>3
  <2>2. Wrapped(head' + i - 1) = Wrapped(head + (i + 1) - 1)
    BY <1>3 DEF Wrapped
  <2>3. Wrapped(head' + i - 1) # head /\ Wrapped(head' + i - 1) \in Slots
    BY <1>3 DEF Wrapped, Slots
  <2>4. items'[Wrapped(head' + i - 1)] = items[Wrapped(head' + i - 1)]
    BY <2>3 DEF Take, RingTypeOK
  <2> QED
    BY <1>1, <1>2, <1>6, <2>1, <2>2, <2>4
<1>8. Contents' = Tail(Contents)
  BY <1>2, <1>6, <1>7, SameElements
<1> QED
  BY <1>4, <1>5, <1>8 DEF Take

(* Every step is a put, a get, a refusal or nothing at all.                *)
LEMMA StepRefines == IInv /\ IInv' /\ [Next]_vars => [BQ!BQNext]_(BQ!qvars)
<1> SUFFICES ASSUME IInv, IInv', [Next]_vars PROVE BQ!BQNext \/ UNCHANGED BQ!qvars
  OBVIOUS
<1> USE MessageQueueAssumption DEF ring
<1>0. RingTypeOK /\ RingTypeOK' /\ RingInv
  BY DEF IInv, TypeOK, RingTypeOK
<1>1. ASSUME UNCHANGED <<ring, result>> PROVE UNCHANGED BQ!qvars
  BY <1>1 DEF BQ!qvars, Contents
<1>2. ASSUME NEW t \in Threads, NEW v \in Values, count # Capacity, Store(v), UNCHANGED result
      PROVE  BQ!BQNext
  BY <1>0, <1>2, StoreAppends DEF BQ!BQNext, BQ!BQPut
<1>3. ASSUME NEW t \in Threads, count # 0, Take(t) PROVE BQ!BQNext
  BY <1>0, <1>3, TakeTakesHead DEF BQ!BQNext, BQ!BQGet
<1>4. ASSUME NEW t \in Threads, result' = [result EXCEPT ![t] = NIL], UNCHANGED ring
      PROVE  BQ!BQNext
  BY <1>4 DEF BQ!BQNext, BQ!BQRefuse, Contents
<1>5. ASSUME NEW t \in Threads, PutLoop(t) PROVE BQ!BQNext \/ UNCHANGED BQ!qvars
  <2>1. value[t] \in Values
    BY <1>5 DEF PutLoop, IInv, CallInv
  <2> QED
    BY <1>1, <1>2, <1>5, <2>1 DEF PutLoop
<1>6. ASSUME NEW t \in Threads, TryPutBody(t) PROVE BQ!BQNext \/ UNCHANGED BQ!qvars
  <2>1. value[t] \in Values
    BY <1>6 DEF TryPutBody, IInv, CallInv
  <2> QED
    BY <1>1, <1>2, <1>6, <2>1 DEF TryPutBody
<1>7. ASSUME NEW t \in Threads, GetLoop(t) PROVE BQ!BQNext \/ UNCHANGED BQ!qvars
  BY <1>1, <1>3, <1>7 DEF GetLoop
<1>8. ASSUME NEW t \in Threads, TryGetBody(t) PROVE BQ!BQNext \/ UNCHANGED BQ!qvars
  BY <1>3, <1>4, <1>8 DEF TryGetBody
<1>9. ASSUME NEW t \in Threads, TryGet(t) PROVE BQ!BQNext \/ UNCHANGED BQ!qvars
  BY <1>1, <1>4, <1>9 DEF TryGet
<1>10. ASSUME NEW t \in Threads, NEW v \in Values,
              \/ Put(t, v) \/ TryPut(t, v) \/ PutAwake(t) \/ PutSignal(t) \/ Get(t)
              \/ GetAwake(t) \/ GetSignal(t) \/ Unlock(t) \/ SpuriousWakeup(t)
       PROVE  UNCHANGED BQ!qvars
  BY <1>1, <1>10
  DEF Put, TryPut, PutAwake, PutSignal, Get, GetAwake, GetSignal, Unlock, SpuriousWakeup
<1>11. ASSUME NEW t \in Threads,
              \/ PutAwake(t) \/ PutSignal(t) \/ Get(t)
              \/ GetAwake(t) \/ GetSignal(t) \/ Unlock(t) \/ SpuriousWakeup(t)
       PROVE  UNCHANGED BQ!qvars
  BY <1>1, <1>11
  DEF PutAwake, PutSignal, Get, GetAwake, GetSignal, Unlock, SpuriousWakeup
<1>12. ASSUME UNCHANGED vars PROVE UNCHANGED BQ!qvars
  BY <1>1, <1>12 DEF vars
<1> QED
  BY <1>5, <1>6, <1>7, <1>8, <1>9, <1>10, <1>11, <1>12
  DEF Next, Continue, PutSome, Threads

(* The queue is first in, first out: MessageQueue implements BoundedQueue. *)
THEOREM QueueRefinesBoundedQueue == Spec => ImplementsBoundedQueue
<1>1. Init => BQ!BQInit
  <2> SUFFICES ASSUME Init PROVE BQ!BQInit
    OBVIOUS
  <2>1. Contents = <<>>
    BY DEF Init, Contents
  <2> QED
    BY <2>1 DEF Init, BQ!BQInit
<1>2. IInv /\ IInv' /\ [Next]_vars => [BQ!BQNext]_(BQ!qvars)
  BY StepRefines
<1> QED
  BY <1>1, <1>2, InitIInv, StepIInv, PTL DEF Spec, ImplementsBoundedQueue, BQ!BQSpec
====
