------------------------------- MODULE Tables -------------------------------
(***************************************************************************)
(* src/src/classes/Set.c, Dictionary.c and IdentityDictionary.c: sets and  *)
(* dictionaries by equality or by identity, strong or weak, over one kind  *)
(* of hash table.  Equal keys need not be one object.  A walk over a       *)
(* collection calls back into the program, which may change it meanwhile.  *)
(***************************************************************************)
EXTENDS Integers, Sequences, FiniteSets, SequencesExt

CONSTANTS TableKeys,   \* a class of equal keys, and which of them it is
          TableValues,
          HashOf,      \* per class, its hash
          Mask,        \* buckets less one of a new table (7 in the code)
          FirstLists,  \* what a collection is made from
          MaxChanges

ASSUME TableAssumption ==
  /\ Mask \in Nat
  /\ HashOf \in [DOMAIN HashOf -> Nat]
  /\ TableKeys \subseteq [same : DOMAIN HashOf, copy : Nat]
  /\ FirstLists \subseteq Seq(TableKeys \X TableValues)

VARIABLES kind,
          table,     \* buckets of entries, and the count
          contents,  \* history: what should be in it
          changes,
          walk       \* what a walk has still to see, and what it saw

tableVars == <<kind, table, contents, changes, walk>>

Dictionary == "Dictionary"
WeakValues == "WeakValueIdentityDictionary"
IdentityDictionaries == {"IdentityDictionary", "WeakKeyIdentityDictionary", WeakValues}
TableKinds == {"Set", "IdentitySet", "WeakIdentitySet", Dictionary} \cup IdentityDictionaries
HasValues(knd) == knd = Dictionary \/ knd \in IdentityDictionaries
ByIdentity(knd) == knd \notin {"Set", Dictionary}
WeakKinds == {"WeakIdentitySet", "WeakKeyIdentityDictionary", WeakValues}

TableHash(knd, k) == HashOf[k.same] + (IF ByIdentity(knd) THEN k.copy ELSE 0)
EqualKeys(knd, k, l) == IF ByIdentity(knd) THEN k = l ELSE k.same = l.same

EmptyTable == [buckets |-> [b \in 1..Mask + 1 |-> <<>>], count |-> 0]
BucketFor(t, hash) == (hash % Len(t.buckets)) + 1

(* A key is found though its value died, and has no value then. *)
FoundEntries(knd, t, k) ==
  {e \in ToSet(t.buckets[BucketFor(t, TableHash(knd, k))]) :
     (e.alive \/ knd = WeakValues) /\ EqualKeys(knd, e.key, k)}
Matching(knd, t, k) == {e \in FoundEntries(knd, t, k) : e.alive}

(* The entries of a bucket go to two buckets, turned round; those that     *)
(* died are dropped.                                                       *)
Those(bucket, entries) ==
  FlattenSeq([i \in DOMAIN bucket |-> IF bucket[i] \in entries THEN <<bucket[i]>> ELSE <<>>])
Moved(knd, t, b) ==
  LET size == Len(t.buckets)
      old == t.buckets[((b - 1) % size) + 1]
  IN Those(old, {e \in ToSet(old) : e.alive /\ (TableHash(knd, e.key) % (2 * size)) + 1 = b})
GrownTable(knd, t) ==
  LET buckets == [b \in 1..2 * Len(t.buckets) |-> Reverse(Moved(knd, t, b))]
  IN [buckets |-> buckets, count |-> Len(FlattenSeq(buckets))]

Pushed(knd, t, k, value) ==
  [buckets |-> [t.buckets EXCEPT ![BucketFor(t, TableHash(knd, k))] =
                  <<[key |-> k, value |-> value, alive |-> TRUE]>> \o @],
   count |-> t.count + 1]
MakeRoom(knd, t) == IF t.count > Len(t.buckets) - 1 THEN GrownTable(knd, t) ELSE t

(* A set keeps the element it has. *)
SetPut(knd, t, k) == IF Matching(knd, t, k) # {} THEN t ELSE Pushed(knd, MakeRoom(knd, t), k, 0)

(* A dictionary keeps the key it has and takes the value, which may bring  *)
(* an entry back.                                                          *)
SetValue(knd, t, k, value) ==
  [t EXCEPT !.buckets[BucketFor(t, TableHash(knd, k))] =
     [i \in DOMAIN @ |-> IF @[i] \in FoundEntries(knd, t, k)
                           THEN [@[i] EXCEPT !.value = value, !.alive = TRUE] ELSE @[i]]]
DictionaryPut(knd, t, k, value) ==
  IF FoundEntries(knd, t, k) # {} THEN SetValue(knd, t, k, value) ELSE Pushed(knd, MakeRoom(knd, t), k, value)
TablePut(knd, t, k, value) ==
  IF HasValues(knd) THEN DictionaryPut(knd, t, k, value) ELSE SetPut(knd, t, k)

(* The first that is found is taken out. *)
Position(bucket, entries) == SelectInSeq(bucket, LAMBDA e : e \in entries)
TableRemove(knd, t, k) ==
  IF FoundEntries(knd, t, k) = {} THEN t
  ELSE [buckets |-> [t.buckets EXCEPT ![BucketFor(t, TableHash(knd, k))] =
                       RemoveAt(@, Position(@, FoundEntries(knd, t, k)))],
        count |-> t.count - 1]

(* A dictionary lists its associations in the order of the buckets, a set  *)
(* its elements in the other order.                                        *)
EntriesOf(t) == LET all == FlattenSeq(t.buckets) IN Those(all, {e \in ToSet(all) : e.alive})
AsList(knd, t) == IF HasValues(knd) THEN EntriesOf(t) ELSE Reverse(EntriesOf(t))
KeysList(t) == [i \in DOMAIN EntriesOf(t) |-> [Reverse(EntriesOf(t))[i] EXCEPT !.value = 0]]
FromList(knd, list) ==
  LET made[n \in 0..Len(list)] ==
        IF n = 0 THEN EmptyTable ELSE TablePut(knd, made[n - 1], list[n][1], list[n][2])
  IN made[Len(list)]

----------------------------------------------------------------------------
NoWalk == [op |-> "none", todo |-> <<>>, seen |-> <<>>, truth |-> TRUE, asked |-> <<>>]

(* What a put should leave: the first of equal keys, the last value. *)
ContentsPut(knd, held, k, value) ==
  LET old == {p \in held : EqualKeys(knd, p[1], k)}
  IN CASE old = {} -> held \cup {<<k, IF HasValues(knd) THEN value ELSE 0>>}
       [] old # {} /\ HasValues(knd) -> (held \ old) \cup {<<p[1], value>> : p \in old}
       [] OTHER -> held
ContentsFrom(knd, list) ==
  LET held[n \in 0..Len(list)] ==
        IF n = 0 THEN {} ELSE ContentsPut(knd, held[n - 1], list[n][1], list[n][2])
  IN held[Len(list)]

TableInit ==
  /\ kind \in TableKinds /\ changes = 0 /\ walk = NoWalk
  /\ \E list \in FirstLists :
       /\ table = FromList(kind, list)
       /\ contents = ContentsFrom(kind, list)
TableIdle == /\ kind = "Set" /\ table = EmptyTable /\ contents = {} /\ changes = 0 /\ walk = NoWalk

Change == changes < MaxChanges /\ changes' = changes + 1 /\ UNCHANGED <<kind, walk>>
PutKey == \E k \in TableKeys, value \in IF HasValues(kind) THEN TableValues ELSE {0} :
            /\ Change /\ table' = TablePut(kind, table, k, value)
            /\ contents' = ContentsPut(kind, contents, k, value)
(* Every kind has a remove (Set.c:354, Dictionary.c:745,                   *)
(* IdentityDictionary.c:963).                                              *)
RemoveTableKey == \E k \in TableKeys :
               /\ Change /\ table' = TableRemove(kind, table, k)
               /\ contents' = {p \in contents : ~EqualKeys(kind, p[1], k)}

(* The collector takes an element, a key or a value that nothing else      *)
(* holds; a walk holds the list it walks.                                  *)
DiesWith(knd, k, value, p) == IF knd = WeakValues THEN value = p[2] ELSE k = p[1]
Dead(knd, e, p) == IF DiesWith(knd, e.key, e.value, p) THEN [e EXCEPT !.alive = FALSE] ELSE e
Collected(knd, t, p) ==
  [t EXCEPT !.buckets = [b \in DOMAIN @ |-> [i \in DOMAIN @[b] |-> Dead(knd, @[b][i], p)]]]
EntryDies == \E p \in contents :
  /\ kind \in WeakKinds /\ \A e \in ToSet(walk.todo) : ~DiesWith(kind, e.key, e.value, p)
  /\ contents' = {q \in contents : ~DiesWith(kind, q[1], q[2], p)}
  /\ table' = Collected(kind, table, p)
  /\ UNCHANGED <<kind, changes, walk>>

(* A walk lists the collection first; reduce starts from an element, and   *)
(* the other kinds call back for each.  A C caller may walk the keys.      *)
SetWalks == {"forEach", "any", "every", "inject", "reduce"}
DictionaryWalks == {"forEach", "map"}
Walks == CASE kind = Dictionary -> DictionaryWalks
           [] kind \in IdentityDictionaries -> DictionaryWalks \cup {"keysDo"}
           [] OTHER -> SetWalks
StartWalk == \E op \in Walks :
  LET list == IF op = "keysDo" THEN KeysList(table) ELSE AsList(kind, table)
  IN /\ walk.op = "none" /\ UNCHANGED <<kind, table, contents, changes>>
     /\ IF op = "reduce"
          THEN /\ list # <<>>
               /\ walk' = [op |-> op, todo |-> Tail(list), seen |-> <<Head(list)>>,
                           truth |-> TRUE, asked |-> list]
          ELSE walk' = [op |-> op, todo |-> list, seen |-> <<>>, truth |-> TRUE, asked |-> list]

Decides(op, truth) == (op = "any" /\ truth) \/ (op = "every" /\ ~truth)
CallBack == \E truth \in BOOLEAN :
  /\ walk.todo # <<>> /\ (walk.op \notin {"any", "every"} => truth)
  /\ walk' = [walk EXCEPT !.todo = IF Decides(walk.op, truth) THEN <<>> ELSE Tail(@),
                          !.seen = Append(@, Head(walk.todo)), !.truth = truth]
  /\ UNCHANGED <<kind, table, contents, changes>>
TableNext == PutKey \/ RemoveTableKey \/ EntryDies \/ StartWalk \/ CallBack

----------------------------------------------------------------------------
(* Whatever was put, replaced, removed, grown or collected, a lookup finds *)
(* each key that should be there, under any equal key and in one entry,    *)
(* and no other; and the count is that of the entries, the dead included,  *)
(* so the table grows when it is full (Set.c:310, Dictionary.c:299,        *)
(* IdentityDictionary.c:898).                                              *)
TableIsMap ==
  /\ \A k \in TableKeys :
       {<<e.key, e.value>> : e \in Matching(kind, table, k)} = {p \in contents : EqualKeys(kind, p[1], k)}
  /\ {<<e.key, e.value>> : e \in ToSet(EntriesOf(table))} = contents
  /\ Len(EntriesOf(table)) = Cardinality(contents)
  /\ table.count = Len(FlattenSeq(table.buckets)) /\ table.count <= Len(table.buckets)

(* A walk sees what was there when it began, each element once, whatever   *)
(* its callbacks do to the collection, and stops early only with the       *)
(* answer decided (Set.c:401).                                             *)
WalksSeeOnce ==
  walk.op # "none" /\ walk.todo = <<>> =>
    /\ IsInjective(walk.seen) /\ IsPrefix(walk.seen, walk.asked)
    /\ walk.seen # walk.asked => Decides(walk.op, walk.truth)
=============================================================================
