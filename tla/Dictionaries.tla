---------------------------- MODULE Dictionaries ----------------------------
(***************************************************************************)
(* src/src/classes/IdentityDictionary.c (and the table of vm/utils.c it is *)
(* made of): a chained hash table, one lock held for each call, and an     *)
(* iterator that keeps an entry and a bucket number between calls while    *)
(* others put, remove, grow the table or let weak keys die.                *)
(***************************************************************************)
EXTENDS Naturals, Sequences, FiniteSets

CONSTANTS Keys,         \* naturals: a key is its own hash
          WeakKeys,     \* those nothing but the dictionary refers to
          InitialMask,  \* buckets less one of a new table (7 in the code)
          MaxEntries    \* bound: entries made in a behaviour

ASSUME KeysAssumption == Keys \subseteq Nat
ASSUME InitialMaskAssumption == InitialMask \in Nat
ASSUME MaxEntriesAssumption == MaxEntries \in Nat

VARIABLES
  entry,    \* per entry made: its key, its next entry and whether the key lives
  vector,   \* per bucket the first entry, 0 for none
  count,    \* LT_InlineHash.count
  iter,     \* the iterator: where it is, bucket_index, table_entry
  visits,   \* history: how often the iteration answered each key
  stayed,   \* history: the keys present since it began
  grown     \* history: the table grew since it began

dictionaryVars == <<entry, vector, count, iter, visits, stayed, grown>>

Entries == 1..Len(entry)
Size == Len(vector)               \* mask + 1; bucket i is vector[i + 1]
Bucket(k, n) == (k % n) + 1

DictionaryTypeOK ==
  /\ entry \in Seq([key : Keys, next : 0..MaxEntries, alive : BOOLEAN])
  /\ Len(entry) <= MaxEntries
  /\ vector \in Seq(0..MaxEntries)
  /\ count \in 0..MaxEntries
  /\ iter \in [at : {"none", "find", "current", "end"}, bucket : Nat \ {0}, entry : 0..MaxEntries]
  /\ visits \in [Keys -> Nat]
  /\ stayed \subseteq Keys /\ grown \in BOOLEAN

(* The entries that are met from e on, along next. *)
ChainFrom(e) ==
  LET met[x \in 0..Len(entry)] == IF x = 0 THEN {} ELSE {x} \cup met[entry[x].next]
  IN met[e]
Chain(b) == ChainFrom(vector[b])

(* The first and the last of some entries of one chain. *)
FirstOf(S) == CHOOSE e \in S : S \subseteq ChainFrom(e)
LastOf(S) == CHOOSE e \in S : \A x \in S : e \in ChainFrom(x)

(* dictionary_find_entry: a dead weak key matches nothing. *)
Live(S) == {e \in S : entry[e].alive}
Found(k) == {e \in Live(Chain(Bucket(k, Size))) : entry[e].key = k}
PresentKeys == {k \in Keys : Found(k) # {}}

NoIterator == [at |-> "none", bucket |-> 1, entry |-> 0]

DictionaryInit ==
  /\ entry = <<>>
  /\ vector = [b \in 1..(InitialMask + 1) |-> 0]
  /\ count = 0
  /\ iter = NoIterator
  /\ visits = [k \in Keys |-> 0]
  /\ stayed = {} /\ grown = FALSE

--------------------------------------------------------------------------

(* dictionary_grow_table: twice the buckets; live entries are pushed on    *)
(* the new chains in the order of the old ones, so the last comes first;   *)
(* dead ones are dropped, and keep their next.  An old bucket's entries go *)
(* to two new ones.                                                        *)
Kept(b) == {e \in Live(Chain(((b - 1) % Size) + 1)) : Bucket(entry[e].key, 2 * Size) = b}
TopOf(S) == IF S = {} THEN 0 ELSE LastOf(S)
PushedBefore(e) == {x \in Kept(Bucket(entry[e].key, 2 * Size)) : x # e /\ e \in ChainFrom(x)}
GrownVector == [b \in 1..(2 * Size) |-> TopOf(Kept(b))]
GrownEntry == [e \in Entries |->
                 IF e \in Kept(Bucket(entry[e].key, 2 * Size))
                 THEN [entry[e] EXCEPT !.next = TopOf(PushedBefore(e))]
                 ELSE entry[e]]
LiveCount == Cardinality(Live(UNION {Chain(b) : b \in 1..Size}))

(* A new entry is pushed at the head of its chain. *)
PushOn(v, es, k) ==
  LET b == Bucket(k, Len(v)) IN
  /\ entry' = Append(es, [key |-> k, next |-> v[b], alive |-> TRUE])
  /\ vector' = [v EXCEPT ![b] = Len(es) + 1]

(* LT_IdentityDictionary_atPut of a key that is not there. *)
AtPut(k) ==
  /\ Found(k) = {} /\ Len(entry) < MaxEntries
  /\ IF count > Size - 1
     THEN PushOn(GrownVector, GrownEntry, k) /\ count' = LiveCount + 1 /\ grown' = TRUE
     ELSE PushOn(vector, entry, k) /\ count' = count + 1 /\ UNCHANGED grown
  /\ UNCHANGED <<iter, visits, stayed>>

(* Mutant of RemoveKey: an entry that is removed forgets its next one. *)
RemoveKeyCutsNext(k) ==
  \E e \in Found(k) :
    LET b == Bucket(k, Size)
        before == {p \in Chain(b) : entry[p].next = e} IN
    /\ vector' = IF before = {} THEN [vector EXCEPT ![b] = entry[e].next] ELSE vector
    /\ entry' = [p \in Entries |->
                    CASE p = e -> [entry[p] EXCEPT !.next = 0]
                      [] p # e /\ p \in before -> [entry[p] EXCEPT !.next = entry[e].next]
                      [] OTHER -> entry[p]]
    /\ count' = count - 1
    /\ stayed' = stayed \ {k}
    /\ UNCHANGED <<iter, visits, grown>>

(* LT_IdentityDictionary_remove unlinks the entry, which keeps its next.   *)
RemoveKey(k) ==
  \E e \in Found(k) :
    LET b == Bucket(k, Size)
        before == {p \in Chain(b) : entry[p].next = e} IN
    /\ IF before = {}
       THEN vector' = [vector EXCEPT ![b] = entry[e].next] /\ UNCHANGED entry
       ELSE /\ entry' = [p \in Entries |->
                           IF p \in before THEN [entry[p] EXCEPT !.next = entry[e].next]
                           ELSE entry[p]]
            /\ UNCHANGED vector
    /\ count' = count - 1
    /\ stayed' = stayed \ {k}
    /\ UNCHANGED <<iter, visits, grown>>

(* The collector clears the weak key of an entry; its object is gone, and  *)
(* a later object may have its address.  The iterator's current pair keeps *)
(* its key alive.                                                          *)
KeyDies(e) ==
  /\ entry[e].alive /\ entry[e].key \in WeakKeys
  /\ ~(iter.at = "current" /\ iter.entry = e)
  /\ entry' = [entry EXCEPT ![e].alive = FALSE]
  /\ stayed' = IF e \in Found(entry[e].key) THEN stayed \ {entry[e].key} ELSE stayed
  /\ UNCHANGED <<vector, count, iter, visits, grown>>

--------------------------------------------------------------------------

(* identity_dictionary_iterator_new. *)
NewIterator ==
  /\ iter.at = "none"
  /\ iter' = [NoIterator EXCEPT !.at = "find"]
  /\ stayed' = PresentKeys /\ grown' = FALSE
  /\ UNCHANGED <<entry, vector, count, visits>>

(* identity_dictionary_iterator_advance: its first critical section. *)
Advance ==
  /\ iter.at = "current"
  /\ iter' = [iter EXCEPT !.at = "find", !.entry = entry[iter.entry].next]
  /\ UNCHANGED <<entry, vector, count, visits, stayed, grown>>

(* identity_dictionary_iterator_find_current: the rest of this chain, then *)
(* the buckets from bucket_index on, up to the first live entry.           *)
FindCurrent ==
  /\ iter.at = "find"
  /\ LET here == Live(ChainFrom(iter.entry))
         later == {b \in iter.bucket..Size : Live(Chain(b)) # {}}
         b == CHOOSE x \in later : \A y \in later : x <= y
         e == FirstOf(IF here # {} THEN here ELSE Live(Chain(b)))
     IN
     IF here = {} /\ later = {}
     THEN /\ iter' = [at |-> "end", entry |-> 0,
                      bucket |-> IF iter.bucket > Size THEN iter.bucket ELSE Size + 1]
          /\ UNCHANGED visits
     ELSE /\ iter' = [at |-> "current", entry |-> e,
                      bucket |-> IF here # {} THEN iter.bucket ELSE b + 1]
          /\ visits' = [visits EXCEPT ![entry[e].key] = @ + 1]
  /\ UNCHANGED <<entry, vector, count, stayed, grown>>

DictionaryNext ==
  \/ \E k \in Keys : AtPut(k) \/ RemoveKey(k)
  \/ \E e \in Entries : KeyDies(e)
  \/ NewIterator \/ Advance \/ FindCurrent

DictionarySpec == DictionaryInit /\ [][DictionaryNext]_dictionaryVars

--------------------------------------------------------------------------

(* An iteration that ends has answered each key that was there all the     *)
(* time exactly once, though entries, the current one and the next one     *)
(* included, were removed, added or died between two calls of the iterator *)
(* (IdentityDictionary.c:165).  Only a table that grew meanwhile breaks    *)
(* this.                                                                   *)
StayersVisitedOnce ==
  iter.at = "end" /\ ~grown => \A k \in stayed : visits[k] = 1
==========================================================================
