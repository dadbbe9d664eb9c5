------------------------------ MODULE Classes ------------------------------
(***************************************************************************)
(* src/src/classes/Class.c: making classes, the precedence list methods    *)
(* are looked up in, and where an instance keeps its slots.  Classes are   *)
(* numbered in the order they are made; the native ones, of which there is *)
(* a choice, come first.  Sizes are in words.                              *)
(***************************************************************************)
EXTENDS Integers, Sequences, FiniteSets, SequencesExt

CONSTANTS NativeChoices, \* sequences of native classes to begin with
          SlotNames,     \* names of slots of classes made by the program
          MaxClasses     \* bound: the native classes and those the program makes

VARIABLES classes, \* the classes
          attempt  \* history: the last list of superclasses and what came of it

classVars == <<classes, attempt>>

HeaderSize == 1  \* sizeof(LT_Object)
NoLayout == 0

--------------------------------------------------------------------------
(* make_precedence_list *)

(* The classes reachable from class 0 of the list, in the order a breadth- *)
(* first walk meets them.                                                  *)
Discover(supers, self) ==
  LET AddNew(found, s) == IF s \in ToSet(found) THEN found ELSE Append(found, s)
      Step(found, i) == IF i > Len(found) THEN found
                        ELSE FoldLeft(AddNew, found, supers[found[i]])
  IN FoldLeft(Step, <<self>>, [i \in DOMAIN supers |-> i])

(* Mutant of Edges: the order in which superclasses were given is lost. *)
EdgesUnordered(supers, found) ==
  UNION {{<<found[i], s>> : s \in ToSet(supers[found[i]])} : i \in DOMAIN found}

(* A class before its superclasses, and those in their order. *)
Edges(supers, found) ==
  UNION {LET l == supers[found[i]] IN
         {<<found[i], l[j]>> : j \in DOMAIN l}
         \cup {<<l[j], l[j + 1]>> : j \in 1..(Len(l) - 1)} : i \in DOMAIN found}

(* Of the classes nothing is left to come before, the one found first.     *)
(* A list that stays short is "Inconsistent class precedence graph".       *)
Linearize(supers, self) ==
  LET found == Discover(supers, self)
      edges == Edges(supers, found)
      Ready(out) == {i \in DOMAIN found :
                       /\ found[i] \notin ToSet(out)
                       /\ \A e \in edges : e[2] = found[i] => e[1] \in ToSet(out)}
      Step(out, k) == IF Ready(out) = {} THEN out
                      ELSE Append(out, found[CHOOSE i \in Ready(out) :
                                               \A j \in Ready(out) : i <= j])
  IN FoldLeft(Step, <<>>, found)
Consistent(supers, self) == Len(Linearize(supers, self)) = Len(Discover(supers, self))

(* The metaclass of a class inherits from those of its superclasses, that  *)
(* of a native class from the first of them only; where they end come      *)
(* Class and Object, which are left out here.                              *)
MetaSuperclasses(native, superclasses) ==
  IF native /\ superclasses # <<>> THEN <<Head(superclasses)>> ELSE superclasses

--------------------------------------------------------------------------
(* materialize_dynamic_slots *)

SlotsOf(c) == classes[c].slots
Precedes(a, b) == b \in ToSet(classes[a].precedence)

(* native_slot_layout_class *)
LayoutClass(c) ==
  LET candidates == SelectSeq(classes[c].precedence, LAMBDA k :
        classes[k].native /\ (SlotsOf(k) # <<>> \/ classes[k].size > HeaderSize))
  IN IF candidates = <<>> THEN NoLayout ELSE Head(candidates)

(* One native layout below all the others, or an error. *)
UNRELATED == -1
Narrower(a, b) ==
  CASE a = UNRELATED -> UNRELATED
    [] a # UNRELATED /\ (b = NoLayout \/ a = b) -> a
    [] a # UNRELATED /\ b # NoLayout /\ a # b /\ (a = NoLayout \/ Precedes(b, a)) -> b
    [] OTHER -> IF Precedes(a, b) THEN a ELSE UNRELATED
Layout(superclasses) ==
  FoldLeft(Narrower, NoLayout, [i \in DOMAIN superclasses |-> LayoutClass(superclasses[i])])

(* A slot is a name and an offset; a name that is present is not added. *)
AddSlot(state, name) ==
  IF \E i \in DOMAIN state.slots : state.slots[i].name = name THEN state
  ELSE [slots |-> Append(state.slots, [name |-> name, offset |-> state.next]),
        next |-> state.next + 1]
AddSlots(state, slots) == FoldLeft(LAMBDA s, slot : AddSlot(s, slot.name), state, slots)
MakeSlots(superclasses, names) ==
  LET native == Layout(superclasses)
      start == [slots |-> IF native = NoLayout THEN <<>> ELSE SlotsOf(native),
                next |-> IF native = NoLayout THEN HeaderSize ELSE classes[native].size]
      inherited == FoldLeft(LAMBDA s, c : AddSlots(s, SlotsOf(c)), start, superclasses)
  IN FoldLeft(AddSlot, inherited, names)

--------------------------------------------------------------------------

Native(superclasses, slots, size) ==
  [superclasses |-> superclasses, slots |-> slots, size |-> size, native |-> TRUE]

(* LT_init_native_class of each. *)
ClassInit ==
  /\ \E natives \in NativeChoices :
       LET supers == [k \in DOMAIN natives |-> natives[k].superclasses]
           metaSupers == [k \in DOMAIN natives |-> MetaSuperclasses(TRUE, supers[k])]
       IN classes = [c \in DOMAIN natives |->
                       [superclasses |-> supers[c],
                        slots |-> natives[c].slots,
                        size |-> natives[c].size,
                        native |-> TRUE,
                        precedence |-> Linearize(supers, c),
                        metaPrecedence |-> Linearize(metaSupers, c)]]
  /\ attempt = [superclasses |-> <<>>, made |-> TRUE]

Supers == [c \in DOMAIN classes |-> classes[c].superclasses]
MetaSupers ==
  [c \in DOMAIN classes |-> MetaSuperclasses(classes[c].native, classes[c].superclasses)]

(* LT_Class_new makes the metaclass first. *)
DefineClass(superclasses, names) ==
  LET self == Len(classes) + 1
      metaSupers == Append(MetaSupers, superclasses)
      supers == Append(Supers, superclasses)
      made == MakeSlots(superclasses, names) IN
  /\ self <= MaxClasses
  /\ IF Consistent(metaSupers, self) /\ Consistent(supers, self) /\ Layout(superclasses) # UNRELATED
     THEN /\ classes' = Append(classes,
                               [superclasses |-> superclasses, slots |-> made.slots,
                                size |-> made.next, native |-> FALSE,
                                precedence |-> Linearize(supers, self),
                                metaPrecedence |-> Linearize(metaSupers, self)])
          /\ attempt' = [superclasses |-> superclasses, made |-> TRUE]
     ELSE /\ attempt' = [superclasses |-> superclasses, made |-> FALSE]
          /\ UNCHANGED classes

SuperclassLists == {<<>>} \cup {<<c>> : c \in DOMAIN classes}
                   \cup {<<c, d>> : c, d \in DOMAIN classes}

(* A refusal changes no class, so what would follow it follows without it. *)
ClassNext == /\ attempt.made
             /\ \E superclasses \in SuperclassLists, names \in {<<>>} \cup {<<s>> : s \in SlotNames} :
                  DefineClass(superclasses, names)

--------------------------------------------------------------------------

RECURSIVE Ancestors(_, _)
Ancestors(supers, c) == {c} \cup UNION {Ancestors(supers, supers[c][i]) : i \in DOMAIN supers[c]}

(* No set of classes each of which has to come after another of the set. *)
Satisfiable(supers, self) ==
  LET all == Ancestors(supers, self)
      Before(a, b) == \E c \in all : \/ c = a /\ b \in ToSet(supers[c])
                                     \/ \E j \in 1..(Len(supers[c]) - 1) :
                                          supers[c][j] = a /\ supers[c][j + 1] = b
  IN \A S \in (SUBSET all) \ {{}} : \E b \in S : \A a \in S : ~Before(a, b)

Orders(supers, c, p) ==
  LET Position(k) == CHOOSE i \in DOMAIN p : p[i] = k IN
  /\ ToSet(p) = Ancestors(supers, c) /\ Len(p) = Cardinality(ToSet(p)) /\ p[1] = c
  /\ \A k \in ToSet(p) :
       /\ \A i \in DOMAIN supers[k] : Position(k) < Position(supers[k][i])
       /\ \A i \in 1..(Len(supers[k]) - 1) : Position(supers[k][i]) < Position(supers[k][i + 1])

(* Methods of a class are found before those of the classes it inherits    *)
(* from, superclasses in the order they were given, every ancestor once,   *)
(* and so are the methods of the class itself, in its metaclass; and       *)
(* superclasses are refused for their order only if no order will do       *)
(* (Class.c:694, 1069).                                                    *)
PrecedenceSound ==
  /\ \A c \in DOMAIN classes : /\ Orders(Supers, c, classes[c].precedence)
                               /\ Orders(MetaSupers, c, classes[c].metaPrecedence)
  /\ ~attempt.made =>
       \/ ~Satisfiable(Append(Supers, attempt.superclasses), Len(classes) + 1)
       \/ ~Satisfiable(Append(MetaSupers, attempt.superclasses), Len(classes) + 1)
       \/ Layout(attempt.superclasses) = UNRELATED

(* In an instance of a class the program made no two slots share a word,   *)
(* none lies outside it, and it has every slot of its ancestors, where the *)
(* code of native ancestors expects those of theirs (Class.c:836).         *)
SlotsApart ==
  \A c \in {k \in DOMAIN classes : ~classes[k].native} :
    LET slots == SlotsOf(c) IN
    /\ \A i, j \in DOMAIN slots :
         (slots[i].offset = slots[j].offset \/ slots[i].name = slots[j].name) => i = j
    /\ \A i \in DOMAIN slots : slots[i].offset \in HeaderSize..(classes[c].size - 1)
    /\ \A k \in ToSet(classes[c].precedence) :
         /\ {s.name : s \in ToSet(SlotsOf(k))} \subseteq {s.name : s \in ToSet(slots)}
         /\ classes[k].native => /\ ToSet(SlotsOf(k)) \subseteq ToSet(slots)
                                 /\ classes[k].size <= classes[c].size

(* A class that was made can be relied on, to look methods up in and to    *)
(* keep slots in.                                                          *)
ClassesSound == PrecedenceSound /\ SlotsApart
============================================================================
