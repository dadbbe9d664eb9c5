-------------------------- MODULE GenericFunctions --------------------------
(***************************************************************************)
(* src/runtime/init.lt: a generic function of Parameters parameters, its   *)
(* methods, and which of them a call runs, in which order.  Methods are    *)
(* taken to call the next method once; what a method does is left out.     *)
(***************************************************************************)
EXTENDS Classes

CONSTANTS Parameters,    \* the number of its parameters
          MethodClasses, \* bound: the classes methods are written for
          MaxMethods,    \* bound
          ClassesFirst   \* bound: classes there are before the first method

VARIABLE methods  \* the newest first, [qualifier, specializers] each

genericVars == <<classVars, methods>>

Qualifiers == {"primary", "before", "after", "around"}

GenericInit == methods = <<>>

(* GenericFunction>>addMethod: replaces the method of the same qualifier   *)
(* and specializers.                                                       *)
AddMethod(m) == methods' = <<m>> \o SelectSeq(methods, LAMBDA old : old # m)

--------------------------------------------------------------------------
(* merge_sort_values, with a comparator that answers -1, 0 or 1. *)

Merge(l, r, Compare(_, _)) ==
  LET Step(state, k) ==
        IF \/ state.right = <<>>
           \/ state.left # <<>> /\ Compare(Head(state.left), Head(state.right)) <= 0
        THEN [state EXCEPT !.left = Tail(@), !.out = Append(@, Head(state.left))]
        ELSE [state EXCEPT !.right = Tail(@), !.out = Append(@, Head(state.right))]
  IN FoldLeft(Step, [left |-> l, right |-> r, out |-> <<>>], l \o r).out

MergeSort(items, Compare(_, _)) ==
  LET sorted[from \in 0..Len(items), to \in 0..Len(items)] ==
        LET middle == from + ((to - from) \div 2) IN
        IF to - from < 2 THEN SubSeq(items, from + 1, to)
        ELSE Merge(sorted[from, middle], sorted[middle, to], Compare)
  IN sorted[0, Len(items)]

--------------------------------------------------------------------------
(* computeApplicableMethods: *)

(* %generic-class-position *)
Place(specializer, argument) ==
  CHOOSE i \in DOMAIN classes[argument].precedence :
    classes[argument].precedence[i] = specializer

(* The first argument whose specializers differ decides. *)
CompareSpecificity(m, k, arguments) ==
  LET differ == {i \in 1..Parameters : m.specializers[i] # k.specializers[i]}
      first == CHOOSE i \in differ : \A j \in differ : i <= j IN
  IF differ = {} THEN 0
  ELSE IF Place(m.specializers[first], arguments[first])
          < Place(k.specializers[first], arguments[first]) THEN -1 ELSE 1

Applicable(m, arguments) ==
  \A i \in 1..Parameters : Precedes(arguments[i], m.specializers[i])
ApplicableMethods(arguments) ==
  MergeSort(SelectSeq(methods, LAMBDA m : Applicable(m, arguments)),
            LAMBDA m, k : CompareSpecificity(m, k, arguments))

(* %generic-method-chain: each calls the next and the last the terminal. *)
Chain(ms, terminal) == ms \o terminal

(* %standard-method-combination: the methods a call runs, in their order;  *)
(* without a primary one the core of it is an error.                       *)
ERROR == [qualifier |-> "error", specializers |-> <<>>]
(* Mutant of StandardCombination: after methods run in the order of before *)
(* methods.                                                                *)
CombinationAftersForward(ms) ==
  LET Of(qualifier) == SelectSeq(ms, LAMBDA m : m.qualifier = qualifier)
      core == IF Of("primary") = <<>> THEN <<ERROR>>
              ELSE Of("before") \o Of("primary") \o Of("after")
  IN Of("around") \o core

StandardCombination(ms) ==
  LET Of(qualifier) == SelectSeq(ms, LAMBDA m : m.qualifier = qualifier)
      core == IF Of("primary") = <<>> THEN <<ERROR>>
              ELSE Of("before") \o Chain(Of("primary"), <<>>) \o Reverse(Of("after"))
  IN Chain(Of("around"), core)

--------------------------------------------------------------------------

(* Bound: the classes made for the arguments are below others than the     *)
(* root, the first class.                                                  *)
GenericNext ==
  \/ /\ methods = <<>> /\ UNCHANGED methods
     /\ Len(classes) < ClassesFirst
     /\ \E superclasses \in {l \in SuperclassLists : l # <<>> /\ 1 \notin ToSet(l)} :
          DefineClass(superclasses, <<>>)
  \/ /\ Len(classes) = ClassesFirst /\ UNCHANGED classVars
     /\ \E q \in Qualifiers, s \in [1..Parameters -> MethodClasses] :
          AddMethod([qualifier |-> q, specializers |-> s])
     /\ Len(methods') <= MaxMethods

(* A method written for the same classes or for descendants of theirs. *)
MoreSpecific(m, k) ==
  m # k /\ \A i \in 1..Parameters :
             k.specializers[i] \in Ancestors(Supers, m.specializers[i])
Rank(m) == CASE m.qualifier = "around" -> 1 [] m.qualifier = "before" -> 2
             [] m.qualifier = "primary" -> 3 [] OTHER -> 4

(* A call runs every applicable method once: around methods, then before   *)
(* methods, then primary ones, then after methods, and among those of one  *)
(* qualifier the one written for descendants first, after methods last;    *)
(* without a primary method it runs the around ones and fails.  That the   *)
(* positions in the precedence list of the argument say which is more      *)
(* specific rests on the list being sound (init.lt:442, 525, 551).         *)
MostSpecificFirst ==
  \A arguments \in [1..Parameters -> MethodClasses] :
    LET applicable == {m \in ToSet(methods) :
          \A i \in 1..Parameters : m.specializers[i] \in Ancestors(Supers, arguments[i])}
        expected == IF \E m \in applicable : m.qualifier = "primary" THEN applicable
                    ELSE {m \in applicable : m.qualifier = "around"} \cup {ERROR}
        trace == StandardCombination(ApplicableMethods(arguments)) IN
    /\ ToSet(trace) = expected /\ Len(trace) = Cardinality(expected)
    /\ ERROR \in expected => Last(trace) = ERROR
    /\ \A i, j \in DOMAIN trace :
         (i < j /\ ERROR \notin {trace[i], trace[j]}) =>
           /\ Rank(trace[i]) <= Rank(trace[j])
           /\ Rank(trace[i]) = Rank(trace[j]) =>
                IF trace[i].qualifier = "after" THEN ~MoreSpecific(trace[i], trace[j])
                ELSE ~MoreSpecific(trace[j], trace[i])
============================================================================
