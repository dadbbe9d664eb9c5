------------------------------- MODULE Lists --------------------------------
(***************************************************************************)
(* src/src/classes/List.c, Iterator.c and Vector.c, with                   *)
(* vm/base_env/lists.c and vectors.c: walks over several lists at once,    *)
(* which call back for every row of elements; functions that make lists of *)
(* lists; and lazy iterators that map and filter another one.  Pairs never *)
(* change; the items of a vector do.                                       *)
(***************************************************************************)
EXTENDS Integers, Sequences, FiniteSets, FiniteSetsExt, SequencesExt

CONSTANTS ListArguments,  \* the lists that walks and functions are given
          Sources,        \* what iterators run over
          MaxStages, MaxPuts

VARIABLES lists,    \* the arguments
          task,     \* the walk over them
          pipe,     \* an iterator under the stages that wrap it
          consumer, \* what consumes it, or how the last one came out
          handed,   \* history: what it gave since the last stage was put on
          puts

taskVars == <<lists, task>>
pipeVars == <<pipe, consumer, handed, puts>>
listVars == <<taskVars, pipeVars>>

(* A list is its elements and what its last pair ends in.  A callable      *)
(* makes a term of its arguments, so that no two calls answer alike.       *)
List(items, tail) == [items |-> items, tail |-> tail]
NoSource == [kind |-> "list", items |-> <<>>, tail |-> "nil", index |-> 1, stages |-> <<>>]
EmptyList == List(<<>>, "nil")
Proper(list) == list.tail = "nil"
Term(arguments) == <<"(">> \o FlattenSeq(arguments) \o <<")">>

----------------------------------------------------------------------------
(* A round takes an element of every list.  The first list that has none   *)
(* ends the walk, or fails it when it does not end in nil.                 *)
Exhausted(cursors) == {i \in DOMAIN cursors : cursors[i].items = <<>>}
EndsWell(cursors) == Proper(cursors[Min(Exhausted(cursors))])
RowOf(cursors) == [i \in DOMAIN cursors |-> Head(cursors[i].items)]
RestOf(cursors) == [i \in DOMAIN cursors |-> [cursors[i] EXCEPT !.items = Tail(@)]]
RowSeed(row) == IF Len(row) = 1 THEN row[1] ELSE FlattenSeq(row)

LeftOps == {"map", "for-each", "any", "every", "fold-left", "reduce-left"}
RightOps == {"fold-right", "reduce-right"}
NoTask == [op |-> "none", at |-> "idle", cursors |-> <<>>, stack |-> <<>>, sum |-> <<>>,
           calls |-> <<>>, truth |-> FALSE]

BeginWalk == \E op \in LeftOps \cup RightOps :
  /\ task.at = "idle" /\ pipe = NoSource
  /\ task' = [NoTask EXCEPT !.op = op, !.cursors = lists, !.truth = (op = "every"),
       !.at = IF op = "reduce-left" THEN "seed" ELSE IF op \in RightOps THEN "stack" ELSE "call"]

(* A reduction from the left starts from its first row. *)
SeedLeft ==
  /\ task.at = "seed"
  /\ task' = IF Exhausted(task.cursors) # {} THEN [task EXCEPT !.at = "failed"]
             ELSE [task EXCEPT !.sum = RowSeed(RowOf(task.cursors)), !.cursors = RestOf(@), !.at = "call"]

(* What the callable answers is added to a list, decides the walk, or is   *)
(* what the next call is given first.                                      *)
AfterCall(row, truth) ==
  LET called == [task EXCEPT !.calls = Append(@, row), !.cursors = RestOf(@)]
  IN CASE task.op = "map" -> [called EXCEPT !.sum = Append(@, Term(row))]
       [] task.op = "for-each" -> called
       [] task.op = "any" /\ truth -> [called EXCEPT !.truth = TRUE, !.at = "answered"]
       [] task.op = "every" /\ ~truth -> [called EXCEPT !.truth = FALSE, !.at = "answered"]
       [] task.op \in {"any", "every"} -> called
       [] OTHER -> [called EXCEPT !.sum = Term(<<@>> \o row)]
CallLeft == \E truth \in BOOLEAN :
  /\ task.at = "call" /\ (task.op \notin {"any", "every"} => truth)
  /\ task' = IF Exhausted(task.cursors) = {} THEN AfterCall(RowOf(task.cursors), truth)
             ELSE [task EXCEPT !.at = IF EndsWell(task.cursors) THEN "answered" ELSE "failed"]

(* From the right, every row is stacked before the first call. *)
StackRow ==
  /\ task.at = "stack" /\ Exhausted(task.cursors) = {}
  /\ task' = [task EXCEPT !.stack = <<RowOf(task.cursors)>> \o @, !.cursors = RestOf(@)]
StackedAll ==
  /\ task.at = "stack" /\ Exhausted(task.cursors) # {}
  /\ task' =
       IF ~EndsWell(task.cursors) \/ (task.op = "reduce-right" /\ task.stack = <<>>)
         THEN [task EXCEPT !.at = "failed"]
       ELSE IF task.op = "fold-right" THEN [task EXCEPT !.at = "unstack"]
       ELSE [task EXCEPT !.sum = RowSeed(Head(task.stack)), !.stack = Tail(@), !.at = "unstack"]
CallRight ==
  /\ task.at = "unstack"
  /\ task' = IF task.stack = <<>> THEN [task EXCEPT !.at = "answered"]
             ELSE [task EXCEPT !.sum = Term(Append(Head(task.stack), @)), !.stack = Tail(@),
                               !.calls = Append(@, Head(task.stack))]

----------------------------------------------------------------------------
(* Functions that make lists; ListError stands for the error they signal.  *)
ListError == List(<<>>, "error")
NotFound == List(<<>>, "false")
AppendLists(all) ==
  IF all = <<>> THEN EmptyList
  ELSE IF \A i \in 1..Len(all) - 1 : Proper(all[i])
    THEN List(FlattenSeq([i \in DOMAIN all |-> all[i].items]), Last(all).tail)
    ELSE ListError
ReverseList(list) == IF Proper(list) THEN List(Reverse(list.items), "nil") ELSE ListError
ListAt(list, index) == IF index < Len(list.items) THEN list.items[index + 1] ELSE <<>>
MemQ(value, list) ==
  IF value \in ToSet(list.items)
    THEN [list EXCEPT !.items = SubSeq(@, Min({i \in DOMAIN @ : @[i] = value}), Len(@))]
    ELSE IF Proper(list) THEN NotFound ELSE ListError

(* Keys and values in turn, and the list of their pairs. *)
PlistToAlist(list) ==
  IF Proper(list) /\ Len(list.items) % 2 = 0
    THEN List([i \in 1..Len(list.items) \div 2 |-> <<list.items[2 * i - 1], list.items[2 * i]>>], "nil")
    ELSE ListError
AlistToPlist(alist) == List(FlattenSeq(alist.items), alist.tail)
Assoc(key, alist) ==
  LET found == SelectSeq(alist.items, LAMBDA entry : entry[1] = key)
  IN IF found = <<>> THEN <<>> ELSE Head(found)

----------------------------------------------------------------------------
(* Iterators.  A map stage adds one to a value, a filter takes even ones;  *)
(* all stages share the position of the iterator they wrap.                *)
StageValue(stages, value) ==
  FoldLeft(LAMBDA v, stage : IF stage = "map" THEN v + 1 ELSE v, value, stages)
Takes(stages, k, value) ==
  stages[k] = "filter" => StageValue(SubSeq(stages, 1, k - 1), value) % 2 = 0

(* Where next! of the first k stages goes from each position: a filter     *)
(* goes on until it takes a value.  An iterator over an improper list      *)
(* fails when it is asked about the last element, whose rest is no list;   *)
(* a filter asks on the way, and its next! fails when it comes there.      *)
Improper(p) == p.kind = "list" /\ p.tail # "nil"
End(p) == IF Improper(p) THEN Len(p.items) ELSE Len(p.items) + 1
Settled(p, k, next) ==
  LET s[i \in 1..End(p)] == IF i = End(p) THEN i ELSE IF Takes(p.stages, k, p.items[i]) THEN i ELSE s[next[i]]
  IN s
Nexts(p) ==
  LET n[k \in 0..Len(p.stages)] ==
        IF k = 0 THEN [i \in 1..End(p) |-> IF i = End(p) THEN i ELSE i + 1]
        ELSE [i \in 1..End(p) |-> Settled(p, k, n[k - 1])[n[k - 1][i]]]
  IN n
HasThis(p) == p.index < End(p)
This(p) == StageValue(p.stages, p.items[p.index])
Advanced(p) == [p EXCEPT !.index = Nexts(p)[Len(p.stages)][@]]
AskingFails(p) == Improper(p) /\ p.index = End(p)
NextFails(p) == "filter" \in ToSet(p.stages) /\ AskingFails(Advanced(p))

(* Variant: a filter that has just been made stands where the iterator is. *)
WrappedUnsettled(p, stage) == [p EXCEPT !.stages = Append(@, stage)]

(* A filter goes to the first value it takes when it is made. *)
Wrapped(p, stage) ==
  LET q == [p EXCEPT !.stages = Append(@, stage)]
  IN [q EXCEPT !.index = Settled(q, Len(q.stages), Nexts(p)[Len(p.stages)])[@]]

ConsumerOps == {"asList", "forEach", "inject", "any", "every"}
PipeOver(p) ==
  pipe = p /\ consumer = "none" /\ handed = [from |-> 1, looked |-> 0, values |-> <<>>] /\ puts = 0
ListIdle == lists = <<EmptyList>> /\ task = NoTask /\ PipeOver(NoSource)
ListInit == \/ lists \in ListArguments /\ task = NoTask /\ PipeOver(NoSource)
            \/ \E p \in Sources : lists = <<EmptyList>> /\ task = NoTask /\ PipeOver(p)

(* The history starts over where the pipe stands.  The stages it has had   *)
(* so far have looked at the item there and do not look again.             *)
StartOver(p) == handed' = [from |-> p.index, looked |-> Len(pipe.stages), values |-> <<>>]
Give == handed' = [handed EXCEPT !.values = Append(@, This(pipe))]

(* A filter that fails while it is made has moved what it was to wrap. *)
Wrap == \E stage \in {"map", "filter"} :
  LET wrapped == Wrapped(pipe, stage)
      fails == stage = "filter" /\ AskingFails(wrapped)
  IN /\ consumer \notin ConsumerOps /\ Len(pipe.stages) < MaxStages
     /\ pipe' = IF fails THEN [pipe EXCEPT !.index = wrapped.index] ELSE wrapped
     /\ IF fails THEN StartOver(wrapped) /\ consumer' = "failed" ELSE StartOver(pipe) /\ UNCHANGED consumer
     /\ UNCHANGED puts
Consume == \E op \in ConsumerOps :
  /\ consumer \notin ConsumerOps /\ consumer' = op /\ UNCHANGED <<pipe, handed, puts>>

(* reduce starts from the current value; of nothing it signals an error. *)
ReduceFirst ==
  /\ consumer \notin ConsumerOps /\ HasThis(pipe)
  /\ pipe' = Advanced(pipe) /\ Give
  /\ consumer' = IF NextFails(pipe) THEN "failed" ELSE "inject"
  /\ UNCHANGED puts

(* any and every advance before they call back, the others after: when the *)
(* callable throws or next! fails, theirs is the value that is lost.       *)
Hand == \E outcome \in {"true", "false", "throws"} :
  LET stays == outcome = "throws" /\ consumer \in {"forEach", "inject"}
      over == \/ outcome = "throws"
              \/ consumer = "any" /\ outcome = "true"
              \/ consumer = "every" /\ outcome = "false"
  IN /\ consumer \in ConsumerOps /\ HasThis(pipe) /\ (consumer = "asList" => outcome = "true")
     /\ IF stays THEN UNCHANGED <<pipe, handed>> ELSE pipe' = Advanced(pipe) /\ Give
     /\ consumer' = IF ~stays /\ NextFails(pipe) THEN "failed" ELSE IF over THEN "none" ELSE consumer
     /\ UNCHANGED puts

(* hasThis? answers no at the end, and fails at the end of an improper list. *)
Consumed == /\ consumer \in ConsumerOps /\ ~HasThis(pipe)
            /\ consumer' = IF AskingFails(pipe) THEN "failed" ELSE "ended"
            /\ UNCHANGED <<pipe, handed, puts>>

(* The program changes an item of the vector, the one the stages have      *)
(* looked at among them.                                                   *)
PutItem == \E i \in DOMAIN pipe.items, value \in 0..1 :
  /\ pipe.kind = "vector" /\ puts < MaxPuts
  /\ pipe' = [pipe EXCEPT !.items[i] = value] /\ puts' = puts + 1
  /\ StartOver(pipe) /\ UNCHANGED consumer

TaskNext == BeginWalk \/ SeedLeft \/ CallLeft \/ StackRow \/ StackedAll \/ CallRight
PipeNext == Wrap \/ Consume \/ ReduceFirst \/ Hand \/ Consumed \/ PutItem
ListNext == (TaskNext /\ UNCHANGED <<lists, pipeVars>>) \/ (PipeNext /\ UNCHANGED taskVars)

----------------------------------------------------------------------------
(* A walk takes the rows of the shortest list in order, or from the last   *)
(* for a fold from the right, calls nothing before all rows are known to   *)
(* be there in the latter, answers what the fold is by definition, and     *)
(* fails only at a list that ends badly or a reduction of nothing          *)
(* (List.c:342, lists.c).                                                  *)
ShortestRow == Min({Len(lists[i].items) : i \in DOMAIN lists})
Rows == [r \in 1..ShortestRow |-> [i \in DOMAIN lists |-> lists[i].items[r]]]
ToCall == CASE task.op = "reduce-left" -> Tail(Rows)
            [] task.op = "reduce-right" -> Tail(Reverse(Rows))
            [] task.op = "fold-right" -> Reverse(Rows)
            [] OTHER -> Rows
FoldOf ==
  LET seed == IF task.op \in {"reduce-left"} THEN RowSeed(Rows[1])
              ELSE IF task.op = "reduce-right" THEN RowSeed(Last(Rows)) ELSE <<>>
  IN CASE task.op = "map" -> [r \in DOMAIN Rows |-> Term(Rows[r])]
       [] task.op \in {"fold-left", "reduce-left"} -> FoldLeft(LAMBDA sum, row : Term(<<sum>> \o row), seed, ToCall)
       [] task.op \in RightOps -> FoldLeft(LAMBDA sum, row : Term(Append(row, sum)), seed, ToCall)
       [] OTHER -> <<>>
AllWell == \E i \in DOMAIN lists : /\ Len(lists[i].items) = ShortestRow /\ Proper(lists[i])
                                   /\ \A j \in 1..i - 1 : Len(lists[j].items) > ShortestRow
WalksAreFolds ==
  LET empty == task.op \in {"reduce-left", "reduce-right"} /\ ShortestRow = 0
  IN /\ task.calls # <<>> => ~empty /\ IsPrefix(task.calls, ToCall)
     /\ task.op \in RightOps /\ task.calls # <<>> => AllWell
     /\ task.at = "failed" => empty \/ ~AllWell
     /\ task.at = "answered" =>
          /\ ~empty /\ task.sum = FoldOf
          /\ task.calls = ToCall \/ (task.op \in {"any", "every"} /\ task.truth = (task.op = "any"))

(* Appending is associative and turns round with its arguments, a tail is  *)
(* found where the element is, and a property list survives its pairs      *)
(* (List.c:640).                                                           *)
ListFunctionsAgree ==
  /\ \A i \in 1..Len(lists) - 1 :
       LET joined == AppendLists(SubSeq(lists, i, i + 1))
       IN joined # ListError =>
            /\ AppendLists(lists) = AppendLists(SubSeq(lists, 1, i - 1) \o <<joined>> \o SubSeq(lists, i + 2, Len(lists)))
            /\ \A at \in 0..Len(joined.items) :
                 ListAt(joined, at) = IF at < Len(lists[i].items) THEN ListAt(lists[i], at)
                                      ELSE ListAt(lists[i + 1], at - Len(lists[i].items))
  /\ LET all == AppendLists(lists)
     IN (\A i \in DOMAIN lists : Proper(lists[i])) =>
          ReverseList(all) = AppendLists(Reverse([i \in DOMAIN lists |-> ReverseList(lists[i])]))
  /\ \A i \in DOMAIN lists : \A value \in ToSet(lists[i].items) :
       /\ LET found == MemQ(value, lists[i])
          IN Head(found.items) = value /\ IsSuffix(found.items, lists[i].items)
       /\ LET alist == PlistToAlist(lists[i])
          IN alist # ListError => /\ AlistToPlist(alist) = lists[i]
                                  /\ Assoc(value, alist) # <<>> => Assoc(value, alist)[1] = value

(* However stages and consumers follow each other and end early, what an   *)
(* iterator has given and has still to give is what mapping and filtering  *)
(* the elements at once gives, nothing twice and nothing lost; an item     *)
(* that changes after a filter has looked at it is given as it is now.     *)
(* The walk ends well at the end of a proper sequence only, and fails      *)
(* nowhere but at the last pair of an improper list (Iterator.c:586).      *)
Eager(p, from) ==
  FoldLeft(LAMBDA items, stage : IF stage = "map" THEN [i \in DOMAIN items |-> items[i] + 1]
                                 ELSE SelectSeq(items, LAMBDA v : v % 2 = 0),
           SubSeq(p.items, from, End(p) - 1), p.stages)
ToGive(p, from, looked) ==
  IF from < End(p) /\ \A k \in looked + 1..Len(p.stages) : Takes(p.stages, k, p.items[from])
    THEN <<StageValue(p.stages, p.items[from])>> \o Eager(p, from + 1)
    ELSE Eager(p, from + 1)
LazyIsEager ==
  /\ handed.values \o ToGive(pipe, pipe.index, Len(pipe.stages)) = ToGive(pipe, handed.from, handed.looked)
  /\ puts = 0 => ToGive(pipe, pipe.index, Len(pipe.stages)) = Eager(pipe, pipe.index)
  /\ consumer \in {"ended", "failed"} => ~HasThis(pipe) /\ (consumer = "failed") = Improper(pipe)
ListsSound == WalksAreFolds /\ ListFunctionsAgree /\ LazyIsEager
============================================================================
