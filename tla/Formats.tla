------------------------------ MODULE Formats ------------------------------
(***************************************************************************)
(* String format:, the interpreter of format strings.  A format string is  *)
(* a sequence of directives; text between them is a directive too.  A      *)
(* value is an atom or a list, and how a directive prints an atom is left  *)
(* out: what is printed is the sequence of atoms.  An interpretation that  *)
(* fails has printed nothing anyone sees.                                  *)
(***************************************************************************)
EXTENDS Integers, Sequences, SequencesExt, FiniteSets, FiniteSetsExt

CONSTANTS FormatStrings,  \* sequences of directives
          FormatArguments \* sequences of values

VARIABLES format, formatArguments, printed

formatVars == <<format, formatArguments, printed>>

Atom(a) == [atom |-> a, list |-> <<>>]
ListOf(s) == [atom |-> 0, list |-> s]
IsList(v) == v.atom = 0

(* limit is the numeric argument of the directive, or -1. *)
Directive(kind, colon, atsign, limit) ==
  [kind |-> kind, colon |-> colon, atsign |-> atsign, limit |-> limit]

Failed == [out |-> <<>>, rest |-> <<>>, ok |-> FALSE]
Ended(rest) == [out |-> <<>>, rest |-> rest, ok |-> TRUE]
Then(r, s) == IF r.ok /\ s.ok THEN [s EXCEPT !.out = r.out \o @] ELSE Failed

(* The terminator that closes the iteration whose body begins at ts[1], or *)
(* 0: iterations nest, and any other directive is passed over.             *)
Depth(ts, i) == 1 + Cardinality({k \in 1..i : ts[k].kind = "{"})
                  - Cardinality({k \in 1..i : ts[k].kind = "}"})
FindIterationEnd(ts) ==
  Min({i \in DOMAIN ts : ts[i].kind = "}" /\ Depth(ts, i) = 0} \cup {Len(ts) + 1})

(* An iteration over one list takes as many values each time as its body   *)
(* asks for; with a colon each element is the whole list of one time.      *)
RECURSIVE FormatInto(_, _), Iterate(_, _, _, _)
Iterate(body, d, values, limit) ==
  LET one == IF d.colon THEN FormatInto(body, Head(values).list) ELSE FormatInto(body, values)
      bad == IF d.colon THEN ~IsList(Head(values)) \/ one.rest # <<>> ELSE one.rest = values
      rest == IF d.colon THEN Tail(values) ELSE one.rest
  IN IF values = <<>> \/ limit = 0 THEN Ended(<<>>)
     ELSE IF bad THEN Failed
     ELSE Then(one, Iterate(body, d, rest, limit - 1))

FormatIteration(body, d, cursor) ==
  IF cursor = <<>> \/ (~IsList(Head(cursor)) /\ (d.atsign \/ d.limit # 0)) THEN Failed
  ELSE LET r == Iterate(body, d, Head(cursor).list, d.limit)
       IN [r EXCEPT !.rest = Tail(cursor)]

FormatInto(ts, cursor) ==
  IF ts = <<>> THEN Ended(cursor)
  ELSE LET d == Head(ts)
           rest == Tail(ts)
           end == FindIterationEnd(rest)
           loop == FormatIteration(SubSeq(rest, 1, end - 1), d, cursor)
       IN CASE d.kind = "text" -> FormatInto(rest, cursor)
            [] d.kind = "a" /\ cursor # <<>> ->
                 Then([out |-> <<Head(cursor)>>, rest |-> Tail(cursor), ok |-> TRUE],
                      FormatInto(rest, Tail(cursor)))
            [] d.kind = "{" /\ end <= Len(rest) ->
                 Then(loop, FormatInto(SubSeq(rest, end + 1, Len(rest)), loop.rest))
            [] OTHER -> Failed

StringFormat(ts, values) ==
  LET r == FormatInto(ts, values) IN IF r.ok /\ r.rest = <<>> THEN r ELSE Failed

FormatInit == /\ format \in FormatStrings
              /\ formatArguments \in FormatArguments
              /\ printed = Ended(<<>>)
FormatIdle == format = <<>> /\ formatArguments = <<>> /\ printed = Ended(<<>>)

FormatStep == /\ printed' = StringFormat(format, formatArguments)
              /\ UNCHANGED <<format, formatArguments>>

----------------------------------------------------------------------------
RECURSIVE AtomsOf(_)
AtomsOf(values) ==
  IF values = <<>> THEN <<>>
  ELSE (IF IsList(Head(values)) THEN AtomsOf(Head(values).list) ELSE <<Head(values).atom>>)
         \o AtomsOf(Tail(values))

Unlimited(ts) == \A i \in DOMAIN ts : ts[i].limit = -1

(* However iterations nest, a format that succeeds prints every atom of    *)
(* its arguments once and in their order, and one with limits prints a     *)
(* part of them in their order (String.c:2371, :2405).                     *)
ArgumentsPrintedInOrder ==
  printed.ok /\ printed # Ended(<<>>) =>
    LET all == AtomsOf(formatArguments)
        seen == AtomsOf(printed.out)
    IN IF Unlimited(format) THEN seen = all
       ELSE \E kept \in SUBSET DOMAIN all :
              seen = LET at == SelectSeq([k \in DOMAIN all |-> k], LAMBDA k : k \in kept)
                     IN [j \in DOMAIN at |-> all[at[j]]]
============================================================================
