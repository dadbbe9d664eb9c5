------------------------------- MODULE Evaluator -------------------------------
(***************************************************************************)
(* The evaluator (eval.c, special_forms.c, quasiquote.c), environments     *)
(* (Environment.c) and the compiler that folds the body of a closure when  *)
(* it is made and again when a constant has changed (compiler.c,           *)
(* Closure.c).  A session evaluates forms one after the other; beside it   *)
(* another evaluates the same forms and never folds.  Tail calls, throws   *)
(* and conditions are those of ControlStack, sends those of Classes and    *)
(* GenericFunctions.  What a primitive computes is left to a handful of    *)
(* them, pure and not.                                                     *)
(***************************************************************************)
EXTENDS Integers, Sequences, SequencesExt, FiniteSetsExt

CONSTANTS
  Setups,       \* forms a session begins with, and the restart that is taken for an
                \* unbound symbol: "use" or "define", or none, "error"
  SessionForms, \* forms it may go on with
  LambdaLists,  \* parameters of functions that are called once
  CallArguments,\* the arguments they are called with
  ExpansionLimit, \* expansions the compiler makes of one form, 256
  MaxForms

VARIABLES
  session,      \* the interpreter
  interpreted,  \* an interpreter that folds nothing
  asked,        \* the call of a function with parameters, if it was the last form
  forms         \* number of forms evaluated

evaluatorVars == <<session, interpreted, asked, forms>>

----------------------------------------------------------------------------
(* Values, which are expressions too. A list holds its elements and what   *)
(* its last pair ends in, never a list itself.                             *)
NilValue == [t |-> "nil"]
Truth(b) == [t |-> "boolean", b |-> b]
Num(n) == [t |-> "number", n |-> n]
Sym(name) == [t |-> "symbol", name |-> name]
Key(name) == [t |-> "keyword", name |-> name]
Special(name) == [t |-> "special", name |-> name]
Primitive(name) == [t |-> "primitive", name |-> name]
Dotted(items, tail) ==
  IF items = <<>> THEN tail
  ELSE IF tail.t = "list" THEN [tail EXCEPT !.items = items \o @]
  ELSE [t |-> "list", items |-> items, tail |-> tail]
Expr(items) == Dotted(items, NilValue)

Symbolic(e) == e.t \in {"symbol", "keyword"}
IsPair(e) == e.t = "list"
Elements(e) == IF IsPair(e) THEN e.items ELSE <<>>
Ending(e) == IF IsPair(e) THEN e.tail ELSE e
Car(e) == e.items[1]
Cdr(e) == Dotted(Tail(e.items), e.tail)
ListOfLength(e, n) == Ending(e) = NilValue /\ Len(Elements(e)) = n
Truthy(e) == e # NilValue /\ e # Truth(FALSE)

SpecialNames == {"quote", "quasiquote", "%lambda", "if", "and", "or", "cond", "%while", "begin",
                 "%let", "letrec", "%define", "%define-constant", "%set!", "macro"}
PurePrimitives == {"+", "not", "memq"}
OtherPrimitives == {"list", "car", "note"}
EnvironmentMethods == {"at:", "at:put:", "at:putConstant:", "constant?:"}

----------------------------------------------------------------------------
(* An interpreter: its frames, the first of them global; its closures; the *)
(* epoch of its constants; what it printed; and the value or the error the *)
(* form has come to. The base environment's names are constants of the     *)
(* global frame.                                                           *)
Binding(value, constant) == [value |-> value, constant |-> constant]
NoBinding == Binding([t |-> "unbound"], FALSE)
BaseBindings == [x \in {Sym(n) : n \in SpecialNames \cup PurePrimitives \cup OtherPrimitives \cup EnvironmentMethods} |->
          Binding(IF x.name \in SpecialNames THEN Special(x.name) ELSE Primitive(x.name), TRUE)]

Return(s, value) == [s EXCEPT !.v = value]
Signal(s, what) == [s EXCEPT !.ok = FALSE, !.v = [t |-> "error", what |-> what]]

NewFrame(parent, s) == [s EXCEPT !.frames = Append(@, [parent |-> parent, vars |-> <<>>])]

RECURSIVE FrameOf(_, _, _)
FrameOf(sym, env, s) ==
  IF env = 0 \/ sym \in DOMAIN s.frames[env].vars THEN env ELSE FrameOf(sym, s.frames[env].parent, s)

Lookup(sym, env, s) ==
  LET home == FrameOf(sym, env, s)
  IN IF home # 0 THEN s.frames[home].vars[sym] ELSE IF sym \in DOMAIN BaseBindings THEN BaseBindings[sym] ELSE NoBinding

(* A new binding moves the epoch on when the frame had a constant of that  *)
(* name.                                                                   *)
Bind(sym, value, constant, env, s) ==
  LET here == IF sym \in DOMAIN s.frames[env].vars THEN s.frames[env].vars[sym]
              ELSE IF env = 1 /\ sym \in DOMAIN BaseBindings THEN BaseBindings[sym] ELSE NoBinding
  IN [s EXCEPT !.frames[env].vars = (sym :> Binding(value, constant)) @@ @,
               !.epoch = IF here.constant THEN @ + 1 ELSE @, !.v = value]

SetVariable(sym, value, env, s) ==
  LET home == FrameOf(sym, env, s)
  IN IF home = 0 \/ Lookup(sym, env, s).constant THEN Signal(s, "no mutable binding")
     ELSE [s EXCEPT !.frames[home].vars[sym].value = value, !.v = value]

(* Methods of the global environment. A constant that is replaced while a  *)
(* function runs is not replaced in its folded body.                       *)
CallEnvironment(name, a, s) ==
  LET b == Lookup(a[1], 1, s)
      put == [s EXCEPT !.exempt = @ \/ (b.constant /\ s.depth > 0)]
  IN CASE a = <<>> \/ ~Symbolic(a[1]) \/ Len(a) # (IF name \in {"at:", "constant?:"} THEN 1 ELSE 2) -> Signal(s, "arguments")
       [] name = "at:" -> IF b = NoBinding THEN Signal(s, "not bound") ELSE Return(s, b.value)
       [] name = "constant?:" -> Return(s, Truth(b.constant))
       [] name = "at:put:" -> Bind(a[1], a[2], FALSE, 1, put)
       [] name = "at:putConstant:" -> Bind(a[1], a[2], TRUE, 1, put)

CallPrimitive(name, args, s) ==
  LET a == Elements(args) IN
  CASE name = "+" -> IF \A i \in DOMAIN a : a[i].t = "number"
                       THEN Return(s, Num(FoldLeft(LAMBDA sum, n : sum + n.n, 0, a))) ELSE Signal(s, "type")
    [] name = "not" -> IF Len(a) = 1 THEN Return(s, Truth(~Truthy(a[1]))) ELSE Signal(s, "arguments")
    [] name = "memq" -> IF Len(a) # 2 \/ Ending(a[2]) # NilValue THEN Signal(s, "arguments")
                        ELSE LET at == SelectInSeq(Elements(a[2]), LAMBDA e : e = a[1])
                             IN Return(s, IF at = 0 THEN Truth(FALSE) ELSE Expr(SubSeq(Elements(a[2]), at, Len(Elements(a[2])))))
    [] name = "list" -> Return(s, args)
    [] name = "car" -> IF Len(a) = 1 /\ IsPair(a[1]) THEN Return(s, Car(a[1])) ELSE Signal(s, "type")
    [] name = "note" -> [s EXCEPT !.printed = @ \o a, !.v = NilValue]
    [] name \in EnvironmentMethods -> CallEnvironment(name, a, s)

----------------------------------------------------------------------------
(* Parameters: symbols, then after the marker optional symbols or pairs of *)
(* a symbol and a default, then a keyword part or one symbol for the rest, *)
(* which may also follow a dot.                                            *)
ParameterName(p) == IF Symbolic(p) THEN p ELSE Car(p)
DefaultOf(p) == IF Symbolic(p) THEN NilValue ELSE p.items[2]
Defaultable(p) == Symbolic(p) \/ (ListOfLength(p, 2) /\ Symbolic(Car(p)))
Markers == {Key("optional"), Key("key"), Key("rest")}

ValidParameters(params) ==
  LET items == Elements(params)
      mark == SelectInSeq(items, LAMBDA p : p \in {Key("key"), Key("rest")})
      before == IF mark = 0 THEN items ELSE SubSeq(items, 1, mark - 1)
      after == IF mark = 0 THEN <<>> ELSE SubSeq(items, mark + 1, Len(items))
      optional == SelectInSeq(before, LAMBDA p : p = Key("optional"))
  IN /\ \A i \in DOMAIN before :
          IF optional # 0 /\ i > optional THEN before[i] # Key("optional") /\ Defaultable(before[i]) ELSE Symbolic(before[i])
     /\ IF mark = 0 THEN Ending(params) = NilValue \/ Symbolic(Ending(params))
        ELSE /\ Ending(params) = NilValue
             /\ IF items[mark] = Key("rest") THEN Len(after) = 1 /\ Symbolic(after[1])
                ELSE \A i \in DOMAIN after : after[i] \notin {Key("optional"), Key("rest")} /\ Defaultable(after[i])

(* The names the compiler takes for bound in a body. *)
ShadowNamesBare(params) ==
  {p \in ToSet(Elements(params)) : p \notin Markers /\ Symbolic(p)}
    \cup (IF Symbolic(Ending(params)) THEN {Ending(params)} ELSE {})
ShadowNames(params) ==
  {ParameterName(p) : p \in {q \in ToSet(Elements(params)) : q \notin Markers /\ (Symbolic(q) \/ IsPair(q))}}
    \cup (IF Symbolic(Ending(params)) THEN {Ending(params)} ELSE {})
BindingNames(bindings) == {Car(b) : b \in {c \in ToSet(Elements(bindings)) : IsPair(c) /\ Symbolic(Car(c))}}

----------------------------------------------------------------------------
(* The compiler: constants are replaced by their values, calls of pure     *)
(* primitives on constants by their results, macros by their expansions.   *)
(* Malformed stands for a form that cannot be folded.                      *)
Malformed == [t |-> "malformed"]
Invalid == [t |-> "invalid"]
Shadowed(names, env, s) ==
  [s EXCEPT !.frames = Append(@, [parent |-> env, vars |-> [x \in names |-> Binding(NilValue, FALSE)]])]
Inner(s) == Len(s.frames) + 1

ConstantValue(e, env, s) ==
  IF Symbolic(e) THEN (IF Lookup(e, env, s).constant THEN Lookup(e, env, s).value ELSE Invalid)
  ELSE IF IsPair(e) THEN (IF Car(e) = Special("quote") /\ ListOfLength(e, 2) THEN e.items[2] ELSE Invalid)
  ELSE IF e = Malformed THEN Invalid ELSE e

(* Compiler and evaluator call each other; all calls come through one      *)
(* operator.                                                               *)
RECURSIVE Run(_, _, _)
Eval(e, env, s) == Run([does |-> "eval", e |-> e], env, s)
Apply(f, args, s) == Run([does |-> "apply", f |-> f, args |-> args], 0, s)
Fold(e, env, s) == Run([does |-> "fold", e |-> e], env, s)

RECURSIVE Macroexpand(_, _, _, _, _), FoldTemplate(_, _, _, _), HasMalformed(_), BindParameters(_, _, _, _, _, _), CondClauses(_, _, _),
          WhileLoop(_, _, _, _), Quasiquote(_, _, _, _, _)

FoldItems(items, env, s) == [i \in DOMAIN items |-> Fold(items[i], env, s)]
FoldArguments(list, env, s) ==
  Dotted(FoldItems(Elements(list), env, s), IF Ending(list) = NilValue THEN NilValue ELSE Fold(Ending(list), env, s))

ConstantExpression(value, env, s) ==
  IF IsPair(value) THEN Expr(<<Fold(Sym("quote"), env, s), value>>) ELSE value

FoldBindings(bindings, env, s) ==
  Dotted([i \in DOMAIN Elements(bindings) |->
            LET b == Elements(bindings)[i]
            IN IF IsPair(b) /\ Len(b.items) > 1 THEN Dotted(<<Car(b)>>, FoldArguments(Cdr(b), env, s)) ELSE b],
         Ending(bindings))

(* Inside a template only what is unquoted as often as it is quoted. *)
FoldTemplate(e, env, s, depth) ==
  IF ~IsPair(e) THEN e
  ELSE LET level == CASE Car(e) = Sym("quasiquote") -> depth + 1
                      [] Car(e) \in {Sym("unquote"), Sym("unquote-splicing")} -> depth - 1
                      [] OTHER -> depth
       IN IF level = depth THEN [e EXCEPT !.items = [i \in DOMAIN @ |-> FoldTemplate(@[i], env, s, depth)]]
          ELSE IF ~ListOfLength(e, 2) THEN Malformed
          ELSE Expr(<<Car(e), IF level = 0 THEN Fold(e.items[2], env, s) ELSE FoldTemplate(e.items[2], env, s, level)>>)

(* A special form folds those of its parts it evaluates, in the scope it   *)
(* evaluates them in.                                                      *)
ExpandSpecial(op, e, env, s) ==
  LET rest == Cdr(e)
      head == IF IsPair(rest) THEN Car(rest) ELSE NilValue
      tail == IF IsPair(rest) THEN Cdr(rest) ELSE NilValue
      scoped(names, list) == FoldArguments(list, Inner(s), Shadowed(names, env, s))
  IN CASE op.name = "quote" -> Dotted(<<op>>, rest)
       [] op.name = "quasiquote" -> IF ListOfLength(rest, 1) THEN Expr(<<op, FoldTemplate(head, env, s, 1)>>) ELSE Malformed
       [] op.name = "%lambda" ->
            LET params == IF IsPair(tail) THEN Car(tail) ELSE NilValue
            IN Dotted(<<op, Fold(head, env, s), params>>, IF IsPair(tail) THEN scoped(ShadowNames(params), Cdr(tail)) ELSE NilValue)
       [] op.name \in {"%define", "%define-constant", "%set!"} -> Dotted(<<op, head>>, FoldArguments(tail, env, s))
       [] op.name = "%let" -> Dotted(<<op, FoldBindings(head, env, s)>>, scoped(BindingNames(head), tail))
       [] op.name = "letrec" ->
            Dotted(<<op, FoldBindings(head, Inner(s), Shadowed(BindingNames(head), env, s))>>, scoped(BindingNames(head), tail))
       [] OTHER -> Dotted(<<op>>, FoldArguments(rest, env, s))

FoldCall(op, e, env, s) ==
  LET args == FoldArguments(Cdr(e), env, s)
      values == [i \in DOMAIN Elements(args) |-> ConstantValue(Elements(args)[i], env, s)]
      call == Dotted(<<op>>, args)
  IN IF op.t # "primitive" \/ op.name \notin PurePrimitives \/ Ending(args) # NilValue \/ Invalid \in ToSet(values) THEN call
     ELSE LET r == CallPrimitive(op.name, Expr(values), s)
          IN IF r.ok THEN ConstantExpression(r.v, env, s) ELSE call

(* A macro must expand to a list, where the evaluator takes any expansion; *)
(* the expansion is expanded in turn, not without end.  Expanders are      *)
(* functions of their form: what one does besides, when the body is        *)
(* compiled, is left out.                                                  *)
Expansion(op, e, s) ==
  LET r == Apply(op.fn, Cdr(e), s) IN IF r.ok /\ (IsPair(r.v) \/ r.v = NilValue) THEN r.v ELSE Malformed
Macroexpand(op, e, env, s, expansions) ==
  LET expanded == Expansion(op, e, s)
      next == IF IsPair(expanded) THEN Fold(Car(expanded), env, s) ELSE NilValue
  IN IF expansions >= ExpansionLimit THEN Malformed
     ELSE IF next.t = "macro" THEN Macroexpand(next, expanded, env, s, expansions + 1) ELSE expanded

FoldExpression(e, env, s) ==
  IF Symbolic(e) THEN LET b == Lookup(e, env, s)
                      IN IF b.constant THEN ConstantExpression(b.value, env, s) ELSE e
  ELSE IF ~IsPair(e) THEN e
  ELSE LET op == Fold(Car(e), env, s)
       IN CASE op.t = "special" -> ExpandSpecial(op, e, env, s)
            [] op.t = "macro" -> Fold(Macroexpand(op, e, env, s, 0), env, s)
            [] OTHER -> FoldCall(op, e, env, s)

HasMalformed(e) == e = Malformed \/ (IsPair(e) /\ \E i \in DOMAIN e.items : HasMalformed(e.items[i]))

(* The closure a %lambda makes, and its body folded in its own scope.      *)
Compile(c, s) ==
  IF s.folds THEN [c EXCEPT !.compiled = FoldArguments(c.body, Inner(s), Shadowed(ShadowNames(c.params), c.env, s)),
                            !.epoch = s.epoch]
  ELSE [c EXCEPT !.compiled = c.body]

MakeClosure(params, body, env, s) ==
  LET code == IF Len(Elements(body)) > 1 /\ Car(body).t = "string" THEN Cdr(body) ELSE body
      c == Compile([params |-> params, body |-> code, env |-> env, compiled |-> NilValue, epoch |-> 0], s)
  IN IF HasMalformed(c.compiled) \/ Ending(code) # NilValue THEN [Signal(s, "malformed") EXCEPT !.exempt = TRUE]
     ELSE [s EXCEPT !.code = Append(@, c), !.v = [t |-> "closure", id |-> Len(s.code) + 1]]

(* A closure whose epoch has passed is compiled again before it runs.      *)
Recompile(id, s) ==
  LET c == Compile(s.code[id], s)
  IN IF ~s.ok \/ ~s.folds \/ s.code[id].epoch = s.epoch THEN s
     ELSE IF HasMalformed(c.compiled) THEN [Signal(s, "malformed") EXCEPT !.exempt = TRUE]
     ELSE [s EXCEPT !.code[id] = c]

----------------------------------------------------------------------------
(* The evaluator. Whatever follows an error is not evaluated. *)
EvalEach(list, env, s) ==
  LET end == FoldLeft(LAMBDA acc, e : LET r == Eval(e, env, acc.s) IN [s |-> r, values |-> Append(acc.values, r.v)],
                      [s |-> s, values |-> <<>>], Elements(list))
  IN IF ~end.s.ok THEN end.s
     ELSE IF Ending(list) # NilValue THEN Signal(end.s, "improper") ELSE Return(end.s, Expr(end.values))

EvalSequence(body, env, s) ==
  LET end == FoldLeft(LAMBDA acc, e : Eval(e, env, acc), Return(s, NilValue), Elements(body))
  IN IF end.ok /\ Ending(body) # NilValue THEN Signal(end, "improper") ELSE end

(* The first of the arguments that a keyword names; each must name a       *)
(* parameter.                                                              *)
BindKeywords(ps, args, env, s) ==
  LET a == Elements(args)
      names == {ParameterName(ps[i]) : i \in DOMAIN ps}
      wellFormed == /\ Ending(args) = NilValue /\ Len(a) % 2 = 0
                    /\ \A i \in DOMAIN a : i % 2 = 1 => \E x \in names : a[i] = Key(x.name)
      bindOne(acc, p) ==
        LET odd == {i \in DOMAIN a : i % 2 = 1 /\ a[i] = Key(ParameterName(p).name)}
            r == IF odd = {} THEN Eval(DefaultOf(p), env, acc) ELSE Return(acc, a[Min(odd) + 1])
        IN IF r.ok THEN Bind(ParameterName(p), r.v, FALSE, env, r) ELSE r
  IN IF wellFormed THEN FoldLeft(bindOne, s, ps) ELSE Signal(s, "keywords")

BindParameters(ps, ending, optional, args, env, s) ==
  IF ~s.ok THEN s
  ELSE IF ps = <<>> THEN
    IF Symbolic(ending) THEN Bind(ending, args, FALSE, env, s)
    ELSE IF args = NilValue THEN s ELSE Signal(s, "arity")
  ELSE LET p == Head(ps) IN
    CASE p = Key("optional") -> BindParameters(Tail(ps), ending, TRUE, args, env, s)
      [] p = Key("key") -> BindKeywords(Tail(ps), args, env, s)
      [] p = Key("rest") -> Bind(ps[2], args, FALSE, env, s)
      [] OTHER ->
           IF IsPair(args) THEN BindParameters(Tail(ps), ending, optional, Cdr(args), env,
                                               Bind(ParameterName(p), Car(args), FALSE, env, s))
           ELSE IF ~optional \/ args # NilValue THEN Signal(s, "arity")
           ELSE LET r == Eval(DefaultOf(p), env, s)
                IN IF r.ok THEN BindParameters(Tail(ps), ending, TRUE, args, env, Bind(ParameterName(p), r.v, FALSE, env, r))
                   ELSE r

ApplyFunction(f, args, s) ==
  IF ~s.ok THEN s
  ELSE CASE f.t = "primitive" -> CallPrimitive(f.name, args, s)
         [] f.t = "closure" ->
              LET c == s.code[f.id]
                  env == Inner(s)
                  bound == BindParameters(Elements(c.params), Ending(c.params), FALSE, args, env, NewFrame(c.env, s))
                  ready == Recompile(f.id, bound)
                  done == EvalSequence(ready.code[f.id].compiled, env, [ready EXCEPT !.depth = @ + 1])
              IN IF ready.ok THEN [done EXCEPT !.depth = s.depth] ELSE ready
         [] OTHER -> Signal(s, "not a function")

(* A symbol with no binding is an error, whose restarts give it a value    *)
(* for this once or for good; a keyword is its own value.                  *)
Restarted(sym, s) ==
  CASE s.restart = "use" -> Return(s, Num(0))
    [] s.restart = "define" -> Bind(sym, Num(0), FALSE, 1, s)
    [] s.restart = "error" -> Signal(s, "unbound")

EvalSymbol(sym, env, s) ==
  LET b == Lookup(sym, env, s)
  IN CASE b # NoBinding -> Return(s, b.value)
       [] b = NoBinding /\ sym.t = "keyword" -> Return(s, sym)
       [] OTHER -> Restarted(sym, s)

CondClauses(clauses, env, s) ==
  IF ~s.ok THEN s
  ELSE IF clauses = NilValue THEN Return(s, Truth(FALSE))
  ELSE IF ~IsPair(clauses) \/ ~IsPair(Car(clauses)) THEN Signal(s, "clause")
  ELSE LET test == Car(Car(clauses))
           body == Cdr(Car(clauses))
           otherwise == Symbolic(test) /\ test.name = "else"
           r == IF otherwise THEN s ELSE Eval(test, env, s)
       IN IF otherwise /\ body = NilValue THEN Signal(s, "clause")
          ELSE IF otherwise \/ (r.ok /\ Truthy(r.v)) THEN (IF body = NilValue THEN r ELSE EvalSequence(body, env, r))
          ELSE CondClauses(Cdr(clauses), env, r)

WhileLoop(test, body, env, s) ==
  LET r == Eval(test, env, s)
  IN IF ~r.ok THEN r
     ELSE IF Truthy(r.v) THEN WhileLoop(test, body, env, EvalSequence(body, env, r)) ELSE Return(r, NilValue)

(* and goes on while its values are true, or while they are not.           *)
Junction(list, while, env, s) ==
  LET goesOn(r) == r.ok /\ Truthy(r.v) = while
      end == FoldLeft(LAMBDA acc, e : IF goesOn(acc) THEN Eval(e, env, acc) ELSE acc, Return(s, Truth(while)), Elements(list))
  IN IF Ending(list) # NilValue /\ goesOn(end) THEN Signal(end, "improper") ELSE end

(* The bindings of %let are evaluated outside of it, in turn; those of     *)
(* letrec inside, after all its names are bound.                           *)
WellFormedBinding(b) == IsPair(b) /\ ListOfLength(b, 2) /\ Symbolic(Car(b))
EvalLet(bindings, body, env, s) ==
  LET step(acc, b) ==
        IF ~acc.ok THEN acc
        ELSE IF WellFormedBinding(b) THEN Eval(b.items[2], env, acc) ELSE Signal(acc, "binding")
      states == FoldLeft(LAMBDA acc, b : Append(acc, step(Last(acc), b)), <<s>>, Elements(bindings))
      end == Last(states)
      inner == Inner(end)
  IN IF end.ok /\ Ending(bindings) # NilValue THEN Signal(end, "binding")
     ELSE IF ~end.ok THEN end
     ELSE EvalSequence(body, inner,
            FoldLeft(LAMBDA acc, i : Bind(Car(bindings.items[i]), states[i + 1].v, FALSE, inner, acc),
                     NewFrame(env, end), [i \in 1..Len(Elements(bindings)) |-> i]))

EvalLetrec(bindings, body, env, s) ==
  LET inner == Inner(s)
      named == FoldLeft(LAMBDA acc, b : Bind(Car(b), NilValue, FALSE, inner, acc), NewFrame(env, s), Elements(bindings))
      step(acc, b) == LET r == Eval(b.items[2], inner, acc) IN IF r.ok THEN SetVariable(Car(b), r.v, inner, r) ELSE r
  IN IF Ending(bindings) # NilValue \/ \E i \in DOMAIN Elements(bindings) : ~WellFormedBinding(bindings.items[i])
       THEN Signal(s, "binding")
     ELSE EvalSequence(body, inner, FoldLeft(step, named, Elements(bindings)))

(* A definition that hides a constant of an outer frame, or replaces one   *)
(* inside a function, comes too late for the folded body it is in.         *)
EvalDefine(sym, value, constant, env, s) ==
  LET r == Eval(value, env, s)
  IN IF ~Symbolic(sym) THEN Signal(s, "not a symbol")
     ELSE IF ~r.ok THEN r
     ELSE Bind(sym, r.v, constant, env, [r EXCEPT !.exempt = @ \/ (env # 1 /\ Lookup(sym, env, r).constant)])

EvalLambda(args, env, s) ==
  LET body == Cdr(Cdr(args))
      params == args.items[2]
      named == IF Car(args) = NilValue THEN s ELSE Eval(Car(args), env, s)
  IN IF ~named.ok THEN named
     ELSE IF ValidParameters(params) THEN MakeClosure(params, body, env, named) ELSE Signal(named, "parameters")

----------------------------------------------------------------------------
(* A template: what is unquoted at the level of the template is evaluated, *)
(* and a spliced list takes the place of its element.                      *)
Quasiquote(e, env, s, depth, inList) ==
  IF ~IsPair(e) \/ ~s.ok THEN [s |-> IF s.ok THEN Return(s, e) ELSE s, splice |-> FALSE]
  ELSE IF Car(e) \in {Sym("quasiquote"), Sym("unquote"), Sym("unquote-splicing")} THEN
    LET level == IF Car(e) = Sym("quasiquote") THEN depth + 1 ELSE depth - 1
        splice == level = 0 /\ Car(e) = Sym("unquote-splicing")
        r == IF level = 0 THEN Eval(e.items[2], env, s) ELSE Quasiquote(e.items[2], env, s, level, FALSE).s
    IN IF ~ListOfLength(e, 2) \/ (splice /\ ~inList) THEN [s |-> Signal(s, "template"), splice |-> FALSE]
       ELSE [s |-> IF ~r.ok \/ level = 0 THEN r ELSE Return(r, Expr(<<Car(e), r.v>>)), splice |-> splice]
  ELSE
    LET step(acc, item) ==
          LET r == Quasiquote(item, env, acc.s, depth, TRUE)
          IN IF ~r.splice \/ ~r.s.ok THEN [s |-> r.s, values |-> Append(acc.values, r.s.v)]
             ELSE IF Ending(r.s.v) # NilValue THEN [acc EXCEPT !.s = Signal(r.s, "splice")]
             ELSE [s |-> r.s, values |-> acc.values \o Elements(r.s.v)]
        end == FoldLeft(step, [s |-> s, values |-> <<>>], e.items)
    IN [s |-> IF end.s.ok THEN Return(end.s, Dotted(end.values, e.tail)) ELSE end.s, splice |-> FALSE]

(* How many arguments a special form takes. *)
SpecialArity(name) ==
  CASE name \in {"quote", "quasiquote", "macro"} -> 1..1
    [] name \in {"%define", "%define-constant", "%set!"} -> 2..2
    [] name = "if" -> 2..3
    [] name = "%lambda" -> 3..100
    [] name \in {"%let", "letrec", "%while"} -> 2..100
    [] OTHER -> 0..100
ImproperAllowed == {"and", "or", "cond", "begin", "%lambda", "%let", "letrec", "%while"}

ApplySpecial(name, args, env, s) ==
  LET a == Elements(args) IN
  IF Len(a) \notin SpecialArity(name) \/ (Ending(args) # NilValue /\ name \notin ImproperAllowed) THEN Signal(s, "arguments")
  ELSE CASE name = "quote" -> Return(s, a[1])
         [] name = "quasiquote" -> Quasiquote(a[1], env, s, 1, FALSE).s
         [] name = "%lambda" -> EvalLambda(args, env, s)
         [] name = "if" ->
              LET r == Eval(a[1], env, s)
              IN IF ~r.ok THEN r ELSE IF Truthy(r.v) THEN Eval(a[2], env, r)
                 ELSE IF Len(a) = 3 THEN Eval(a[3], env, r) ELSE Return(r, NilValue)
         [] name = "and" -> Junction(args, TRUE, env, s)
         [] name = "or" -> Junction(args, FALSE, env, s)
         [] name = "cond" -> CondClauses(args, env, s)
         [] name = "%while" -> WhileLoop(a[1], Cdr(args), env, s)
         [] name = "begin" -> EvalSequence(args, env, s)
         [] name = "%let" -> EvalLet(a[1], Cdr(args), env, s)
         [] name = "letrec" -> EvalLetrec(a[1], Cdr(args), env, s)
         [] name = "%define" -> EvalDefine(a[1], a[2], FALSE, env, s)
         [] name = "%define-constant" -> EvalDefine(a[1], a[2], TRUE, env, s)
         [] name = "%set!" ->
              LET r == Eval(a[2], env, s)
              IN IF ~Symbolic(a[1]) THEN Signal(s, "not a symbol") ELSE IF r.ok THEN SetVariable(a[1], r.v, env, r) ELSE r
         [] name = "macro" ->
              LET r == Eval(a[1], env, s)
              IN IF ~r.ok THEN r ELSE IF r.v.t \in {"primitive", "closure"} THEN Return(r, [t |-> "macro", fn |-> r.v])
                 ELSE Signal(r, "type")

(* In a folded body an operator that turns out to be a special form or a   *)
(* macro only now was folded as a function, and so were its arguments.     *)
ApplyForm(e, env, s) ==
  LET f == Eval(Car(e), env, s)
      late == s.folds /\ s.depth > 0 /\ f.ok /\ f.v.t \in {"macro", "special"} /\ Car(e) # f.v
      op == [f EXCEPT !.exempt = @ \/ late]
  IN IF ~f.ok THEN f
     ELSE CASE f.v.t = "macro" -> LET r == Apply(f.v.fn, Cdr(e), op) IN Eval(r.v, env, r)
            [] f.v.t = "special" -> ApplySpecial(f.v.name, Cdr(e), env, op)
            [] OTHER -> LET r == EvalEach(Cdr(e), env, op) IN Apply(f.v, r.v, r)

EvalExpression(e, env, s) ==
  IF ~s.ok THEN s
  ELSE IF Symbolic(e) THEN EvalSymbol(e, env, s)
  ELSE IF IsPair(e) THEN ApplyForm(e, env, s) ELSE Return(s, e)

Run(call, env, s) ==
  CASE call.does = "eval" -> EvalExpression(call.e, env, s)
    [] call.does = "apply" -> ApplyFunction(call.f, call.args, s)
    [] call.does = "fold" -> FoldExpression(call.e, env, s)

----------------------------------------------------------------------------
Fresh(folds, restart) ==
  [restart |-> restart, frames |-> <<[parent |-> 0, vars |-> <<>>]>>, code |-> <<>>, epoch |-> 0, depth |-> 0,
   folds |-> folds, exempt |-> FALSE, printed |-> <<>>, ok |-> TRUE, v |-> NilValue]
TopLevel(e, s) == Eval(e, 1, [s EXCEPT !.ok = TRUE, !.printed = <<>>, !.depth = 0])

(* Functions that list what their parameters are bound to. *)
ParametersOf(l) ==
  LET plain == l.required \o (IF l.optional = <<>> THEN <<>> ELSE <<Key("optional")>> \o l.optional)
  IN CASE l.more = "none" -> Expr(plain)
       [] l.more = "rest" -> Expr(plain \o <<Key("rest"), Sym("others")>>)
       [] l.more = "dot" -> Dotted(plain, Sym("others"))
       [] l.more = "key" -> Expr(plain \o <<Key("key")>> \o l.keys)
KeysOf(l) == IF l.more = "key" THEN l.keys ELSE <<>>
NamesOf(l) ==
  [i \in DOMAIN l.required |-> ParameterName(l.required[i])] \o [i \in DOMAIN l.optional |-> ParameterName(l.optional[i])]
    \o (IF l.more \in {"rest", "dot"} THEN <<Sym("others")>> ELSE [i \in DOMAIN KeysOf(l) |-> ParameterName(l.keys[i])])
CallOf(l, args) ==
  Expr(<<Expr(<<Sym("%lambda"), NilValue, ParametersOf(l), Expr(<<Sym("list")>> \o NamesOf(l))>>)>> \o args)

NotAsked == <<>>

EvaluatorInit ==
  /\ asked = NotAsked
  /\ forms = 0
  /\ \E setup \in Setups :
       /\ session = FoldLeft(LAMBDA s, e : TopLevel(e, s), Fresh(TRUE, setup.restart), setup.forms)
       /\ interpreted = FoldLeft(LAMBDA s, e : TopLevel(e, s), Fresh(FALSE, setup.restart), setup.forms)

EvaluatorIdle ==
  /\ asked = NotAsked
  /\ forms = 0
  /\ session = Fresh(TRUE, "error")
  /\ interpreted = Fresh(FALSE, "error")

EvaluateForm ==
  /\ forms < MaxForms
  /\ \E e \in SessionForms :
       /\ session' = TopLevel(e, session)
       /\ interpreted' = TopLevel(e, interpreted)
  /\ asked' = NotAsked
  /\ forms' = forms + 1

CallLambda ==
  /\ session.code = <<>>
  /\ \E l \in LambdaLists, args \in CallArguments :
       /\ session' = TopLevel(CallOf(l, args), session)
       /\ interpreted' = TopLevel(CallOf(l, args), interpreted)
       /\ asked' = <<l, args>>
  /\ forms' = MaxForms

EvaluatorNext == EvaluateForm \/ CallLambda

----------------------------------------------------------------------------
(* Folding is not noticed: after every form the interpreter that folds and *)
(* recompiles has the value or the error, the output and the variables of  *)
(* the one that does not, except for what a body cannot know when it is    *)
(* folded (compiler.c:261, Closure.c:309).                                 *)
CompiledMeansSource ==
  (~session.exempt /\ ~interpreted.exempt) =>
    /\ session.v = interpreted.v
    /\ session.printed = interpreted.printed
    /\ session.frames[1].vars = interpreted.frames[1].vars

(* Arguments reach the parameters they are meant for: the required ones    *)
(* first, the optional ones with what is left, then all others as a list   *)
(* or by keyword, where the first of two wins; and a call that leaves one  *)
(* out or gives one too many is an error (eval.c:472).                     *)
ExpectedArguments(l, args) ==
  LET r == Len(l.required)
      o == Len(l.optional)
      more == SubSeq(args, Min({Len(args), r + o}) + 1, Len(args))
      given(k) == {i \in DOMAIN more : i % 2 = 1 /\ more[i] = Key(ParameterName(k).name)}
      default(p) == IF DefaultOf(p) = NilValue \/ args = <<>> THEN NilValue ELSE args[1]
  IN IF \/ Len(args) < r
        \/ l.more = "none" /\ more # <<>>
        \/ l.more = "key" /\ (Len(more) % 2 = 1 \/ \E i \in DOMAIN more : i % 2 = 1 /\ \A k \in ToSet(l.keys) : more[i] # Key(ParameterName(k).name))
       THEN <<>>
     ELSE << Expr(SubSeq(args, 1, r)
                  \o [i \in 1..o |-> IF r + i <= Len(args) THEN args[r + i] ELSE default(l.optional[i])]
                  \o (IF l.more \in {"rest", "dot"} THEN <<Expr(more)>>
                      ELSE [i \in DOMAIN KeysOf(l) |->
                             IF given(l.keys[i]) = {} THEN default(l.keys[i]) ELSE more[Min(given(l.keys[i])) + 1]])) >>

ArgumentsReachParameters ==
  asked # NotAsked =>
    LET expected == ExpectedArguments(asked[1], asked[2])
    IN session.ok = (expected # <<>>) /\ (session.ok => session.v = expected[1])
================================================================================
