------------------------------- MODULE MCText -------------------------------
(***************************************************************************)
(* Texts for the strings, the format strings and the reader, of which each *)
(* is the sequence of its bytes, and programs for the evaluator.           *)
(***************************************************************************)
EXTENDS Formats, Reader, Evaluator

(* a; _; a space; line ends; the two bytes of e with an acute accent; and  *)
(* bytes that are not UTF-8: cut short, too long, a surrogate, too large.  *)
MCRawTexts ==
  UNION {[1..n -> {97, 195, 169}] : n \in 0..2} \cup
  { <<97, 95, 32>>, <<13, 10, 13>>, <<97, 13, 10>>, <<97, 195, 40>>, <<237, 160, 128>>,
    <<224, 130, 128>>, <<240, 144, 128, 128>>, <<244, 144, 128, 128>>,
    <<97, 32, 9, 97>>, <<97, 97, 97>>, <<95, 65, 128, 128>> }
MCNeedles ==
  { <<>>, <<97>>, <<195, 169>>, <<97, 97>>, <<97, 195, 169>>, <<32>>, <<239, 191, 190>> }
MCReplacements == {<<>>, <<97, 195, 169>>}
MCCaseTable ==
  { [from |-> 97, lower |-> <<97>>, title |-> <<65>>, upper |-> <<65>>],
    [from |-> 65, lower |-> <<97>>, title |-> <<65>>, upper |-> <<65>>],
    [from |-> 233, lower |-> <<233>>, title |-> <<69, 769>>, upper |-> <<69, 769>>] }

(* Every format of at most four directives, and iterations inside          *)
(* iterations; arguments of lists in lists.                                *)
Plainly(kind) == Directive(kind, FALSE, FALSE, -1)
MCDirectives ==
  {Plainly("a"), Plainly("text"), Plainly("{"), Plainly("}"), Directive("{", TRUE, FALSE, -1),
   Directive("{", FALSE, TRUE, -1), Directive("{", FALSE, FALSE, 1)}
MCFormats ==
  UNION {[1..n -> MCDirectives] : n \in 0..4} \cup
  {<<d, e>> \o m \o <<Plainly("}"), Plainly("}")>> \o t :
     d \in MCDirectives, e \in MCDirectives,
     m \in {<<Plainly("a")>>, <<Plainly("a"), Plainly("a")>>}, t \in {<<>>, <<Plainly("a")>>}}
Pair == <<Atom(1), Atom(2)>>
MCFormatArguments ==
  { <<>>, Pair, <<ListOf(Pair)>>, <<ListOf(Pair), Atom(3)>>,
    <<ListOf(<<ListOf(Pair), ListOf(<<Atom(3), Atom(4)>>)>>)>>,
    <<ListOf(<<ListOf(<<ListOf(Pair)>>)>>), Atom(3)>>, <<ListOf(<<>>)>>,
    <<ListOf(<<Atom(1), Atom(2), Atom(3)>>)>> }

----------------------------------------------------------------------------
MCNames == [
  quote |-> <<113, 117, 111, 116, 101>>,
  quasiquote |-> <<113, 117, 97, 115, 105, 113, 117, 111, 116, 101>>,
  unquote |-> <<117, 110, 113, 117, 111, 116, 101>>,
  splicing |-> <<117, 110, 113, 117, 111, 116, 101, 45, 115, 112, 108, 105, 99, 105, 110, 103>>,
  send |-> <<115, 101, 110, 100>>,
  closure |-> <<37, 99, 108, 111, 115, 117, 114, 101>>,
  dynamic |-> <<37, 100, 121, 110, 97, 109, 105, 99, 45, 114, 101, 102>>,
  slot |-> <<37, 115, 101, 108, 102, 45, 115, 108, 111, 116>>,
  implementation |-> <<76, 105, 115, 116, 84, 97, 108, 107, 45, 105, 109, 112, 108, 101, 109, 101,
                      110, 116, 97, 116, 105, 111, 110>>,
  rue |-> <<114, 117, 101>>,
  alse |-> <<97, 108, 115, 101>>,
  il |-> <<105, 108>> ]

Named(name, codepoint, canonical) == [name |-> name, codepoint |-> codepoint, printed |-> canonical]
MCNamedCharacters ==
  { Named(<<110, 101, 119, 108, 105, 110, 101>>, 10, TRUE),
    Named(<<114, 101, 116, 117, 114, 110>>, 13, TRUE),
    Named(<<116, 97, 98>>, 9, TRUE),
    Named(<<115, 112, 97, 99, 101>>, 32, TRUE),
    Named(<<108, 102>>, 10, FALSE) }

(* Forms that a line may end in where they have a space, and forms with    *)
(* none, or where the reader gives up at the end of a line: inside a       *)
(* dotted tail and inside #C (reader.c:1781, :1064).                       *)
Breakable ==
  { <<124, 97, 32, 98, 124>>,  \* |a b|
    <<40, 97, 32, 39, 98, 41>>,  \* (a 'b)
    <<40, 97, 32, 46, 115, 41>>,  \* (a .s)
    <<96, 40, 97, 32, 44, 98, 32, 44, 64, 99, 41>>,  \* `(a ,b ,@c)
    <<35, 40, 49, 32, 34, 97, 92, 110, 34, 32, 35, 92, 115, 112, 97, 99, 101, 41>>,  \* #(1 "a\n" #\space)
    <<34, 97, 59, 98, 32, 92, 120, 48, 55, 92, 117, 48, 48, 101, 57, 92, 34, 34>>,  \* "a;b \x07\u00e9\""
    <<35, 117, 56, 40, 49, 32, 50, 53, 53, 41>>,  \* #u8(1 255)
    <<35, 68, 40, 97, 32, 49, 41>>,  \* #D(a 1)
    <<123, 97, 32, 98, 125>>,  \* {a b}
    <<91, 97, 32, 98, 93>>,  \* [a b]
    <<91, 97, 32, 98, 58, 32, 49, 32, 99, 58, 32, 50, 32, 58, 100, 93>>,  \* [a b: 1 c: 2 :d]
    <<91, 97, 32, 43, 32, 49, 32, 58, 32, 98, 93>>,  \* [a + 1 : b]
    <<40, 46, 32, 97, 41>>,  \* (. a)
    <<40, 97, 32, 46, 32, 98, 32, 99, 41>>,  \* (a . b c)
    <<91, 97, 32, 98, 32, 49, 93>> }  \* [a b 1]
Unbroken ==
  { <<97>>,  \* a
    <<45, 49, 50>>,  \* -12
    <<43>>,  \* +
    <<49, 47, 50>>,  \* 1/2
    <<49, 46, 53, 101, 49>>,  \* 1.5e1
    <<50, 105>>,  \* 2i
    <<49, 64, 50>>,  \* 1@2
    <<58, 107>>,  \* :k
    <<112, 58, 107>>,  \* p:k
    <<97, 92, 124, 98>>,  \* a\|b
    <<40, 41>>,  \* ()
    <<40, 97, 32, 46, 32, 40, 98, 32, 99, 41, 41>>,  \* (a . (b c))
    <<40, 97, 32, 46, 32, 98, 41>>,  \* (a . b)
    <<35, 34, 97, 92, 120, 102, 102, 92, 49, 48, 49, 34>>,  \* #"a\xff\101"
    <<35, 67, 40, 49, 32, 50, 41>>,  \* #C(1 2)
    <<46, 115>>,  \* .s
    <<42, 100, 42>>,  \* *d*
    <<35, 116>>,  \* #t
    <<35, 102, 97, 108, 115, 101>>,  \* #false
    <<35, 110, 105, 108>>,  \* #nil
    <<35, 120, 102, 102>>,  \* #xff
    <<35, 51, 114, 50, 49>>,  \* #3r21
    <<35, 92, 40>>,  \* #\(
    <<35, 92, 97>>,  \* #\a
    <<35, 92, 117, 43, 101, 57>>,  \* #\u+e9
    <<35, 92, 78, 69, 87, 76, 73, 78, 69>>,  \* #\NEWLINE
    <<35, 112, 34, 97, 34>>,  \* #p"a"
    <<41>>,  \* )
    <<40, 97>>,  \* (a
    <<34, 97>>,  \* "a
    <<124, 97>>,  \* |a
    <<35, 113>>,  \* #q
    <<46>>,  \* .
    <<35, 117, 56, 40, 50, 53, 54, 41>>,  \* #u8(256)
    <<97, 58>>,  \* a:
    <<35, 60, 120, 62>>,  \* #<x>
    <<39>>,  \* '
    <<35, 92, 117, 43, 100, 56, 48, 48>>,  \* #\u+d800
    <<59, 32, 40>>,  \* ; (
    <<35, 33, 32, 40>> }  \* #! (
Broken(f) == [i \in DOMAIN f |-> IF f[i] = 32 THEN 10 ELSE f[i]]
Forms == Breakable \cup {Broken(f) : f \in Breakable} \cup Unbroken

(* A form after any form, on its line, on the next or with nothing between.*)
Second ==
  { <<>>,
    <<97>>,  \* a
    <<45, 49, 50>>,  \* -12
    <<40, 97, 32, 39, 98, 41>>,  \* (a 'b)
    <<34, 97, 59, 98, 32, 92, 120, 48, 55, 92, 117, 48, 48, 101, 57, 92, 34, 34>>,  \* "a;b \x07\u00e9\""
    <<91, 97, 32, 98, 93>>,  \* [a b]
    <<46, 115>>,  \* .s
    <<42, 100, 42>>,  \* *d*
    <<35, 116>>,  \* #t
    <<41>>,  \* )
    <<35, 120, 102, 102>>,  \* #xff
    <<59, 32, 40>>,  \* ; (
    <<35, 92, 97>> }  \* #\a
MCPrograms == {f \o s \o g \o <<10>> : f \in Forms, s \in {<<32>>, <<10>>, <<>>}, g \in Second}

----------------------------------------------------------------------------
(* What sessions of the evaluator are made of: a name k that is a          *)
(* constant, a variable or not bound, a macro, a function g with a body    *)
(* that uses them, and the forms that follow.                              *)

E(items) == Expr(items)
S(name) == Sym(name)
K == S("k")
QuotedForm(e) == E(<<S("quote"), e>>)
SumOf(a, b) == E(<<S("+"), a, b>>)
Fn(params, body) == E(<<S("%lambda"), NilValue, params, body>>)
Def(name, value) == E(<<S("%define"), S(name), value>>)
Const(name, value) == E(<<S("%define-constant"), S(name), value>>)
Text == [t |-> "string", s |-> "text"]
Numbers123 == QuotedForm(E(<<Num(1), Num(2), Num(3)>>))

(* Macros that quote their argument, evaluate it twice, give it back.      *)
Quoter == E(<<S("macro"), Fn(E(<<S("e")>>), E(<<S("list"), QuotedForm(S("quote")), S("e")>>))>>)
Twice == E(<<S("macro"), Fn(E(<<S("e")>>), E(<<S("list"), QuotedForm(S("+")), S("e"), S("e")>>))>>)
Same == E(<<S("macro"), Fn(E(<<S("e")>>), S("e"))>>)

MCBodies ==
  { \* constants, and calls of primitives on them
    SumOf(K, Num(1)),
    E(<<S("car"), E(<<S("memq"), K, Numbers123>>)>>),
    SumOf(K, QuotedForm(S("a"))),
    \* names bound in the body
    E(<<S("%let"), E(<<E(<<K, SumOf(K, Num(4))>>)>>), SumOf(K, Num(1))>>),
    E(<<Fn(E(<<K>>), SumOf(K, Num(1))), Num(4)>>),
    E(<<Fn(E(<<Key("optional"), E(<<K, Num(6)>>)>>), SumOf(K, Num(1)))>>),
    E(<<Fn(E(<<S("a"), Key("key"), E(<<K, SumOf(S("a"), K)>>)>>), E(<<S("list"), K>>)), Num(2)>>),
    E(<<Fn(E(<<Key("rest"), K>>), K), K, Num(2)>>),
    E(<<Fn(Dotted(<<S("a")>>, K), E(<<S("list"), S("a"), K>>)), K, Num(3)>>),
    E(<<S("letrec"), E(<<E(<<K, Fn(E(<<S("n")>>), E(<<S("if"), S("n"), E(<<K, E(<<S("not"), S("n")>>)>>), Num(7)>>))>>)>>), E(<<K, S("v")>>)>>),
    E(<<S("begin"), Def("k", Num(7)), K>>),
    \* control
    E(<<S("if"), E(<<S("not"), K>>), E(<<S("note"), Num(1)>>), E(<<S("note"), SumOf(K, K)>>)>>),
    E(<<S("cond"), E(<<E(<<S("not"), S("v")>>), K>>), E(<<S("v")>>), E(<<S("else"), E(<<S("note"), K>>), K>>)>>),
    E(<<S("or"), E(<<S("and"), K, E(<<S("not"), S("v")>>)>>), SumOf(K, S("v"))>>),
    E(<<S("begin"), E(<<S("%while"), S("v"), E(<<S("note"), K>>), E(<<S("%set!"), S("v"), E(<<S("not"), K>>)>>)>>), S("v")>>),
    E(<<S("begin"), E(<<S("%set!"), K, SumOf(K, Num(1))>>), K>>),
    E(<<S("begin"), E(<<S("at:putConstant:"), QuotedForm(K), Num(8)>>), E(<<S("list"), K, E(<<S("constant?:"), QuotedForm(K)>>)>>)>>),
    \* templates
    E(<<S("quasiquote"), Dotted(<<K, E(<<S("unquote"), K>>), E(<<S("unquote-splicing"), E(<<S("memq"), Num(2), Numbers123>>)>>)>>, K)>>),
    E(<<S("quasiquote"), E(<<K, E(<<S("quasiquote"), E(<<S("unquote"), E(<<K, E(<<S("unquote"), K>>)>>)>>)>>)>>)>>),
    E(<<S("quasiquote"), E(<<S("unquote-splicing"), K>>)>>),
    E(<<S("quasiquote"), E(<<S("unquote"), K, K>>)>>),
    \* macros, functions as values
    E(<<S("m"), K>>),
    E(<<S("m"), E(<<S("m"), K>>)>>),
    E(<<S("list"), E(<<S("m"), SumOf(K, Num(1))>>), E(<<S("m"), E(<<S("m"), E(<<S("m"), K>>)>>)>>)>>),
    Fn(E(<<S("n")>>), SumOf(K, S("n"))),
    Dotted(<<S("list"), K>>, Num(5)) }

MCSetup(knows, macro, b, restart) ==
  [forms |-> knows \o <<macro, Def("v", Num(3)), Def("g", E(<<S("%lambda"), NilValue, NilValue, Text, b>>))>>,
   restart |-> restart]
MCSetups ==
  {[forms |-> <<>>, restart |-> "error"]}
    \cup {MCSetup(knows, macro, b, "error") :
            knows \in {<<Const("k", Num(1))>>, <<Const("k", Numbers123)>>, <<Def("k", Num(2))>>},
            macro \in {Const("m", Quoter), Def("m", Quoter), Const("m", Same)}, b \in MCBodies}
    \cup {MCSetup(<<>>, Const("m", Twice), b, restart) : b \in MCBodies, restart \in {"error", "use", "define"}}

MCForms ==
  { E(<<S("g")>>), E(<<E(<<S("g")>>), Num(1)>>), Const("k", Num(2)), Def("k", Num(3)), Const("m", Twice),
    E(<<S("at:put:"), QuotedForm(K), E(<<S("at:"), QuotedForm(S("v"))>>)>>), E(<<S("%set!"), S("v"), K>>) }

(* Defaults are the first parameter of all. *)
MCLambdaLists ==
  UNION {[required : {<<>>, <<S("p"), S("q")>>}, more : {"none", "rest", "dot", "key"},
          optional : {<<>>, <<S("r")>>}, keys : {<<E(<<K, NilValue>>), S("z")>>}],
         [required : {<<>>}, more : {"none", "dot"}, optional : {<<S("r"), E(<<S("s"), S("r")>>)>>}, keys : {<<>>}],
         [required : {<<S("p")>>}, more : {"none", "key"}, optional : {<<E(<<S("r"), S("p")>>)>>}, keys : {<<E(<<K, S("p")>>)>>}]}
MCCallArguments ==
  UNION {[1..n -> {Num(1), Num(2)}] : n \in 0..3}
    \cup {before \o pair \o after : before \in {<<>>, <<Num(1), Num(2)>>, <<Num(1), Num(2), Num(3)>>},
          pair \in {<<Key("k"), Num(4)>>, <<Key("z"), Num(5)>>, <<Key("y"), Num(5)>>},
          after \in {<<>>, <<Key("k")>>, <<Key("k"), Num(6)>>}}
=============================================================================
