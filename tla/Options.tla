------------------------------- MODULE Options -------------------------------
(***************************************************************************)
(* Command line options (vm/cmdopts.c and the Parser class of              *)
(* modules/cmdopts.c).  Several tasks may parse with one parser, each with *)
(* a state of its own, and a callback or another thread may add options    *)
(* and arguments meanwhile: the parser's lock is held for each look at its *)
(* lists, not for a parse.  A step is one such look and the callback that  *)
(* follows it.                                                             *)
(***************************************************************************)
EXTENDS Integers, Sequences, SequencesExt

CONSTANTS
  Parsers,        \* a parser for one task
  Words, MaxWords,\* the words of its command lines, and how many of them
  SharedParses,   \* a parser and the command line of each task
  LateOptions,    \* what may be added while tasks parse
  LateArguments

VARIABLES
  parser,     \* its flag and lists; how many more may be added is a bound
  parses,     \* the parse of each task
  places      \* what the ready-made callbacks store to

optionVars == <<parser, parses, places>>

----------------------------------------------------------------------------
(* Words, by what the parser tells apart: a dash and letters, two dashes   *)
(* and a name that may be given a value, two dashes alone, any other.      *)
Plain(text) == [is |-> "plain", text |-> text]
Cluster(letters) == [is |-> "short", text |-> letters]
Long(name) == [is |-> "long", name |-> name]
LongWith(name, text) == [is |-> "valued", name |-> name, text |-> text]
TwoDashes == [is |-> "dashes"]
NotString == [is |-> "other"]
NoValue == [is |-> "nil"]

(* A word that is only a dash is plain. *)
ParsedWords == [is : {"plain"}, text : Seq(STRING)]
  \cup {w \in [is : {"short"}, text : Seq(STRING)] : w.text # <<>>}
  \cup [is : {"long"}, name : STRING] \cup [is : {"valued"}, name : STRING, text : Seq(STRING)]
  \cup {TwoDashes, NotString}

NoName == ""
Option(short, long, takes, does) == [short |-> short, long |-> long, takes |-> takes, does |-> does]
Argument(required, multiple, does) == [required |-> required, multiple |-> multiple, does |-> does]

(* Names are one character, a string, or a list of the two. *)
OptionNames(d) ==
  CASE d.form = "character" -> [short |-> d.short, long |-> NoName]
    [] d.form = "string" -> [short |-> NoName, long |-> d.long]
    [] d.form = "list" -> [short |-> d.short, long |-> d.long]
GoodNames(d) == d.form \in {"character", "string", "list"} /\ (d.form # "string" => d.short \notin {"two characters", "not ASCII"})
ParserOptions == [short : STRING, long : STRING, takes : BOOLEAN, does : STRING]
ParserArguments == [required : BOOLEAN, multiple : BOOLEAN, does : STRING]
OptionParsers == [strict : BOOLEAN, options : Seq(ParserOptions), arguments : Seq(ParserArguments), room : Nat]
CommandLines == [words : Seq(ParsedWords), tail : {"nil", "atom"}]

(* What may be added while tasks parse. *)
GoodFlags(keywords) == ToSet(keywords) \subseteq {"required", "multiple"}
LateOption(d, takes) == Option(OptionNames(d).short, OptionNames(d).long, takes, "call")
LateArgument(keywords) == Argument("required" \in ToSet(keywords), "multiple" \in ToSet(keywords), "call")

ASSUME OptionsAssumption ==
  /\ Words \subseteq ParsedWords /\ MaxWords \in Nat
  /\ Parsers \subseteq OptionParsers
  /\ \A setup \in SharedParses :
       setup.parser \in OptionParsers /\ \A t \in DOMAIN setup.lines : setup.lines[t] \in CommandLines
  /\ \A d \in LateOptions, takes \in BOOLEAN : GoodNames(d) => LateOption(d, takes) \in ParserOptions
  /\ \A keywords \in LateArguments : GoodFlags(keywords) => LateArgument(keywords) \in ParserArguments

AddOption(d, takes) ==
  /\ parser.room > 0 /\ GoodNames(d)
  /\ parser' = [parser EXCEPT !.options = Append(@, LateOption(d, takes)), !.room = @ - 1]
  /\ UNCHANGED <<parses, places>>

AddArgument(keywords) ==
  /\ parser.room > 0 /\ GoodFlags(keywords)
  /\ parser' = [parser EXCEPT !.arguments = Append(@, LateArgument(keywords)), !.room = @ - 1]
  /\ UNCHANGED <<parses, places>>

(* The first option of that name, 0 for none. *)
FindShort(p, letter) == SelectInSeq(p.options, LAMBDA o : o.short = letter)
FindLong(p, name) == SelectInSeq(p.options, LAMBDA o : o.long = name)

----------------------------------------------------------------------------
(* A parse: where it is, the words left and how their list ends, letters   *)
(* left of the word it is in, whether all else is an argument, the         *)
(* argument next in turn, the last there was, those that were given; and   *)
(* the calls it made.                                                      *)
Waiting(line) ==
  [pc |-> "waiting", line |-> line, words |-> line.words, letters |-> <<>>, only |-> FALSE, current |-> 0,
   last |-> 0, given |-> {}, calls |-> <<>>, began |-> <<>>]

Start(t) ==
  /\ parses[t].pc = "waiting"
  /\ parses' = [parses EXCEPT ![t].pc = "words", ![t].began = <<parser>>, ![t].last = Len(parser.arguments),
                              ![t].current = IF parser.arguments = <<>> THEN 0 ELSE 1]
  /\ UNCHANGED <<parser, places>>

(* The next word, where the list goes on and holds a string. *)
Broken(q) == IF q.words = <<>> THEN q.line.tail # "nil" ELSE Head(q.words) = NotString
Fails(t) ==
  /\ parses' = [parses EXCEPT ![t].pc = "failed"]
  /\ UNCHANGED <<parser, places>>

(* The ready-made callbacks keep a string, add it to a list that lasts     *)
(* longer than the parse, set or raise a flag, or take a number.           *)
IsNumber(value) == value.is = "plain" /\ value.text = <<"9">>
Accepts(does, value) == does = "number" => IsNumber(value)
Stored(does, value) ==
  CASE does = "list" -> [places EXCEPT !.list = Append(@, value)]
    [] does \in {"string", "number"} -> [places EXCEPT ![does] = <<value>>]
    [] does = "set" -> [places EXCEPT !.set = 1]
    [] does = "raise" -> [places EXCEPT !.raise = @ + 1]
    [] OTHER -> places

Calls(t, q, who, does, value) ==
  IF Accepts(does, value)
  THEN /\ parses' = [parses EXCEPT ![t] = [q EXCEPT !.calls = Append(@, [who |-> who, value |-> value])]]
       /\ places' = Stored(does, value)
       /\ UNCHANGED parser
  ELSE Fails(t)

(* An option that takes an argument has it in its own word or else is the  *)
(* next word, whatever that looks like.                                    *)
CallsWithNext(t, q, i) ==
  IF Broken(q) \/ q.words = <<>> THEN Fails(t)
  ELSE Calls(t, [q EXCEPT !.words = Tail(@)], <<"option", i>>, parser.options[i].does, Head(q.words))

EndOfWords(t) ==
  LET q == parses[t] IN
  /\ q.pc = "words" /\ q.words = <<>> /\ ~Broken(q)
  /\ parses' = [parses EXCEPT ![t].pc = "check"]
  /\ UNCHANGED <<parser, places>>

BrokenList(t) == parses[t].pc = "words" /\ Broken(parses[t]) /\ Fails(t)

AtWord(t, kinds) ==
  LET q == parses[t] IN q.pc = "words" /\ q.words # <<>> /\ ~q.only /\ Head(q.words).is \in kinds

EndMark(t) ==
  /\ AtWord(t, {"dashes"})
  /\ parses' = [parses EXCEPT ![t].only = TRUE, ![t].words = Tail(@)]
  /\ UNCHANGED <<parser, places>>

ShortWord(t) ==
  /\ AtWord(t, {"short"})
  /\ parses' = [parses EXCEPT ![t].pc = "letters", ![t].letters = Head(parses[t].words).text, ![t].words = Tail(@)]
  /\ UNCHANGED <<parser, places>>

ShortOption(t) ==
  LET q == parses[t]
      i == FindShort(parser, Head(q.letters))
      rest == Tail(q.letters)
      done == [q EXCEPT !.pc = "words", !.letters = <<>>]
  IN /\ q.pc = "letters"
     /\ IF i = 0 THEN Fails(t)
        ELSE IF ~parser.options[i].takes
          THEN Calls(t, IF rest = <<>> THEN done ELSE [q EXCEPT !.letters = rest], <<"option", i>>, parser.options[i].does, NoValue)
        ELSE IF rest # <<>> THEN Calls(t, done, <<"option", i>>, parser.options[i].does, Plain(rest))
        ELSE CallsWithNext(t, done, i)

LongOption(t) ==
  LET q == [parses[t] EXCEPT !.words = Tail(@)]
      w == Head(parses[t].words)
      i == FindLong(parser, w.name)
  IN /\ AtWord(t, {"long", "valued"})
     /\ IF i = 0 THEN Fails(t)
        ELSE IF parser.options[i].takes
          THEN IF w.is = "long" THEN CallsWithNext(t, q, i)
               ELSE Calls(t, q, <<"option", i>>, parser.options[i].does, Plain(w.text))
        ELSE IF w.is = "long" THEN Calls(t, q, <<"option", i>>, parser.options[i].does, NoValue)
        ELSE Fails(t)

(* An argument; in strict order all that follow it are arguments too. The  *)
(* one next in turn is looked up only when the callback has returned.      *)
Positional(t) ==
  LET q == parses[t] IN
  /\ AtWord(t, {"plain"}) \/ (q.pc = "words" /\ q.only /\ q.words # <<>> /\ ~Broken(q))
  /\ IF q.current = 0 THEN Fails(t)
     ELSE Calls(t, [q EXCEPT !.pc = "advance", !.only = @ \/ parser.strict, !.given = @ \cup {q.current}, !.words = Tail(@)],
                <<"argument", q.current>>, parser.arguments[q.current].does, Head(q.words))

(* Mutant of NextInTurn: the argument of a parse that went past the last one  *)
(* is the last one again.                                                  *)
NextInTurnStays(t) ==
  /\ parses[t].pc = "advance"
  /\ parses' = [parses EXCEPT ![t].pc = "words",
                              ![t].current = IF parser.arguments[@].multiple \/ @ = Len(parser.arguments) THEN @ ELSE @ + 1]
  /\ UNCHANGED <<parser, places>>

NextInTurn(t) ==
  /\ parses[t].pc = "advance"
  /\ parses' = [parses EXCEPT ![t].pc = "words",
                              ![t].current = IF parser.arguments[@].multiple THEN @
                                             ELSE IF @ = Len(parser.arguments) THEN 0 ELSE @ + 1]
  /\ UNCHANGED <<parser, places>>

(* Required arguments, as far as there were any when the parse began: all  *)
(* of them if there was none.                                              *)
CheckRequired(t) ==
  LET q == parses[t] IN
  /\ q.pc = "check"
  /\ parses' = [parses EXCEPT ![t].pc =
       IF \E i \in DOMAIN parser.arguments : (q.last # 0 => i <= q.last) /\ parser.arguments[i].required /\ i \notin q.given
       THEN "failed" ELSE "done"]
  /\ UNCHANGED <<parser, places>>

ParseStep(t) ==
  \/ Start(t) \/ EndOfWords(t) \/ BrokenList(t) \/ EndMark(t) \/ ShortWord(t)
  \/ ShortOption(t) \/ LongOption(t) \/ Positional(t) \/ NextInTurn(t) \/ CheckRequired(t)

NoPlaces == [string |-> <<>>, number |-> <<>>, list |-> <<>>, set |-> 0, raise |-> 0]

OptionsInit ==
  /\ places = NoPlaces
  /\ \/ /\ parser \in Parsers
        /\ \E n \in 0..MaxWords : \E words \in [1..n -> Words], tail \in {"nil", "atom"} :
             /\ tail = "nil" \/ n < MaxWords
             /\ parses = [t1 |-> Waiting([words |-> words, tail |-> tail])]
     \/ \E setup \in SharedParses :
          /\ parser = setup.parser
          /\ parses = [t \in DOMAIN setup.lines |-> Waiting(setup.lines[t])]

OptionsIdle ==
  /\ places = NoPlaces
  /\ parser = [strict |-> FALSE, options |-> <<>>, arguments |-> <<>>, room |-> 0]
  /\ parses = <<>>

OptionsNext ==
  \/ \E t \in DOMAIN parses : ParseStep(t)
  \/ \E d \in LateOptions, takes \in BOOLEAN : AddOption(d, takes)
  \/ \E keywords \in LateArguments : AddArgument(keywords)

----------------------------------------------------------------------------
(* What a command line means, word by word: a word is the value of the     *)
(* option before it, an option, the mark that ends them, or an argument.   *)
FirstSpecial(p, w) == SelectInSeq(w.text, LAMBDA c : FindShort(p, c) = 0 \/ p.options[FindShort(p, c)].takes)
WantsNext(p, w) ==
  CASE w.is = "short" -> LET j == FirstSpecial(p, w) IN j = Len(w.text) /\ FindShort(p, w.text[j]) # 0
    [] w.is = "long" -> FindLong(p, w.name) # 0 /\ p.options[FindLong(p, w.name)].takes
    [] OTHER -> FALSE

Roles(p, words) ==
  LET role[i \in 1..Len(words)] ==
        IF i > 1 /\ role[i - 1] = "option" /\ WantsNext(p, words[i - 1]) THEN "value"
        ELSE IF \E j \in 1..(i - 1) : role[j] = "mark" \/ (p.strict /\ role[j] = "argument") THEN "argument"
        ELSE CASE words[i].is = "dashes" -> "mark" [] words[i].is = "plain" -> "argument" [] OTHER -> "option"
  IN role

(* The calls a word makes; a word that cannot be understood ends with the  *)
(* call of nothing.                                                        *)
Unknown == [who |-> <<"nothing", 0>>, value |-> NoValue]
CallOf(p, i, value) ==
  IF i = 0 \/ (p.options[i].takes # (value # NoValue)) \/ value = NotString \/ ~Accepts(p.options[i].does, value) THEN Unknown
  ELSE [who |-> <<"option", i>>, value |-> value]
OptionCalls(p, w, next) ==
  CASE w.is = "short" ->
         LET j == FirstSpecial(p, w)
             value(k) == IF k # j THEN NoValue
                         ELSE IF k = Len(w.text) THEN next ELSE Plain(SubSeq(w.text, k + 1, Len(w.text)))
         IN [k \in 1..(IF j = 0 THEN Len(w.text) ELSE j) |-> CallOf(p, FindShort(p, w.text[k]), value(k))]
    [] w.is = "long" -> <<CallOf(p, FindLong(p, w.name), IF WantsNext(p, w) THEN next ELSE NoValue)>>
    [] w.is = "valued" -> <<CallOf(p, FindLong(p, w.name), Plain(w.text))>>
    [] OTHER -> <<Unknown>>

(* The k-th argument of a line, and its call. *)
ArgumentFor(p, k) ==
  LET open == SelectInSeq(p.arguments, LAMBDA a : a.multiple)
  IN IF open # 0 /\ k > open THEN open ELSE k
ArgumentCall(p, i, w) ==
  IF i > Len(p.arguments) \/ w = NotString \/ ~Accepts(p.arguments[i].does, w) THEN Unknown
  ELSE [who |-> <<"argument", i>>, value |-> w]

WordCalls(p, words, roles, i) ==
  CASE roles[i] = "option" -> OptionCalls(p, words[i], IF i < Len(words) THEN words[i + 1] ELSE NotString)
    [] roles[i] = "argument" ->
         <<ArgumentCall(p, ArgumentFor(p, Cardinality({j \in 1..i : roles[j] = "argument"})), words[i])>>
    [] OTHER -> <<>>
Meaning(p, line) ==
  FlattenSeq([i \in DOMAIN line.words |-> WordCalls(p, line.words, Roles(p, line.words), i)])
    \o (IF line.tail = "nil" THEN <<>> ELSE <<Unknown>>)

Understood(p, line) ==
  LET m == Meaning(p, line) IN
  /\ Unknown \notin ToSet(m)
  /\ \A i \in DOMAIN p.arguments : p.arguments[i].required => \E c \in ToSet(m) : c.who = <<"argument", i>>

(* A parse calls back for each word what it means, in the order of the     *)
(* words, and nothing of the parses of other tasks or of what is added     *)
(* meanwhile changes that; it fails only on a line that had no meaning     *)
(* when it began, or, begun without arguments, for one added since         *)
(* (cmdopts.c:291, :398).                                                  *)
ParsedAsMeant ==
  \A t \in DOMAIN parses : parses[t].pc # "waiting" =>
    LET q == parses[t]
        began == q.began[1]
        m == Meaning(parser, q.line)
        known == SelectInSeq(m, LAMBDA c : c = Unknown)
    IN /\ IsPrefix(q.calls, IF known = 0 THEN m ELSE SubSeq(m, 1, known - 1))
       /\ q.pc = "done" =>
            /\ q.calls = m
            /\ \A i \in DOMAIN began.arguments : began.arguments[i].required => \E c \in ToSet(m) : c.who = <<"argument", i>>
       /\ q.pc = "failed" => ~Understood(began, q.line) \/ (began.arguments = <<>> /\ parser.arguments # <<>>)
==============================================================================
