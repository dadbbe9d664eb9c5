---------------------------------- MODULE Json ----------------------------------
(***************************************************************************)
(* JSON (modules/json.c): a decoder that turns text into values as its two *)
(* conversions say, and an encoder that turns values into text, in one     *)
(* line or indented.                                                       *)
(*                                                                         *)
(* A text is a sequence of symbols: a character, a literal word, or the    *)
(* four hexadecimal digits of an escape.  A float is a decimal fraction:   *)
(* the digits past those that tell it from other floats are left out.      *)
(***************************************************************************)
EXTENDS Integers, Sequences, FiniteSets, SequencesExt, Functions

CONSTANTS
  Documents,          \* texts to decode
  EditSymbols,        \* what a text may have inserted
  Encodables, Plists, \* values to encode
  MaxTurns            \* how many calls and changes a codec gets

VARIABLE json  \* a decoder and an encoder, and the last call to one of them

jsonVars == <<json>>

----------------------------------------------------------------------------
(* Values.                                                                 *)
JNil == [is |-> "nil"]
JTrue == [is |-> "true"]
JFalse == [is |-> "false"]
JString(text) == [is |-> "string", text |-> text]
JList(items) == IF items = <<>> THEN JNil ELSE [is |-> "list", items |-> items]
JVector(items) == [is |-> "vector", items |-> items]
JDictionary(entries) == [is |-> "dictionary", entries |-> entries]
JObject == [is |-> "object"]

(* m * 10^k, where m does not end in 0. *)
JNumber(exact, negative, m, k) ==
  LET zeros == IF m = 0 THEN 0 ELSE CHOOSE j \in 0..8 : m % 10^j = 0 /\ m % 10^(j + 1) # 0
  IN [is |-> "number", exact |-> exact, negative |-> negative /\ ~(exact /\ m = 0),
      m |-> m \div 10^zeros, k |-> IF m = 0 THEN 0 ELSE k + zeros]

----------------------------------------------------------------------------
(* Symbols.                                                                *)
White == {" ", "\n", "\t", "\f", "CR"}
Control == {"\n", "\t", "\f", "CR", "BS", "BEL"}
DigitSymbols == <<"0", "1", "2", "3", "4", "5", "6", "7", "8", "9">>
Digit == ToSet(DigitSymbols)
Literals == ("null" :> JNil) @@ ("true" :> JTrue) @@ ("false" :> JFalse)

Escapes == ("\"" :> "\"") @@ ("\\" :> "\\") @@ ("/" :> "/") @@ ("b" :> "BS") @@ ("f" :> "\f")
             @@ ("n" :> "\n") @@ ("r" :> "CR") @@ ("t" :> "\t")
HexDigits == ("0007" :> 7) @@ ("005C" :> 92) @@ ("D83D" :> 55357) @@ ("DE00" :> 56832)
CharacterOf == (7 :> "BEL") @@ (92 :> "\\") @@ (128512 :> "U+1F600")

DigitsValue(digits) == FoldLeft(LAMBDA n, c : 10 * n + SelectInSeq(DigitSymbols, LAMBDA d : d = c) - 1, 0, digits)

SkipSpace(t) == LET i == SelectInSeq(t, LAMBDA c : c \notin White) IN IF i = 0 THEN <<>> ELSE SubSeq(t, i, Len(t))
Peek(t) == IF t = <<>> THEN "end" ELSE t[1]
Beyond(t, n) == SubSeq(t, n + 1, Len(t))

NoParse == [ok |-> FALSE]
ParsedTo(value, rest) == [ok |-> TRUE, value |-> value, rest |-> rest]

----------------------------------------------------------------------------
(* Decoding.                                                               *)

(* What follows a backslash; a code point past 16 bits takes two escapes.  *)
HighHalf == 55296..56319
LowHalf == 56320..57343
EscapedCodePoint(t) ==
  IF Peek(t) \notin DOMAIN HexDigits THEN NoParse
  ELSE LET high == HexDigits[t[1]]
           low == HexDigits[t[4]]
       IN IF high \in LowHalf THEN NoParse
          ELSE IF high \notin HighHalf THEN ParsedTo(CharacterOf[high], Tail(t))
          ELSE IF Len(t) < 4 \/ SubSeq(t, 2, 3) # <<"\\", "u">> \/ t[4] \notin DOMAIN HexDigits \/ low \notin LowHalf THEN NoParse
          ELSE ParsedTo(CharacterOf[65536 + (high - 55296) * 1024 + (low - 56320)], Beyond(t, 4))
ReadEscape(t) ==
  IF Peek(t) = "u" THEN EscapedCodePoint(Tail(t))
  ELSE IF Peek(t) \in DOMAIN Escapes THEN ParsedTo(Escapes[t[1]], Tail(t))
  ELSE NoParse

(* A number: digits that do not begin with 0, unless it is the only one,   *)
(* then perhaps a fraction and an exponent, which make it a float.         *)
DigitRun(t) == LET i == SelectInSeq(t, LAMBDA c : c \notin Digit) IN IF i = 0 THEN Len(t) ELSE i - 1
EndOfDigits(t, start) == start + DigitRun(Beyond(t, start))
EndOfWhole(t, minus) == IF Peek(Beyond(t, minus)) = "0" THEN minus + 1 ELSE EndOfDigits(t, minus)
EndOfFraction(t, whole) == IF Peek(Beyond(t, whole)) = "." THEN EndOfDigits(t, whole + 1) ELSE whole
ExponentStart(t, fraction) == IF Peek(Beyond(t, fraction + 1)) \in {"+", "-"} THEN fraction + 2 ELSE fraction + 1
ExponentValue(t, start, end) ==
  LET n == DigitsValue(SubSeq(t, start + 1, end)) IN IF t[start] = "-" THEN 0 - n ELSE n

NumberUpTo(t, minus, whole, fraction, start, end) ==
  IF whole = minus \/ fraction = whole + 1 \/ (start # fraction /\ end = start) THEN NoParse
  ELSE ParsedTo(JNumber(end = whole, minus = 1, DigitsValue(SubSeq(t, minus + 1, whole) \o SubSeq(t, whole + 2, fraction)),
                      (IF end = fraction THEN 0 ELSE ExponentValue(t, start, end))
                        - (IF fraction = whole THEN 0 ELSE fraction - whole - 1)),
              Beyond(t, end))
NumberWithFraction(t, minus, whole, fraction) ==
  LET start == IF Peek(Beyond(t, fraction)) \in {"e", "E"} THEN ExponentStart(t, fraction) ELSE fraction
  IN NumberUpTo(t, minus, whole, fraction, start, IF start = fraction THEN fraction ELSE EndOfDigits(t, start))
NumberFrom(t, minus) == NumberWithFraction(t, minus, EndOfWhole(t, minus), EndOfFraction(t, EndOfWhole(t, minus)))
ParseNumber(t) == NumberFrom(t, IF t[1] = "-" THEN 1 ELSE 0)

(* The conversions: a function may be one, any other value is an error.    *)
ConvertArray(d, items, rest) ==
  CASE d.array = "list" -> ParsedTo(JList(items), rest)
    [] d.array = "vector" -> ParsedTo(JVector(items), rest)
    [] d.array = "function" -> ParsedTo(JObject, rest)
    [] OTHER -> NoParse

(* A key that comes again replaces the value. *)
PlistEntries(items) ==
  LET keys == {items[i].text : i \in {j \in DOMAIN items : j % 2 = 1}}
      last(key) == CHOOSE i \in DOMAIN items :
                     /\ i % 2 = 1 /\ items[i].text = key
                     /\ \A j \in DOMAIN items : (j % 2 = 1 /\ j > i) => items[j].text # key
  IN [key \in keys |-> items[last(key) + 1]]
ConvertObject(d, items, rest) ==
  CASE d.object = "plist" -> ParsedTo(JList(items), rest)
    [] d.object = "dictionary" -> ParsedTo(JDictionary(PlistEntries(items)), rest)
    [] d.object = "function" -> ParsedTo(JObject, rest)
    [] OTHER -> NoParse

(* Parse(d, what, t, read) reads what it is told off t, after what it has  *)
(* read of it: a value, the characters of a string, elements or members.   *)
RECURSIVE Parse(_, _, _, _)

ParseString(d, t, read) ==
  IF t = <<>> \/ Peek(t) \in Control THEN NoParse
  ELSE IF t[1] = "\"" THEN ParsedTo(JString(read), Tail(t))
  ELSE LET c == IF t[1] = "\\" THEN ReadEscape(Tail(t)) ELSE ParsedTo(t[1], Tail(t))
       IN IF c.ok THEN Parse(d, "string", c.rest, Append(read, c.value)) ELSE NoParse

ParseArray(d, t, read) ==
  LET item == Parse(d, "value", t, <<>>)
      rest == SkipSpace(item.rest)
      items == Append(read, item.value)
  IN IF ~item.ok \/ Peek(rest) \notin {"]", ","} THEN NoParse
     ELSE IF Peek(rest) = "]" THEN ConvertArray(d, items, Tail(rest))
     ELSE Parse(d, "array", SkipSpace(Tail(rest)), items)

ParseObject(d, t, read) ==
  LET key == IF Peek(t) = "\"" THEN Parse(d, "string", Tail(t), <<>>) ELSE NoParse
      colon == SkipSpace(key.rest)
      value == IF key.ok /\ Peek(colon) = ":" THEN Parse(d, "value", Tail(colon), <<>>) ELSE NoParse
      rest == SkipSpace(value.rest)
      items == read \o <<key.value, value.value>>
  IN IF ~value.ok \/ Peek(rest) \notin {"}", ","} THEN NoParse
     ELSE IF Peek(rest) = "}" THEN ConvertObject(d, items, Tail(rest))
     ELSE Parse(d, "object", SkipSpace(Tail(rest)), items)

ParseValue(d, t) ==
  LET inside == SkipSpace(Tail(t)) IN
  CASE Peek(t) \in DOMAIN Literals -> ParsedTo(Literals[t[1]], Tail(t))
    [] Peek(t) = "\"" -> Parse(d, "string", Tail(t), <<>>)
    [] Peek(t) = "[" -> IF Peek(inside) = "]" THEN ConvertArray(d, <<>>, Tail(inside)) ELSE Parse(d, "array", inside, <<>>)
    [] Peek(t) = "{" -> IF Peek(inside) = "}" THEN ConvertObject(d, <<>>, Tail(inside)) ELSE Parse(d, "object", inside, <<>>)
    [] Peek(t) \in Digit \cup {"-"} -> ParseNumber(t)
    [] OTHER -> NoParse

Parse(d, what, t, read) ==
  CASE what = "value" -> ParseValue(d, SkipSpace(t))
    [] what = "string" -> ParseString(d, t, read)
    [] what = "array" -> ParseArray(d, t, read)
    [] what = "object" -> ParseObject(d, t, read)

JsonDecode(d, t) ==
  LET r == Parse(d, "value", t, <<>>) IN IF r.ok /\ SkipSpace(r.rest) = <<>> THEN r ELSE NoParse

----------------------------------------------------------------------------
(* Encoding: "error" in the text is an error of the whole.                 *)
EscapeOf(c) ==
  IF c = "BEL" THEN <<"\\", "u", "0007">>
  ELSE IF c \in Control \cup {"\"", "\\"} THEN <<"\\", CHOOSE e \in DOMAIN Escapes : Escapes[e] = c>>
  ELSE <<c>>
EmitString(text) == <<"\"">> \o FlattenSeq([i \in DOMAIN text |-> EscapeOf(text[i])]) \o <<"\"">>

(* As printf does with %.17g: a float without a fraction looks exact.      *)
DigitsOf(n) ==
  LET width == CHOOSE w \in 1..8 : n < 10^w /\ (w = 1 \/ n >= 10^(w - 1))
  IN [i \in 1..width |-> DigitSymbols[((n \div 10^(width - i)) % 10) + 1]]
Zeros(n) == [i \in 1..n |-> "0"]
EmitNumber(n) ==
  LET digits == DigitsOf(n.m)
      power == Len(digits) - 1 + n.k
      small == IF power < 0 THEN 0 - power ELSE power
  IN (IF n.negative THEN <<"-">> ELSE <<>>) \o
     (IF ~n.exact /\ (power < -4 \/ power >= 17)
      THEN SubSeq(digits, 1, 1) \o (IF Len(digits) > 1 THEN <<".">> \o Tail(digits) ELSE <<>>)
             \o <<"e", IF power < 0 THEN "-" ELSE "+">> \o (IF small < 10 THEN <<"0">> ELSE <<>>) \o DigitsOf(small)
      ELSE IF n.k >= 0 THEN digits \o Zeros(n.k)
      ELSE IF power < 0 THEN <<"0", ".">> \o Zeros(small - 1) \o digits
      ELSE SubSeq(digits, 1, power + 1) \o <<".">> \o SubSeq(digits, power + 2, Len(digits)))

Line(e, depth) == IF e.pretty THEN <<"\n">> \o [i \in 1..(depth * e.indent) |-> " "] ELSE <<>>

(* Brackets around parts, each on a line of its own. *)
Bracketed(e, open, parts, close, depth) ==
  IF parts = <<>> THEN <<open, close>>
  ELSE <<open>> \o FlattenSeq([i \in DOMAIN parts |-> (IF i > 1 THEN <<",">> ELSE <<>>) \o Line(e, depth + 1) \o parts[i]])
         \o Line(e, depth) \o <<close>>

RECURSIVE Emit(_, _, _, _)

EmitKeyValue(e, key, value, depth) ==
  (IF key.is = "string" THEN EmitString(key.text) ELSE <<"error">>)
    \o (IF e.pretty THEN <<":", " ">> ELSE <<":">>) \o Emit(e, "value", value, depth)

EmitPlist(e, plist, depth) ==
  LET items == IF plist.is = "nil" THEN <<>> ELSE plist.items IN
  IF plist.is \notin {"nil", "list"} \/ Len(items) % 2 = 1 THEN <<"error">>
  ELSE Bracketed(e, "{", [i \in 1..(Len(items) \div 2) |-> EmitKeyValue(e, items[2 * i - 1], items[2 * i], depth + 1)], "}", depth)

(* A dictionary as a property list, in the order of its buckets. *)
DictionaryPlist(v) == LET keys == SetToSeq(DOMAIN v.entries)
                      IN JList(FlattenSeq([i \in DOMAIN keys |-> <<JString(keys[i]), v.entries[keys[i]]>>]))

EmitItems(e, v, depth) ==
  Bracketed(e, "[", [i \in DOMAIN v.items |-> Emit(e, "value", v.items[i], depth + 1)], "]", depth)

Emit(e, what, v, depth) ==
  IF what = "plist" THEN EmitPlist(e, v, depth)
  ELSE CASE v.is = "nil" -> <<"null">>
         [] v.is \in {"true", "false"} -> <<v.is>>
         [] v.is = "string" -> EmitString(v.text)
         [] v.is = "number" -> EmitNumber(v)
         [] v.is = "dictionary" -> Emit(e, "plist", DictionaryPlist(v), depth)
         [] v.is \in {"list", "vector"} -> EmitItems(e, v, depth)
         [] OTHER -> <<"error">>

JsonEncode(e, what, v) ==
  LET t == Emit(e, what, v, 0) IN
  IF "error" \in ToSet(t) \/ e.output \notin {"string", "byte-vector"} THEN NoParse ELSE [ok |-> TRUE, text |-> t]

----------------------------------------------------------------------------
(* A decoder and an encoder, made and then changed as they are used.       *)
NoCall == [what |-> "nothing"]
JsonInit ==
  \E pretty \in BOOLEAN :
    json = [decoder |-> [array |-> "list", object |-> "dictionary"],
            encoder |-> [output |-> "string", pretty |-> pretty, indent |-> 2],
            turns |-> 0, call |-> NoCall]
JsonIdle ==
  json = [decoder |-> [array |-> "list", object |-> "dictionary"],
          encoder |-> [output |-> "string", pretty |-> FALSE, indent |-> 2],
          turns |-> MaxTurns, call |-> NoCall]

Turn == json.turns < MaxTurns
Change(part, slot, to) == json' = [json EXCEPT ![part][slot] = to, !.turns = @ + 1, !.call = NoCall]
SetArrayConversion(c) == Turn /\ Change("decoder", "array", c)
SetObjectConversion(c) == Turn /\ Change("decoder", "object", c)
SetOutput(o) == Turn /\ Change("encoder", "output", o)
SetPretty(p) == Turn /\ Change("encoder", "pretty", p)
SetIndent(n) == Turn /\ n \in 0..64 /\ Change("encoder", "indent", n)

DecodeDocument(t) ==
  /\ Turn
  /\ json' = [json EXCEPT !.turns = @ + 1, !.call = [what |-> "decode", text |-> t, answer |-> JsonDecode(json.decoder, t)]]

Encode(v) ==
  /\ Turn
  /\ json' = [json EXCEPT !.turns = @ + 1, !.call = [what |-> "value", value |-> v, answer |-> JsonEncode(json.encoder, "value", v)]]
EncodePlist(v) ==
  /\ Turn
  /\ json' = [json EXCEPT !.turns = @ + 1, !.call = [what |-> "plist", value |-> v, answer |-> JsonEncode(json.encoder, "plist", v)]]

(* A new decoder may meet a document with a symbol lost or one too many.   *)
Lost(t, i) == SubSeq(t, 1, i - 1) \o Beyond(t, i)
Inserted(t, i, c) == SubSeq(t, 1, i - 1) \o <<c>> \o Beyond(t, i - 1)

JsonNext ==
  \/ \E c \in {"list", "vector", "function", "other"} : SetArrayConversion(c)
  \/ \E c \in {"plist", "dictionary", "function", "other"} : SetObjectConversion(c)
  \/ \E o \in {"string", "byte-vector", "other"} : SetOutput(o)
  \/ \E p \in BOOLEAN : SetPretty(p)
  \/ \E n \in {0, 1, 65} : SetIndent(n)
  \/ \E t \in Documents : DecodeDocument(t)
  \/ json.turns = 0 /\ \E t \in Documents : \E i \in DOMAIN t :
       DecodeDocument(Lost(t, i)) \/ \E c \in EditSymbols : DecodeDocument(Inserted(t, i, c))
  \/ \E v \in Encodables : Encode(v)
  \/ \E v \in Plists : EncodePlist(v)
  \/ json.call.what = "decode" /\ json.call.answer.ok /\ Encode(json.call.answer.value)

----------------------------------------------------------------------------
(* What a text denotes, by the grammar: the values of all its readings.    *)
Trimmed(t) == Reverse(SkipSpace(Reverse(SkipSpace(t))))

IsDigits(t) == t # <<>> /\ ToSet(t) \subseteq Digit
IsWholePart(t) == IsDigits(t) /\ (t[1] = "0" => Len(t) = 1)
IsFraction(t) == t = <<>> \/ (t[1] = "." /\ IsDigits(Tail(t)))
IsExponent(t) == t = <<>> \/ (t[1] \in {"e", "E"} /\ (IsDigits(Tail(t)) \/ (Peek(Tail(t)) \in {"+", "-"} /\ IsDigits(Beyond(t, 2)))))
ExponentOf(t) ==
  CASE t = <<>> -> 0
    [] IsDigits(Tail(t)) -> DigitsValue(Tail(t))
    [] OTHER -> IF t[2] = "-" THEN 0 - DigitsValue(Beyond(t, 2)) ELSE DigitsValue(Beyond(t, 2))
NumbersDenoted(t) ==
  {JNumber(a = Len(t), m = 1, DigitsValue(SubSeq(t, m + 1, a) \o SubSeq(t, a + 2, b)), ExponentOf(Beyond(t, b)) - (IF b > a THEN b - a - 1 ELSE 0))
     : <<m, a, b>> \in {s \in {0, 1} \X (1..Len(t)) \X (1..Len(t)) :
         /\ s[1] = 1 => t[1] = "-"
         /\ s[2] <= s[3] /\ IsWholePart(SubSeq(t, s[1] + 1, s[2]))
         /\ IsFraction(SubSeq(t, s[2] + 1, s[3])) /\ IsExponent(Beyond(t, s[3]))}}

(* The characters a string may begin with, and the symbols they take.      *)
FirstUnits(t) ==
  LET escaped(n) == Len(t) >= n /\ t[1] = "\\" IN
  {[c |-> t[1], n |-> n] : n \in {k \in {1} : t[1] \notin Control \cup {"\"", "\\"}}}
    \cup {[c |-> Escapes[e], n |-> 2] : e \in {f \in DOMAIN Escapes : escaped(2) /\ t[2] = f}}
    \cup {[c |-> CharacterOf[k], n |-> 3] : k \in {h \in DOMAIN CharacterOf : escaped(3) /\ t[2] = "u" /\ t[3] \in DOMAIN HexDigits /\ HexDigits[t[3]] = h}}
    \cup {[c |-> "U+1F600", n |-> n] : n \in {k \in {6} : IsPrefix(<<"\\", "u", "D83D", "\\", "u", "DE00">>, t)}}
StringsDenoted(t) ==
  LET inner == SubSeq(t, 2, Len(t) - 1)
      from[i \in 1..(Len(inner) + 1)] ==
        IF i > Len(inner) THEN {<<>>}
        ELSE UNION {{<<f.c>> \o r : r \in from[i + f.n]} : f \in FirstUnits(Beyond(inner, i - 1))}
  IN IF Len(t) < 2 \/ t[1] # "\"" \/ Last(t) # "\"" THEN {} ELSE {JString(c) : c \in from[1]}

RECURSIVE Denotes(_, _)

(* The items between brackets: each is a value, or a string and a value.   *)
PieceDenoted(d, t, keyed) ==
  IF ~keyed THEN {<<v>> : v \in Denotes(d, t)}
  ELSE UNION {StringsDenoted(Trimmed(SubSeq(t, 1, i - 1))) \X Denotes(d, Beyond(t, i)) : i \in {j \in DOMAIN t : t[j] = ":"}}
ItemsDenoted(d, t, keyed) ==
  LET from[i \in 1..(Len(t) + 1)] ==
        PieceDenoted(d, Beyond(t, i - 1), keyed)
          \cup UNION {{v \o r : v \in PieceDenoted(d, SubSeq(t, i, j - 1), keyed), r \in from[j + 1]} : j \in {k \in i..Len(t) : t[k] = ","}}
  IN IF Trimmed(t) = <<>> THEN {<<>>} ELSE from[1]

Denotes(d, t) ==
  LET u == Trimmed(t)
      inner == SubSeq(u, 2, Len(u) - 1)
      converted ==
        CASE Len(u) > 1 /\ u[1] = "[" /\ Last(u) = "]" -> {ConvertArray(d, s, <<>>) : s \in ItemsDenoted(d, inner, FALSE)}
          [] Len(u) > 1 /\ u[1] = "{" /\ Last(u) = "}" -> {ConvertObject(d, s, <<>>) : s \in ItemsDenoted(d, inner, TRUE)}
          [] OTHER -> {}
  IN {Literals[w] : w \in {l \in DOMAIN Literals : u = <<l>>}} \cup NumbersDenoted(u) \cup StringsDenoted(u)
       \cup {r.value : r \in {c \in converted : c.ok}}

(* What an encoded value reads back as: arrays are lists, none of them is  *)
(* the empty list, and a float without a fraction is an integer.           *)
RECURSIVE ReadBack(_)
ReadBack(v) ==
  CASE v.is \in {"list", "vector"} -> JList([i \in DOMAIN v.items |-> ReadBack(v.items[i])])
    [] v.is = "dictionary" -> JDictionary([key \in DOMAIN v.entries |-> ReadBack(v.entries[key])])
    [] v.is = "number" /\ ToSet(EmitNumber(v)) \cap {".", "e"} = {} -> JNumber(TRUE, v.negative, v.m, v.k)
    [] OTHER -> v

PlistReadBack(v) ==
  IF v.is = "nil" THEN JDictionary(PlistEntries(<<>>)) ELSE ReadBack(JDictionary(PlistEntries(v.items)))

(* The places of a text that are in strings, the text without the white    *)
(* space outside of them, and how many brackets are open.                  *)
QuoteState(before, c) ==
  CASE before = "escape" -> "yes"
    [] before = "yes" /\ c = "\\" -> "escape"
    [] before # "escape" /\ c = "\"" -> IF before = "yes" THEN "no" ELSE "yes"
    [] OTHER -> before
InString(t) ==
  LET quoted == FoldLeft(LAMBDA s, c : Append(s, QuoteState(Last(s), c)), <<"no">>, t)
  IN {i \in DOMAIN t : quoted[i] # "no"}
Squeezed(t) ==
  LET strings == InString(t)
      kept == SelectSeq([i \in DOMAIN t |-> i], LAMBDA i : i \in strings \/ t[i] \notin White)
  IN [k \in DOMAIN kept |-> t[kept[k]]]
WellIndented(e, t) ==
  LET strings == InString(t)
      count(set, i) == Cardinality({j \in 1..i : j \notin strings /\ t[j] \in set})
  IN \A i \in DOMAIN t : t[i] = "\n" =>
       LET rest == Beyond(t, i)
           spaces == SelectInSeq(rest, LAMBDA c : c # " ") - 1
       IN spaces = e.indent * (count({"[", "{"}, i) - count({"]", "}"}, i + spaces + 1))

(* A text is decoded to the value that it denotes, and is an error when it *)
(* denotes none, whatever symbol was lost or put in; what is encoded reads *)
(* back as the same value, whatever the encoder's settings, and these only *)
(* move white space, by which each line shows its depth (json.c:360, :413, *)
(* :484, :536).                                                            *)
JsonSound ==
  LET c == json.call
      e == json.encoder
      plain == [array |-> "list", object |-> "dictionary"]
  IN CASE c.what = "nothing" -> TRUE
       [] c.what = "decode" -> Denotes(json.decoder, c.text) = (IF c.answer.ok THEN {c.answer.value} ELSE {})
       [] OTHER -> c.answer.ok =>
            /\ JsonDecode(plain, c.answer.text) = ParsedTo(IF c.what = "plist" THEN PlistReadBack(c.value) ELSE ReadBack(c.value), <<>>)
            /\ Squeezed(c.answer.text) = JsonEncode([e EXCEPT !.pretty = FALSE], c.what, c.value).text
            /\ WellIndented(e, c.answer.text)
=============================================================================
