------------------------------- MODULE Reader -------------------------------
(***************************************************************************)
(* The reader of source text, byte by byte with one byte of pushback; the  *)
(* printer whose output it reads back; and the REPL, which gives it the    *)
(* lines a user types until a form is complete.  A value is the tree the   *)
(* reader makes.  Packages are names here (see Packages), and of numbers   *)
(* the integers have their value and the others keep their token.          *)
(***************************************************************************)
EXTENDS Strings, Integers

CONSTANTS Programs,        \* the texts a user types, each ends with a line feed
          Sugar,           \* whether brackets, braces, .slot and *dynamic* are read
          Names,           \* the names the reader itself puts into forms
          NamedCharacters  \* the characters that have a name

VARIABLES source,    \* the whole text a user will type
          typed,     \* how many of its bytes the REPL has been given
          offset,    \* how many of them the REPL has read
          objects,   \* the forms it has read
          replState  \* "reading" or "end"

readerVars == <<source, typed, offset, objects, replState>>

EOF == -1
LF == 10
DQUOTE == 34
HASH == 35
QUOTE == 39
LPAREN == 40
RPAREN == 41
PLUS == 43
COMMA == 44
MINUS == 45
DOT == 46
SLASH == 47
COLON == 58
SEMICOLON == 59
AT == 64
LBRACKET == 91
BACKSLASH == 92
RBRACKET == 93
BACKQUOTE == 96
LBRACE == 123
BAR == 124
RBRACE == 125
STAR == 42

Openers == {LPAREN, LBRACKET, LBRACE}
Closers == {RPAREN, RBRACKET, RBRACE}
IsDelimiter(c) == \/ c \in Openers \cup Closers \cup {EOF, DQUOTE, QUOTE, BACKQUOTE, COMMA, SEMICOLON}
                  \/ AsciiSpace(c)
IsDigit(c) == c \in 48..57
IsAlphanumeric(c) == c \in (48..57) \cup (65..90) \cup (97..122)

----------------------------------------------------------------------------
(* A stream over the bytes of text after from and up to limit, with the    *)
(* position the reader keeps.  Got bytes come as [ch, r].                  *)

Position(line, column, depth) == [line |-> line, column |-> column, depth |-> depth]
Origin == Position(1, 0, 0)
Stream(t, from, limit) ==
  [text |-> t, i |-> from, limit |-> limit, pos |-> Origin, previous |-> Origin, pushed |-> FALSE]

Moved(p, c) ==
  Position(IF c = LF THEN p.line + 1 ELSE p.line,
           IF c = LF THEN 0 ELSE p.column + 1,
           CASE c \in Openers -> p.depth + 1
             [] c \in Closers /\ p.depth > 0 -> p.depth - 1
             [] OTHER -> p.depth)

Getc(r) ==
  IF r.i = r.limit THEN [ch |-> EOF, r |-> [r EXCEPT !.previous = r.pos]]
  ELSE LET c == r.text[r.i + 1]
       IN [ch |-> c, r |-> [r EXCEPT !.i = @ + 1, !.previous = r.pos,
                                     !.pos = Moved(r.pos, c), !.pushed = FALSE]]

(* Variant: a byte goes back and the position stays.                       *)
UngetcStays(g) == IF g.ch = EOF THEN g.r ELSE [g.r EXCEPT !.i = @ - 1, !.pushed = TRUE]

(* The byte just got goes back; the end of the text does not.              *)
Ungetc(g) ==
  IF g.ch = EOF THEN g.r ELSE [g.r EXCEPT !.i = @ - 1, !.pos = g.r.previous, !.pushed = TRUE]

(* A stream on a string counts the bytes taken from it, also the one that  *)
(* was pushed back.                                                        *)
StringOffset(r) == IF r.pushed THEN r.i + 1 ELSE r.i

RECURSIVE SkipLine(_), SkipDigits(_), ReadNonSpace(_)
SkipLine(g) == IF g.ch \in {EOF, LF} THEN g ELSE SkipLine(Getc(g.r))
SkipDigits(g) == IF IsDigit(g.ch) THEN SkipDigits(Getc(g.r)) ELSE g
ReadNonSpace(r) ==
  LET g == Getc(r)
      e == SkipLine(g)
  IN CASE AsciiSpace(g.ch)  -> ReadNonSpace(g.r)
       [] g.ch = SEMICOLON  -> IF e.ch = EOF THEN e ELSE ReadNonSpace(e.r)
       [] OTHER             -> g

----------------------------------------------------------------------------
(* Values and outcomes. *)

Value(tag, name, items, tail) == [tag |-> tag, name |-> name, items |-> items, tail |-> tail]
Nil == Value("nil", <<>>, <<>>, <<>>)
Symbol(name) == Value("symbol", name, <<>>, <<>>)
Qualified(package, name) == Value("qualified", name, <<Symbol(package)>>, <<>>)
Sequence(tag, items) == Value(tag, <<>>, items, <<>>)

Ok(v, r) == [status |-> "ok", v |-> v, r |-> r]
Bad(g) == [status |-> "error", v |-> Nil, r |-> g.r]
Incomplete(g) == [status |-> "incomplete", v |-> Nil, r |-> g.r]

----------------------------------------------------------------------------
(* Tokens.  A bar quotes up to the next bar, a backslash the next byte.    *)
(* colon is the number of bytes before the last colon outside quotes.      *)

Token == [token |-> <<>>, colon |-> -1, keyword |-> FALSE, quoted |-> FALSE]
AddQuoted(t, c) == [t EXCEPT !.token = Append(@, c), !.quoted = TRUE]
AddPlain(t, c) ==
  IF c = COLON THEN [t EXCEPT !.token = Append(@, c), !.colon = Len(t.token),
                              !.keyword = @ \/ t.token = <<>>]
  ELSE [t EXCEPT !.token = Append(@, c)]

RECURSIVE TokenFrom(_, _, _)
TokenFrom(g, t, inBars) ==
  LET next == Getc(g.r)
      done == [status |-> "ok", r |-> Ungetc(g)] @@ t
  IN CASE (g.ch = EOF /\ inBars) \/ (g.ch = BACKSLASH /\ next.ch = EOF) -> Incomplete(next) @@ t
       [] g.ch = BACKSLASH /\ next.ch # EOF -> TokenFrom(Getc(next.r), AddQuoted(t, next.ch), inBars)
       [] g.ch = BAR                        -> TokenFrom(next, [t EXCEPT !.quoted = TRUE], ~inBars)
       [] inBars /\ g.ch \notin {EOF, BACKSLASH, BAR} ->
            TokenFrom(next, [t EXCEPT !.token = Append(@, g.ch)], TRUE)
       [] ~inBars /\ IsDelimiter(g.ch)      -> done
       [] OTHER                             -> TokenFrom(next, AddPlain(t, g.ch), FALSE)

ReadToken(g) == TokenFrom(g, Token, FALSE)
IsSwitch(t) == t.token # <<>> /\ Head(t.token) = COLON

(* Numbers: an integer, a fraction, a decimal with a dot or an exponent,   *)
(* or a complex number of two of them, whose imaginary part may be a sign. *)

Unsigned(t) == IF t # <<>> /\ Head(t) \in {PLUS, MINUS} THEN Tail(t) ELSE t
DigitValue(c) ==
  CASE c \in 97..122 -> c - 87 [] c \in 65..90 -> c - 55 [] IsDigit(c) -> c - 48 [] OTHER -> 36
IsInteger(t, radix) == Unsigned(t) # <<>> /\ \A c \in ToSet(Unsigned(t)) : DigitValue(c) < radix
Places(t, bytes) == {k \in DOMAIN t : t[k] \in bytes}
Before(t, k) == SubSeq(t, 1, k - 1)
After(t, k) == SubSeq(t, k + 1, Len(t))

IsExact(t, radix) ==
  \/ IsInteger(t, radix)
  \/ \E k \in Places(t, {SLASH}) : IsInteger(Before(t, k), radix) /\ IsInteger(After(t, k), radix)

IsMantissa(t) ==
  LET digits == SelectSeq(Unsigned(t), LAMBDA c : c # DOT)
  IN /\ digits # <<>> /\ \A c \in ToSet(digits) : IsDigit(c)
     /\ Cardinality(Places(t, {DOT})) <= 1
IsFloat(t) ==
  \/ DOT \in ToSet(t) /\ IsMantissa(t)
  \/ \E k \in Places(t, {101, 69}) : IsMantissa(Before(t, k)) /\ IsInteger(After(t, k), 10)
IsReal(t) == IsExact(t, 10) \/ IsFloat(t)

IsRectangular(t) ==
  LET splits == {k \in 2..Len(t) - 1 : t[k] \in {PLUS, MINUS} /\ t[k - 1] \notin {101, 69}}
      cut == Max(splits \cup {1})
      part == SubSeq(t, cut, Len(t) - 1)
  IN /\ Len(t) >= 2 /\ Last(t) = 105
     /\ cut > 1 => IsReal(Before(t, cut))
     /\ part \in {<<PLUS>>, <<MINUS>>} \/ IsReal(part)
IsPolar(t) == \E k \in Places(t, {AT}) : IsReal(Before(t, k)) /\ IsReal(After(t, k))

IntegerOf(t, radix) ==
  LET n == FoldLeft(LAMBDA sum, c : sum * radix + DigitValue(c), 0, Unsigned(t))
  IN Value("integer", <<IF Head(t) = MINUS THEN 0 - n ELSE n>>, <<>>, <<>>)
NumberOf(t, radix) ==
  IF IsInteger(t, radix) THEN IntegerOf(t, radix) ELSE Value("number", t, <<>>, <<>>)

(* A keyword after a leading colon, a symbol of another package before the *)
(* last colon, else one of the current package or one it uses.             *)
SymbolOf(t) ==
  CASE t.keyword    -> Value("keyword", Tail(t.token), <<>>, <<>>)
    [] t.colon < 0  -> Symbol(t.token)
    [] OTHER        -> Qualified(Before(t.token, t.colon + 1), After(t.token, t.colon + 1))
IsSymbol(t) == /\ t.token # <<>> /\ (t.keyword => Len(t.token) > 1)
               /\ (t.colon >= 0 /\ ~t.keyword => t.colon + 1 < Len(t.token))

Expanded(name, v) == Sequence("list", <<Qualified(Names.implementation, name), v>>)

(* .slot drops the dot and takes the last colon, quoted or not.            *)
SlotToken(t) ==
  LET name == Tail(t.token)
      colons == Places(name, {COLON})
  IN [t EXCEPT !.token = name, !.colon = Max(colons \cup {0}) - 1, !.keyword = Max(colons \cup {0}) = 1]
IsSlot(t) == Len(t.token) > 1 /\ Head(t.token) = DOT /\ t.token[2] # DOT /\ ~IsDigit(t.token[2])

IsDynamic(t) ==
  LET local == After(t.token, t.colon + 1)
  IN ~t.quoted /\ ~t.keyword /\ Len(local) >= 2 /\ Head(local) = STAR /\ Last(local) = STAR

IsNumber(token) == IsRectangular(token) \/ IsPolar(token) \/ IsReal(token)
SymbolForm(t, isDynamic) ==
  IF ~IsSymbol(t) THEN Bad(t)
  ELSE Ok(IF isDynamic THEN Expanded(Names.dynamic, SymbolOf(t)) ELSE SymbolOf(t), t.r)
SlotForm(t) == IF IsSymbol(t) THEN Ok(Expanded(Names.slot, SymbolOf(t)), t.r) ELSE Bad(t)

AtomOf(t) ==
  IF t.status # "ok" THEN Incomplete(t)
  ELSE IF ~t.quoted /\ t.token = <<DOT>> THEN Bad(t)
  ELSE IF ~t.quoted /\ IsNumber(t.token) THEN Ok(NumberOf(t.token, 10), t.r)
  ELSE IF Sugar /\ ~t.quoted /\ IsSlot(t) THEN SlotForm(SlotToken(t))
  ELSE SymbolForm(t, Sugar /\ IsDynamic(t))
ReadAtom(g) == AtomOf(ReadToken(g))

----------------------------------------------------------------------------
(* Strings and byte vectors between quotes.  In a byte vector only a       *)
(* hexadecimal or octal escape makes a byte above 127.                     *)

RECURSIVE HexEscape(_, _, _), OctalEscape(_, _, _)
HexEscape(r, n, value) ==
  LET g == Getc(r)
  IN CASE n = 0 -> Ok(value, r)
       [] n > 0 /\ HexDigitValue(g.ch) < 0 -> Bad(g)
       [] OTHER -> HexEscape(g.r, n - 1, value * 16 + HexDigitValue(g.ch))
OctalEscape(r, n, value) ==
  LET g == Getc(r)
  IN CASE n = 0 -> Ok(value, r)
       [] n > 0 /\ g.ch \notin 48..55 -> Ok(value, Ungetc(g))
       [] OTHER -> OctalEscape(g.r, n - 1, value * 8 + g.ch - 48)

\* a b e f n r t v
EscapeCodes == 97 :> 7 @@ 98 :> 8 @@ 101 :> 27 @@ 102 :> 12 @@ 110 :> 10 @@ 114 :> 13 @@ 116 :> 9 @@ 118 :> 11
HexLengths == 120 :> 2 @@ 117 :> 4 @@ 85 :> 6

Escape(g) ==
  CASE g.ch = EOF                  -> Incomplete(g)
    [] g.ch \in DOMAIN EscapeCodes -> Ok(EscapeCodes[g.ch], g.r)
    [] g.ch \in DOMAIN HexLengths  -> HexEscape(g.r, HexLengths[g.ch], 0)
    [] g.ch \in 48..55             -> OctalEscape(g.r, 2, g.ch - 48)
    [] OTHER                       -> Ok(g.ch, g.r)

Literal(asBytes, value, raw) ==
  IF asBytes THEN (IF value <= (IF raw THEN 255 ELSE 127) THEN <<value>> ELSE <<>>) ELSE Utf8Encode(value)

RECURSIVE ReadQuoted(_, _, _)
Unescaped(e, raw, asBytes, sofar) ==
  LET bytes == Literal(asBytes, e.v, raw)
  IN IF e.status # "ok" THEN e
     ELSE IF bytes = <<>> THEN Bad(e) ELSE ReadQuoted(Getc(e.r), asBytes, sofar \o bytes)
ReadEscaped(g, asBytes, sofar) ==
  Unescaped(Escape(g), g.ch = 120 \/ g.ch \in 48..55, asBytes, sofar)

ReadQuoted(g, asBytes, sofar) ==
  CASE g.ch = EOF       -> Incomplete(g)
    [] g.ch = DQUOTE    -> Ok(sofar, g.r)
    [] g.ch = BACKSLASH -> ReadEscaped(Getc(g.r), asBytes, sofar)
    [] OTHER            -> IF asBytes /\ g.ch > 127 THEN Bad(g)
                           ELSE ReadQuoted(Getc(g.r), asBytes, Append(sofar, g.ch))

Quoted(o, tag) ==
  IF o.status # "ok" THEN o
  ELSE Ok(Value(tag, IF tag = "bytes" THEN o.v ELSE StringNew(o.v).bytes, <<>>, <<>>), o.r)
ReadString(r, tag) == Quoted(ReadQuoted(Getc(r), tag = "bytes", <<>>), tag)

----------------------------------------------------------------------------
(* Character literals: a byte, a UTF-8 sequence, a name, or u+ and digits. *)

Character(c, r) == Ok(Value("character", <<c>>, <<>>, <<>>), r)
Delimited(c, g) == IF IsDelimiter(g.ch) THEN Character(c, Ungetc(g)) ELSE Bad(g)
Disallowed(c) == c \in (0..32) \cup {127}
Lower(t) == [k \in DOMAIN t |-> IF t[k] \in 65..90 THEN t[k] + 32 ELSE t[k]]

RECURSIVE ReadBytes(_, _, _)
ReadBytes(r, n, sofar) ==
  LET g == Getc(r)
  IN CASE n = 0 -> Ok(sofar, r)
       [] n > 0 /\ g.ch = EOF -> Incomplete(g)
       [] OTHER -> ReadBytes(g.r, n - 1, Append(sofar, g.ch))

WideCharacter(g) ==
  LET n == SequenceLength(g.ch)
      o == ReadBytes(g.r, n - 1, <<g.ch>>)
  IN IF n = 0 THEN Bad(g)
     ELSE IF o.status # "ok" THEN o
     ELSE IF ~SequenceValid(o.v, 1, n) THEN Bad(o) ELSE Delimited(DecodeValid(o.v, 1, n), Getc(o.r))

CharacterToken(t) ==
  LET named == {c \in NamedCharacters : c.name = Lower(t.token)}
      digits == SubSeq(t.token, 3, Len(t.token))
      code == FoldLeft(LAMBDA sum, d : sum * 16 + HexDigitValue(d), 0, digits)
  IN CASE t.status # "ok" -> Incomplete(t)
       [] t.status = "ok" /\ t.token # <<>> /\ NextAt(t.token, 1) = Len(t.token) + 1 ->
            Character(CodepointAt(t.token, 1), t.r)
       [] t.status = "ok" /\ named # {} -> Character((CHOOSE c \in named : TRUE).codepoint, t.r)
       [] OTHER -> IF /\ Len(t.token) > 2 /\ Lower(t.token)[1] = 117 /\ t.token[2] = PLUS
                      /\ \A d \in ToSet(digits) : HexDigitValue(d) >= 0
                      /\ Utf8Encode(code) # <<>>
                   THEN Character(code, t.r) ELSE Bad(t)

ReadCharacter(g) ==
  LET next == Getc(g.r)
  IN CASE g.ch = EOF        -> Incomplete(g)
       [] g.ch # EOF /\ Disallowed(g.ch) -> Bad(g)
       [] g.ch >= 128       -> WideCharacter(g)
       [] g.ch < 128 /\ IsDelimiter(g.ch) /\ ~Disallowed(g.ch) /\ g.ch # EOF -> Delimited(g.ch, next)
       [] OTHER -> IF IsDelimiter(next.ch) THEN Character(g.ch, Ungetc(next)) ELSE CharacterToken(ReadToken(g))

----------------------------------------------------------------------------
(* Forms. *)

IsBinarySelector(t) == t # <<>> /\ Last(t) # COLON /\ \A c \in ToSet(t) : ~IsAlphanumeric(c)
EndsWithColon(t) == t # <<>> /\ Last(t) = COLON
Send(receiver, selector, arguments) ==
  Sequence("list", <<Symbol(Names.send), receiver, Value("keyword", selector, <<>>, <<>>)>> \o arguments)

Closer(kind) == IF kind = "closure" THEN RBRACE ELSE RPAREN
ClosesEarly(kind, n) == (kind = "complex" /\ n < 2) \/ (kind = "dictionary" /\ n % 2 = 1)
IsRealValue(v) == v.tag = "integer" \/ (v.tag = "number" /\ IsReal(v.name))
IsByte(v) == v.tag = "integer" /\ v.name[1] \in 0..255
Closed(kind, items) ==
  CASE items = <<>> /\ kind = "list" -> Nil
    [] kind = "closure" -> Sequence("list", <<Qualified(Names.implementation, Names.closure)>> \o items)
    [] kind = "bytes"   -> Value("bytes", [k \in DOMAIN items |-> items[k].name[1]], <<>>, <<>>)
    [] OTHER            -> Sequence(kind, items)

RECURSIVE Object(_), Items(_, _, _), DottedTail(_, _), Quoting(_, _), Bracket(_), Sends(_, _, _),
          KeywordSend(_, _, _, _), KeywordNext(_, _, _, _), KeywordPart(_, _, _, _),
          Dispatch(_)

Object(g) ==
  CASE g.ch = EOF       -> Incomplete(g)
    [] g.ch = DQUOTE    -> ReadString(g.r, "string")
    [] g.ch = LPAREN    -> Items(ReadNonSpace(g.r), "list", <<>>)
    [] g.ch = LBRACE    -> IF Sugar THEN Items(ReadNonSpace(g.r), "closure", <<>>) ELSE Bad(g)
    [] g.ch = LBRACKET  -> IF Sugar THEN Bracket(ReadNonSpace(g.r)) ELSE Bad(g)
    [] g.ch \in Closers -> Bad(g)
    [] g.ch = QUOTE     -> Quoting(Names.quote, ReadNonSpace(g.r))
    [] g.ch = BACKQUOTE -> Quoting(Names.quasiquote, ReadNonSpace(g.r))
    [] g.ch = COMMA     -> LET n == Getc(g.r)
                           IN IF n.ch = AT THEN Quoting(Names.splicing, ReadNonSpace(n.r))
                                           ELSE Quoting(Names.unquote, ReadNonSpace(Ungetc(n)))
    [] g.ch = HASH      -> Dispatch(Getc(g.r))
    [] OTHER            -> ReadAtom(g)

Quoting(name, g) ==
  LET o == Object(g)
  IN IF o.status # "ok" THEN o ELSE Ok(Sequence("list", <<Symbol(name), o.v>>), o.r)

(* What stands between two closers.  A dot before a delimiter starts the   *)
(* tail of a list; in any other sequence no element may begin with a dot.  *)
Items(g, kind, items) ==
  LET o == Object(g)
      full == kind = "complex" /\ Len(items) = 2
  IN IF g.ch = Closer(kind)
       THEN IF \/ ClosesEarly(kind, Len(items))
               \/ kind = "complex" /\ \E k \in DOMAIN items : ~IsRealValue(items[k])
            THEN Bad(g) ELSE Ok(Closed(kind, items), g.r)
     ELSE IF full \/ (kind = "complex" /\ g.ch = EOF) THEN Bad(g)
     ELSE IF g.ch = DOT /\ kind \in {"vector", "bytes", "dictionary"} THEN Bad(g)
     ELSE IF g.ch = DOT /\ kind = "list" /\ IsDelimiter(Getc(g.r).ch)
       THEN IF items = <<>> THEN Bad(g) ELSE DottedTail(ReadNonSpace(g.r), items)
     ELSE IF o.status # "ok" THEN o
     ELSE IF kind = "bytes" /\ ~IsByte(o.v) THEN Bad(o)
     ELSE Items(ReadNonSpace(o.r), kind, Append(items, o.v))

Joined(items, v, closing) ==
  IF closing.ch # RPAREN THEN Bad(closing)
  ELSE IF v = Nil THEN Ok(Sequence("list", items), closing.r)
  ELSE IF v.tag = "list" THEN Ok([v EXCEPT !.items = items \o @], closing.r)
  ELSE Ok(Value("list", <<>>, items, <<v>>), closing.r)
DottedTail(g, items) ==
  LET o == Object(g) IN IF o.status # "ok" THEN o ELSE Joined(items, o.v, ReadNonSpace(o.r))

(* [receiver message], with a switch of the receiver to the result at a    *)
(* colon of its own.                                                       *)
MessageOf(receiver, t) ==
  IF t.status # "ok" THEN Incomplete(t)
  ELSE IF IsSwitch(t) THEN Bad(t) ELSE Sends(receiver, t.token, ReadNonSpace(t.r))
Message(receiver, g) ==
  IF g.ch = EOF THEN Incomplete(g)
  ELSE IF IsDelimiter(g.ch) THEN Bad(g) ELSE MessageOf(receiver, ReadToken(g))

Bracket(g) ==
  LET o == Object(g)
  IN IF g.ch = RBRACKET THEN Bad(g)
     ELSE IF o.status # "ok" THEN o ELSE Message(o.v, ReadNonSpace(o.r))

Switch(result, t) ==
  IF t.status # "ok" THEN Incomplete(t)
  ELSE IF ~IsSwitch(t) THEN Bad(t)
  ELSE IF Len(t.token) > 1 THEN Sends(result, Tail(t.token), ReadNonSpace(t.r))
  ELSE Message(result, ReadNonSpace(t.r))

Sent(result, g) ==
  IF g.ch = RBRACKET THEN Ok(result, g.r)
  ELSE IF g.ch = EOF THEN Incomplete(g)
  ELSE IF IsDelimiter(g.ch) THEN Bad(g) ELSE Switch(result, ReadToken(g))

Sends(receiver, message, g) ==
  LET o == Object(g)
  IN IF g.ch \in {RBRACKET, EOF} \/ ~(IsBinarySelector(message) \/ EndsWithColon(message))
       THEN Sent(Send(receiver, message, <<>>), g)
     ELSE IF EndsWithColon(message) THEN KeywordSend(receiver, message, <<>>, o)
     ELSE IF o.status # "ok" THEN o
     ELSE Sent(Send(receiver, message, <<o.v>>), ReadNonSpace(o.r))

KeywordSend(receiver, selector, arguments, o) ==
  IF o.status # "ok" THEN o
  ELSE KeywordNext(receiver, selector, Append(arguments, o.v), ReadNonSpace(o.r))

KeywordNext(receiver, selector, arguments, g) ==
  IF IsDelimiter(g.ch) THEN Sent(Send(receiver, selector, arguments), g)
  ELSE KeywordPart(receiver, selector, arguments, ReadToken(g))

KeywordPart(receiver, selector, arguments, t) ==
  IF t.status # "ok" \/ IsSwitch(t) THEN Switch(Send(receiver, selector, arguments), t)
  ELSE IF ~EndsWithColon(t.token) THEN Bad(t)
  ELSE KeywordSend(receiver, selector \o t.token, arguments, Object(ReadNonSpace(t.r)))

----------------------------------------------------------------------------
(* What a number sign begins. *)

LongForm(t, suffix, v) ==
  IF t.status = "ok" /\ ~t.quoted /\ t.token = suffix THEN Ok(v, t.r) ELSE Bad(t)
ShortOrLong(g, suffix, v) ==
  IF IsDelimiter(g.ch) THEN Ok(v, Ungetc(g)) ELSE LongForm(ReadToken(g), suffix, v)

RadixToken(t, radix) ==
  IF t.status # "ok" THEN Incomplete(t)
  ELSE IF radix \in 2..36 /\ IsExact(t.token, radix) THEN Ok(NumberOf(t.token, radix), t.r) ELSE Bad(t)
Radix(g, radix) ==
  CASE g.ch = EOF -> Incomplete(g)
    [] g.ch # EOF /\ IsDelimiter(g.ch) -> Bad(g)
    [] OTHER -> RadixToken(ReadToken(g), radix)

Parenthesized(g, kind) == IF g.ch = LPAREN THEN Items(ReadNonSpace(g.r), kind, <<>>) ELSE Bad(g)

Dispatch(g) ==
  LET d == SkipDigits(g)
      argument == FoldLeft(LAMBDA n, c : n * 10 + c - 48, 0, SubSeq(g.r.text, g.r.i, d.r.i - 1))
      line == ReadNonSpace(SkipLine(Getc(g.r)).r)
      next == Getc(g.r)
      c == Lower(<<g.ch>>)[1]
  IN CASE g.ch = EOF -> Incomplete(g)
       [] IsDigit(g.ch) -> IF Lower(<<d.ch>>)[1] = 114 THEN Radix(Getc(d.r), argument) ELSE Bad(d)
       [] g.ch = LPAREN    -> Items(ReadNonSpace(g.r), "vector", <<>>)
       [] g.ch = DQUOTE    -> ReadString(g.r, "bytes")
       [] g.ch = BACKSLASH -> ReadCharacter(next)
       [] g.ch = 33        -> Object(line)
       [] g.ch = 116       -> ShortOrLong(next, Names.rue, Value("true", <<>>, <<>>, <<>>))
       [] g.ch = 102       -> ShortOrLong(next, Names.alse, Value("false", <<>>, <<>>, <<>>))
       [] g.ch = 110       -> ShortOrLong(next, Names.il, Nil)
       [] c = 98           -> Radix(next, 2)
       [] c = 111          -> Radix(next, 8)
       [] c = 120          -> Radix(next, 16)
       [] c = 99           -> Parenthesized(ReadNonSpace(g.r), "complex")
       [] c = 100          -> Parenthesized(ReadNonSpace(g.r), "dictionary")
       [] c = 112 -> CASE next.ch = EOF    -> Incomplete(next)
                       [] next.ch = DQUOTE -> ReadString(next.r, "pathname")
                       [] OTHER            -> Bad(next)
       [] c = 117 -> IF next.ch = 56 THEN (IF Getc(next.r).ch = LPAREN
                       THEN Items(ReadNonSpace(Getc(next.r).r), "bytes", <<>>) ELSE Bad(next)) ELSE Bad(next)
       [] OTHER -> Bad(g)

ReadObject(r) == Object(ReadNonSpace(r))

----------------------------------------------------------------------------
(* The printer. *)

RECURSIVE Decimal(_), Hexadecimal(_, _), Printed(_), PrintedAll(_)
Decimal(n) == IF n < 10 THEN <<48 + n>> ELSE Append(Decimal(n \div 10), 48 + (n % 10))
Hexadecimal(n, digits) ==
  IF n = 0 /\ digits <= 0 THEN <<>> ELSE Append(Hexadecimal(n \div 16, digits - 1), Lower(<<HexDigit(n % 16)>>)[1])

PrintedByte(asBytes, b) ==
  CASE b = 10 -> <<BACKSLASH, 110>>
    [] b = 13 -> <<BACKSLASH, 114>>
    [] b = 9  -> <<BACKSLASH, 116>>
    [] b \in {BACKSLASH, DQUOTE} -> <<BACKSLASH, b>>
    [] asBytes /\ b \in {7, 8, 11, 12} -> <<BACKSLASH, CHOOSE e \in DOMAIN EscapeCodes : EscapeCodes[e] = b>>
    [] OTHER -> IF b \in 32..126 \/ (b >= 128 /\ ~asBytes) THEN <<b>>
                ELSE <<BACKSLASH, 120>> \o Hexadecimal(b, 2)
PrintedQuoted(asBytes, bytes) ==
  <<DQUOTE>> \o FlattenSeq([k \in DOMAIN bytes |-> PrintedByte(asBytes, bytes[k])]) \o <<DQUOTE>>

PrintedCharacter(c) ==
  LET names == {n \in NamedCharacters : n.codepoint = c /\ n.printed}
  IN IF names # {} THEN (CHOOSE n \in names : TRUE).name
     ELSE IF c \in 32..126 THEN <<c>> ELSE <<117, PLUS>> \o Hexadecimal(c, 4)

PrintedAll(items) ==
  IF items = <<>> THEN <<>>
  ELSE Printed(Head(items)) \o (IF Tail(items) = <<>> THEN <<>> ELSE <<32>>) \o PrintedAll(Tail(items))

Printed(v) ==
  CASE v.tag = "nil"       -> <<LPAREN, RPAREN>>
    [] v.tag = "true"      -> <<HASH, 116>> \o Names.rue
    [] v.tag = "false"     -> <<HASH, 102>> \o Names.alse
    [] v.tag = "symbol"    -> v.name
    [] v.tag = "keyword"   -> <<COLON>> \o v.name
    [] v.tag = "qualified" -> v.items[1].name \o <<COLON>> \o v.name
    [] v.tag = "integer"   -> IF v.name[1] < 0 THEN <<MINUS>> \o Decimal(0 - v.name[1]) ELSE Decimal(v.name[1])
    [] v.tag = "character" -> <<HASH, BACKSLASH>> \o PrintedCharacter(v.name[1])
    [] v.tag = "string"    -> PrintedQuoted(FALSE, v.name)
    [] v.tag = "bytes"     -> <<HASH>> \o PrintedQuoted(TRUE, v.name)
    [] v.tag = "vector"    -> <<HASH, LPAREN>> \o PrintedAll(v.items) \o <<RPAREN>>
    [] v.tag = "list"      -> <<LPAREN>> \o PrintedAll(v.items)
         \o (IF v.tail = <<>> THEN <<>> ELSE <<32, DOT, 32>> \o Printed(v.tail[1])) \o <<RPAREN>>
    [] OTHER               -> <<>>

----------------------------------------------------------------------------
(* The REPL reads what it has been given from where it stands; it asks for *)
(* a line when nothing is left, or when the reader says that the form is   *)
(* not complete.  After an error it drops what it has.                     *)

ReaderInit == /\ source \in Programs
              /\ typed = 0 /\ offset = 0 /\ objects = <<>> /\ replState = "reading"
ReaderIdle == source = <<>> /\ typed = 0 /\ offset = 0 /\ objects = <<>> /\ replState = "end"

NextForm == ReadNonSpace(Stream(source, offset, typed))
FirstByte == NextForm.r.i - 1
LineEnd == Min({i \in typed + 1..Len(source) : source[i] = LF} \cup {Len(source)})

AskForLine ==
  /\ replState = "reading" /\ NextForm.ch = EOF
  /\ IF typed < Len(source)
       THEN typed' = LineEnd /\ offset' = typed /\ UNCHANGED replState
       ELSE replState' = "end" /\ UNCHANGED <<typed, offset>>
  /\ UNCHANGED <<source, objects>>

(* start is where the form begins that was read with outcome o. *)
ReplTake(o, start) ==
  CASE o.status = "ok" ->
         /\ objects' = Append(objects, o.v)
         /\ offset' = StringOffset(o.r)
         /\ UNCHANGED <<typed, replState>>
    [] o.status = "incomplete" /\ typed < Len(source) ->
         typed' = LineEnd /\ offset' = start /\ UNCHANGED <<objects, replState>>
    [] OTHER ->
         /\ offset' = typed
         /\ replState' = IF o.status = "incomplete" THEN "end" ELSE "reading"
         /\ UNCHANGED <<typed, objects>>

ReplRead ==
  /\ replState = "reading" /\ NextForm.ch # EOF
  /\ ReplTake(ReadObject(Stream(source, FirstByte, typed)), FirstByte)
  /\ UNCHANGED source

ReaderNext == AskForLine \/ ReplRead

----------------------------------------------------------------------------
(* The outcomes of reading the whole text as a file, form by form; the     *)
(* first stands for the beginning of the file.                             *)
RECURSIVE FileForms(_, _)
FileForms(o, sofar) ==
  IF o.status = "ok" THEN FileForms(ReadObject(o.r), Append(sofar, o)) ELSE sofar

(* A form is followed well when the byte pushed back after it is white     *)
(* space or there is none: another one the REPL drops, and what it reads   *)
(* then is its own.                                                        *)
FollowedWell(o) == o.r.pushed => AsciiSpace(source[o.r.i + 1])
FormsInCommon(outcomes) ==
  Min({k \in DOMAIN outcomes : ~FollowedWell(outcomes[k])} \cup {Len(outcomes)}) - 1
IsWhole(outcomes) ==
  /\ ReadNonSpace(Last(outcomes).r).ch = EOF
  /\ \A k \in DOMAIN outcomes : FollowedWell(outcomes[k])

PositionIsExact(r) ==
  LET feeds == {i \in 1..r.i : source[i] = LF}
  IN r.pos.line = Cardinality(feeds) + 1 /\ r.pos.column = r.i - Max(feeds \cup {0})

ReadsAsFile(outcomes) ==
  LET forms == [k \in 1..Len(outcomes) - 1 |-> outcomes[k + 1].v]
      common == FormsInCommon(outcomes)
  IN /\ \A k \in 1..common : k \in DOMAIN objects => objects[k] = forms[k]
     /\ replState = "end" => Len(objects) >= common
     /\ IsWhole(outcomes) => Len(objects) <= Len(forms)
     /\ \A k \in DOMAIN outcomes : PositionIsExact(outcomes[k].r)

(* Line by line the REPL reads the forms that the text read as one file    *)
(* has, however they are broken into lines: all before the first error and *)
(* no other, up to and with the first form that something else than white  *)
(* space follows at once (repl.c:515); and the position of the reader is   *)
(* that of the byte where it stands (reader.c:203).                        *)
ReplReadsAsFile ==
  LET file == Stream(source, 0, Len(source))
  IN ReadsAsFile(FileForms(ReadObject(file), <<Ok(Nil, file)>>))

(* What was read prints as a text that reads back as the same value, when  *)
(* its names are plain words (Character.c:30, String.c:845, List.c:150).   *)
PlainName(name) == name[1] # MINUS /\ \A c \in ToSet(name) : c \in (65..90) \cup (97..122) \cup {37, MINUS}
RECURSIVE IsPlain(_)
IsPlain(v) ==
  /\ v.tag \in {"symbol", "keyword", "qualified"} => PlainName(v.name)
  /\ v.tag \notin {"number", "pathname", "dictionary", "complex"}
  /\ \A k \in DOMAIN v.items : IsPlain(v.items[k])
  /\ v.tail # <<>> => IsPlain(v.tail[1])

ReadsBackAs(o, v, printed) == o.status = "ok" /\ o.v = v /\ o.r.i = Len(printed)
PrintedReadsBack ==
  \A k \in DOMAIN objects : IsPlain(objects[k]) =>
    LET printed == Printed(objects[k])
    IN ReadsBackAs(ReadObject(Stream(printed, 0, Len(printed))), objects[k], printed)
=============================================================================
