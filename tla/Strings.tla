------------------------------ MODULE Strings ------------------------------
(***************************************************************************)
(* String: immutable UTF-8 text with a cached number of codepoints.  The   *)
(* search and the cuts work on bytes, the indices a program sees are       *)
(* indices of codepoints.  Bytes are the numbers 0..255 with their real    *)
(* meaning; only the choice of inputs is bounded.  A cursor is the index   *)
(* of a byte from 1, and the end of a text is the index after its last.    *)
(***************************************************************************)
EXTENDS Naturals, Sequences, SequencesExt, FiniteSets, FiniteSetsExt

CONSTANTS RawTexts,      \* the byte sequences new strings are made of
          Replacements,  \* the byte sequences that take the place of a needle
          Needles,       \* the byte sequences of the other operand
          CaseTable,     \* the codepoints with a case, as records
          MaxEdits       \* how many steps a program makes

VARIABLES text,   \* the string a program works on
          needle, \* its other operand: a delimiter, a pattern, a prefix
          edits   \* the steps made so far

stringVars == <<text, needle, edits>>

REPLACEMENT == 65533

----------------------------------------------------------------------------
(* UTF-8. *)

IsContinuation(b) == b \in 128..191

SequenceLength(first) ==
  CASE first < 128         -> 1
    [] first \in 194..223  -> 2
    [] first \in 224..239  -> 3
    [] first \in 240..244  -> 4
    [] OTHER               -> 0

SequenceValid(s, i, n) ==
  /\ n > 0 /\ i + n - 1 <= Len(s)
  /\ \A k \in 1..n - 1 : IsContinuation(s[i + k])
  /\ s[i] = 224 => s[i + 1] >= 160
  /\ s[i] = 237 => s[i + 1] <= 159
  /\ s[i] = 240 => s[i + 1] >= 144
  /\ s[i] = 244 => s[i + 1] <= 143

DecodeValid(s, i, n) ==
  LET lead == CASE n = 1 -> s[i] [] n = 2 -> (s[i] % 32) [] n = 3 -> (s[i] % 16) [] n = 4 -> (s[i] % 8)
  IN FoldLeft(LAMBDA c, b : c * 64 + (b % 64), lead, SubSeq(s, i + 1, i + n - 1))

CodepointAt(s, i) ==
  LET n == SequenceLength(s[i])
  IN IF SequenceValid(s, i, n) THEN DecodeValid(s, i, n) ELSE REPLACEMENT

NextAt(s, i) ==
  LET n == SequenceLength(s[i])
      after == {j \in i + 1..Len(s) : ~IsContinuation(s[j])} \cup {Len(s) + 1}
  IN IF IsContinuation(s[i]) THEN Min(after)
     ELSE IF SequenceValid(s, i, n) THEN i + n ELSE i + 1

Utf8Encode(c) ==
  LET tail(k) == 128 + ((c \div 64^k) % 64)
  IN CASE c > 1114111 \/ c \in 55296..57343 -> <<>>
       [] c <= 127   -> <<c>>
       [] c \in 128..2047    -> <<192 + c \div 64, tail(0)>>
       [] c \in (2048..55295) \cup (57344..65535) -> <<224 + c \div 4096, tail(1), tail(0)>>
       [] OTHER      -> <<240 + c \div 262144, tail(2), tail(1), tail(0)>>

(* The cursors a walk from i stops at, up to the first at or after stop. *)
RECURSIVE Boundaries(_, _, _)
Boundaries(s, i, stop) ==
  IF i >= stop THEN <<i>> ELSE <<i>> \o Boundaries(s, NextAt(s, i), stop)

Starts(s) == Front(Boundaries(s, 1, Len(s) + 1))
Codepoints(s) == LET at == Starts(s) IN [k \in DOMAIN at |-> CodepointAt(s, at[k])]

----------------------------------------------------------------------------
(* A string and its making. *)

Normalized(bytes, length) == [bytes |-> bytes, length |-> length]

AppendCodepoint(bytes, c) ==
  bytes \o (IF Utf8Encode(c) = <<>> THEN Utf8Encode(REPLACEMENT) ELSE Utf8Encode(c))

FromCharacters(characters) ==
  Normalized(FoldLeft(AppendCodepoint, <<>>, characters), Len(characters))

StringNew(raw) == FromCharacters(Codepoints(raw))

StringAppend(l, r) == Normalized(l.bytes \o r.bytes, l.length + r.length)

(* The span a walk from one cursor towards another covers. *)
Walked(s, from, to) ==
  LET b == Boundaries(s, from, to) IN Normalized(SubSeq(s, from, Last(b) - 1), Len(b) - 1)

OffsetOf(s, index) == Boundaries(s.bytes, 1, Len(s.bytes) + 1)[index + 1]

StringAt(s, index) == CodepointAt(s.bytes, OffsetOf(s, index))

Substring(s, from, to) ==
  Normalized(SubSeq(s.bytes, OffsetOf(s, from), OffsetOf(s, to) - 1), to - from)

(* The character list is made from the end, each time by a walk from the   *)
(* start to the cursor.                                                    *)
RECURSIVE CharactersBefore(_, _)
CharactersBefore(s, cursor) ==
  IF cursor = 1 THEN <<>>
  ELSE LET b == Boundaries(s, 1, cursor)
           previous == b[Len(b) - 1]
       IN Append(CharactersBefore(s, previous), CodepointAt(s, previous))

ToCharacterList(s) == CharactersBefore(s.bytes, Len(s.bytes) + 1)

----------------------------------------------------------------------------
(* Search, replacement and cuts. *)

FindBytes(s, from, n) ==
  LET matches == {j \in from..Len(s) - Len(n) + 1 : SubSeq(s, j, j + Len(n) - 1) = n}
  IN IF n = <<>> \/ matches = {} THEN 0 ELSE Min(matches)

Find(s, n) ==
  LET m == FindBytes(s.bytes, 1, n.bytes)
  IN IF m = 0 THEN <<>> ELSE <<Len(Boundaries(s.bytes, 1, m)) - 1>>

RECURSIVE FindAllFrom(_, _, _, _)
FindAllFrom(s, n, cursor, index) ==
  LET m == FindBytes(s.bytes, cursor, n.bytes)
      k == index + Walked(s.bytes, cursor, m).length
  IN IF cursor > Len(s.bytes) \/ m = 0 THEN <<>>
     ELSE <<k>> \o FindAllFrom(s, n, Last(Boundaries(s.bytes, cursor, m)) + Len(n.bytes), k + n.length)

FindAll(s, n) == FindAllFrom(s, n, 1, 0)

RECURSIVE ReplaceFrom(_, _, _, _, _)
ReplaceFrom(s, n, r, firstOnly, cursor) ==
  LET m == FindBytes(s.bytes, cursor, n.bytes)
      head == Walked(s.bytes, cursor, m)
      after == cursor + Len(head.bytes) + Len(n.bytes)
  IN IF cursor > Len(s.bytes) THEN Normalized(<<>>, 0)
     ELSE IF m = 0 THEN Walked(s.bytes, cursor, Len(s.bytes) + 1)
     ELSE StringAppend(StringAppend(head, r),
            IF firstOnly THEN Walked(s.bytes, after, Len(s.bytes) + 1)
                         ELSE ReplaceFrom(s, n, r, firstOnly, after))

Replace(s, n, r) == ReplaceFrom(s, n, r, FALSE, 1)
ReplaceFirst(s, n, r) == ReplaceFrom(s, n, r, TRUE, 1)

RECURSIVE SubstringsFrom(_, _, _)
SubstringsFrom(s, n, cursor) ==
  LET m == FindBytes(s, cursor, n)
      piece(end) == Normalized(SubSeq(s, cursor, end - 1), Len(Boundaries(s, cursor, end)) - 1)
  IN IF m = 0 THEN <<piece(Len(s) + 1)>>
     ELSE <<piece(m)>> \o SubstringsFrom(s, n, m + Len(n))

Substrings(s, n) == SubstringsFrom(s.bytes, n.bytes, 1)

(* splitOn: cuts at each codepoint the test accepts; a regular expression  *)
(* cuts elsewhere.                                                         *)
SplitAt(s, Delimiter(_)) ==
  LET at == Starts(s.bytes)
      cuts == SelectSeq([k \in DOMAIN at |-> k], LAMBDA k : Delimiter(CodepointAt(s.bytes, at[k])))
      edges == <<0>> \o cuts \o <<Len(at) + 1>>
  IN [j \in 1..Len(cuts) + 1 |-> Substring(s, edges[j], edges[j + 1] - 1)]

ContainsCodepoint(n, c) == \E i \in ToSet(Starts(n.bytes)) : CodepointAt(n.bytes, i) = c
SplitOn(s, n) == SplitAt(s, LAMBDA c : ContainsCodepoint(n, c))

(* A regular expression, here one that matches the longest run of some     *)
(* characters, or an empty one: where it matches from a cursor on.         *)
RECURSIVE RunEnd(_, _, _)
RunEnd(s, n, i) ==
  IF i <= Len(s) /\ ContainsCodepoint(n, CodepointAt(s, i)) THEN RunEnd(s, n, NextAt(s, i)) ELSE i
PatternMatch(s, n, orEmpty, cursor) ==
  LET at == {i \in ToSet(Boundaries(s, 1, Len(s) + 1)) : i >= cursor /\ (orEmpty \/ RunEnd(s, n, i) > i)}
  IN IF at = {} THEN <<>> ELSE <<Min(at), RunEnd(s, n, Min(at))>>

(* After an empty match the search goes on behind the next character.      *)
RECURSIVE SplitFields(_, _, _, _, _)
SplitFields(s, n, orEmpty, field, search) ==
  LET m == PatternMatch(s, n, orEmpty, search)
      onward == IF m[2] > m[1] THEN m[2] ELSE IF m[2] <= Len(s) THEN NextAt(s, m[2]) ELSE Len(s) + 2
  IN IF search > Len(s) + 1 \/ m = <<>> THEN <<StringNew(SubSeq(s, field, Len(s)))>>
     ELSE <<StringNew(SubSeq(s, field, m[1] - 1))>> \o SplitFields(s, n, orEmpty, m[2], onward)
PatternSplit(s, n, orEmpty) == SplitFields(s.bytes, n, orEmpty, 1, 1)

CodepointIndex(s, offset) == Len(Boundaries(s, 1, offset)) - 1
Capture(s, m) == StringNew(SubSeq(s.bytes, m[1], m[2] - 1))
CaptureRange(s, m) == <<CodepointIndex(s.bytes, m[1]), CodepointIndex(s.bytes, m[2])>>

AsciiSpace(c) == c \in (9..13) \cup {32}
SubstringsWhitespace(s) == SelectSeq(SplitAt(s, AsciiSpace), LAMBDA p : p.bytes # <<>>)

StringJoin(n, pieces) ==
  IF pieces = <<>> THEN Normalized(<<>>, 0)
  ELSE FoldLeft(LAMBDA sum, p : StringAppend(StringAppend(sum, n), p), Head(pieces), Tail(pieces))

StartsWith(s, n) == IsPrefix(n.bytes, s.bytes)

(* A line ends at a line feed, without the carriage returns before it, and *)
(* the next one begins after the carriage returns behind it.               *)
RECURSIVE LinesFrom(_, _)
LinesFrom(s, start) ==
  LET feeds == {i \in start..Len(s) : s[i] = 10}
      end == Min(feeds \cup {Len(s) + 1})
      stop == Max({start} \cup {i + 1 : i \in {j \in start..end - 1 : s[j] # 13}})
      next == Min({j \in end + 1..Len(s) : s[j] # 13} \cup {Len(s) + 1})
  IN IF start > Len(s) THEN <<>>
     ELSE <<StringNew(SubSeq(s, start, stop - 1))>> \o LinesFrom(s, next)

SplitLines(s) == LinesFrom(s.bytes, 1)

----------------------------------------------------------------------------
(* Order, equality and hash are those of the bytes. *)

StringCompare(l, r) ==
  LET common == Min({Len(l), Len(r)})
      differ == {i \in 1..common : l[i] # r[i]}
      At(i, a, b) == IF a < b THEN -1 ELSE 1
  IN IF differ # {} THEN At(1, l[Min(differ)], r[Min(differ)])
     ELSE IF Len(l) = Len(r) THEN 0 ELSE At(1, Len(l), Len(r))

----------------------------------------------------------------------------
(* A file name of portable bytes for any text: an underscore is doubled,   *)
(* another byte becomes an underscore and two hexadecimal digits.          *)

PortableByte(b) == b \in (48..57) \cup (65..90) \cup (97..122) \cup {45, 46}
HexDigit(v) == IF v < 10 THEN 48 + v ELSE 55 + v
HexDigitValue(d) ==
  CASE d \in 48..57 -> d - 48 [] d \in 65..70 -> d - 55 [] d \in 97..102 -> d - 87 [] OTHER -> -1

(* Variant: the underscore, which begins an escape, stands for itself.     *)
PortableFormBare(b) ==
  IF PortableByte(b) \/ b = 95 THEN <<b>> ELSE <<95, HexDigit(b \div 16), HexDigit(b % 16)>>

PortableForm(b) ==
  CASE PortableByte(b) -> <<b>>
    [] b = 95          -> <<95, 95>>
    [] OTHER           -> <<95, HexDigit(b \div 16), HexDigit(b % 16)>>

AsPortableFilename(s) == StringNew(FlattenSeq([i \in DOMAIN s.bytes |-> PortableForm(s.bytes[i])]))

(* The bytes a file name stands for, or a sequence that ends in -1 when it *)
(* stands for none.                                                        *)
RECURSIVE PortableBytes(_)
PortableBytes(b) ==
  LET Has(n) == Len(b) >= n
      Rest(n) == PortableBytes(SubSeq(b, n, Len(b)))
      high == HexDigitValue(b[2])
      low == HexDigitValue(b[3])
  IN IF b = <<>> THEN <<>>
     ELSE IF PortableByte(b[1]) THEN <<b[1]>> \o Rest(2)
     ELSE IF b[1] = 95 /\ Has(2) /\ b[2] = 95 THEN <<95>> \o Rest(3)
     ELSE IF b[1] = 95 /\ Has(3) /\ high >= 0 /\ low >= 0 THEN <<high * 16 + low>> \o Rest(4)
     ELSE <<-1>>

PortableError(s) == -1 \in ToSet(PortableBytes(s.bytes))
FromPortableFilename(s) == StringNew(PortableBytes(s.bytes))

----------------------------------------------------------------------------
(* Case: a codepoint of the table has one form per case, of one or several *)
(* codepoints; any other is its own.                                       *)

CaseForm(mode, c) ==
  LET rows == {r \in CaseTable : c \in {r.from}}
  IN IF rows = {} THEN <<c>> ELSE (CHOOSE r \in rows : TRUE)[mode]

RECURSIVE CasedFrom(_, _, _, _)
CasedFrom(cs, mode, eachWord, first) ==
  IF cs = <<>> THEN <<>>
  ELSE CaseForm(IF mode = "title" /\ ~first THEN "lower" ELSE mode, Head(cs))
         \o CasedFrom(Tail(cs), mode, eachWord, eachWord /\ AsciiSpace(Head(cs)))

StringCase(s, mode, eachWord) == FromCharacters(CasedFrom(Codepoints(s.bytes), mode, eachWord, TRUE))

(* Each character that the dictionary knows becomes the string it names. *)
MapCharacters(s, c, to) ==
  FoldLeft(LAMBDA sum, d : StringAppend(sum, IF d = c THEN to ELSE FromCharacters(<<d>>)),
           Normalized(<<>>, 0), Codepoints(s.bytes))

----------------------------------------------------------------------------
(* A program keeps one string and replaces it by what it makes of it.      *)

StringInit ==
  /\ text \in {StringNew(r) : r \in RawTexts}
  /\ needle \in {StringNew(n) : n \in Needles}
  /\ edits = 0

StringIdle == text = Normalized(<<>>, 0) /\ needle = text /\ edits = 0

Become(s) == /\ edits < MaxEdits
             /\ edits' = edits + 1
             /\ text' = s
             /\ UNCHANGED needle

Ranges(s) == {p \in (0..s.length) \X (0..s.length) : p[1] <= p[2]}

CutStep == \E p \in Ranges(text) : Become(Substring(text, p[1], p[2]))
AppendStep == Become(StringAppend(text, needle))
ReplaceStep == /\ needle.bytes # <<>>
               /\ \E r \in Replacements : \/ Become(Replace(text, needle, StringNew(r)))
                                      \/ Become(ReplaceFirst(text, needle, StringNew(r)))
MapStep == \E c \in ToSet(Codepoints(text.bytes)) : Become(MapCharacters(text, c, needle))
CaseStep == \E mode \in {"lower", "title", "upper"}, eachWord \in BOOLEAN :
              Become(StringCase(text, mode, eachWord))
FilenameStep == \/ Become(AsPortableFilename(text))
                \/ ~PortableError(text) /\ Become(FromPortableFilename(text))

StringNext == CutStep \/ AppendStep \/ ReplaceStep \/ MapStep \/ CaseStep \/ FilenameStep

----------------------------------------------------------------------------
(* What must hold of any string, stated over its codepoints. *)

Occurs(cs, ns) == {k \in 0..Len(cs) - Len(ns) : SubSeq(cs, k + 1, k + Len(ns)) = ns}

(* The bytes are valid UTF-8 and the cached length counts their            *)
(* codepoints, whatever raw bytes the string came from and however often   *)
(* it was cut, glued or mapped (String.c:2099, String_new_normalized).     *)
TextIsNormalized ==
  /\ StringNew(text.bytes) = text
  /\ \A i \in ToSet(Starts(text.bytes)) :
       SequenceValid(text.bytes, i, SequenceLength(text.bytes[i]))

(* The search on bytes finds what a search on codepoints finds, at that    *)
(* index, and never inside a character (String.c:174).                     *)
SearchIsByCharacter ==
  LET cs == Codepoints(text.bytes)
      ns == Codepoints(needle.bytes)
      hits == Occurs(cs, ns)
      all == FindAll(text, needle)
  IN needle.bytes # <<>> =>
       /\ Find(text, needle) = IF hits = {} THEN <<>> ELSE <<Min(hits)>>
       /\ ToSet(all) \subseteq hits
       /\ \A h \in hits : \E k \in ToSet(all) : k <= h /\ h < k + Len(ns)
       /\ StartsWith(text, needle) <=> 0 \in hits

(* The pieces between delimiters, joined by the delimiter, are the text;   *)
(* no piece holds the delimiter, and replacing is cutting and joining.     *)
CutsJoin ==
  /\ needle.bytes # <<>> =>
       LET pieces == Substrings(text, needle)
       IN /\ StringJoin(needle, pieces) = text
          /\ \A k \in DOMAIN pieces : Find(pieces[k], needle) = <<>>
          /\ Len(pieces) = Len(FindAll(text, needle)) + 1
          /\ Replace(text, needle, text) = StringJoin(text, pieces)
          /\ needle.length = 1 => SplitOn(text, needle) = pieces
  /\ \A k \in DOMAIN SplitLines(text) : 10 \notin ToSet(SplitLines(text)[k].bytes)
  /\ \A p \in Ranges(text) :
       StringAppend(StringAppend(Substring(text, 0, p[1]), Substring(text, p[1], p[2])),
                    Substring(text, p[2], text.length)) = text

(* A regular expression cuts at each of its matches once, the empty ones   *)
(* between other characters and at the end included, and what it captures  *)
(* is what its range of characters holds (RegularExpression.c:501, :673).  *)
PatternsCutAtMatches ==
  LET cs == Codepoints(text.bytes)
      inRun == {k \in DOMAIN cs : ContainsCodepoint(needle, cs[k])}
      runs == Cardinality({k \in inRun : k - 1 \notin inRun})
      rest == SelectSeq(cs, LAMBDA c : ~ContainsCodepoint(needle, c))
  IN /\ \A orEmpty \in BOOLEAN :
          LET pieces == PatternSplit(text, needle, orEmpty)
          IN /\ StringJoin(StringNew(<<>>), pieces) = FromCharacters(rest)
             /\ Len(pieces) = 1 + runs + (IF orEmpty THEN Len(rest) + 1 ELSE 0)
     /\ \A cursor \in ToSet(Starts(text.bytes)) :
          LET m == PatternMatch(text.bytes, needle, FALSE, cursor)
              range == CaptureRange(text, m)
          IN m # <<>> => Capture(text, m) = Substring(text, range[1], range[2])

(* The order of the bytes is the order of the codepoints. *)
OrderIsByCharacter ==
  LET cs == Codepoints(text.bytes)
      ns == Codepoints(needle.bytes)
  IN StringCompare(text.bytes, needle.bytes) = StringCompare(cs, ns)

(* A text comes back from its portable file name, from its character list  *)
(* and from its characters one by one.                                     *)
TextComesBack ==
  /\ FromPortableFilename(AsPortableFilename(text)) = text
  /\ FromCharacters(ToCharacterList(text)) = text
  /\ ToCharacterList(text) = [k \in 1..text.length |-> StringAt(text, k - 1)]

StringsSound == /\ TextIsNormalized /\ SearchIsByCharacter /\ CutsJoin
                /\ PatternsCutAtMatches /\ OrderIsByCharacter /\ TextComesBack
============================================================================
