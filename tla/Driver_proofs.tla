---------------------------- MODULE Driver_proofs ----------------------------
(***************************************************************************)
(* The parser of options and the listtalk program do what they are asked,  *)
(* whatever the options, the arguments, the tasks and the command lines.   *)
(*                                                                         *)
(* A parse: the calls it has made are those of the words it has read, and  *)
(* what options and arguments are added to the parser does not change them.*)
(* The program: what its callbacks did is what the calls so far ask for.   *)
(***************************************************************************)
EXTENDS SharedState_proofs

-----------------------------------------------------------------------------
(* Options: what a parse has read, and what was said by it.                *)

CallSet == [who : {"option", "argument", "nothing"} \X Nat, value : ParsedWords \cup {NoValue}]
ParseSet ==
  [pc : {"waiting", "words", "letters", "advance", "check", "done", "failed"}, line : CommandLines,
   words : Seq(ParsedWords), letters : Seq(STRING), only : BOOLEAN, current : Nat, last : Nat,
   given : SUBSET Nat, calls : Seq(CallSet), began : Seq(OptionParsers)]

(* The calls of the first words, whether all after them are arguments, how *)
(* many of them are, and whether the next is the value of an option.       *)
CallsAt(p, W, i) == WordCalls(p, W, Roles(p, W), i)
Said(p, W, c) == FlattenSeq([i \in 1..c |-> CallsAt(p, W, i)])
Closed(p, W, c) == \E j \in 1..c : Roles(p, W)[j] = "mark" \/ (p.strict /\ Roles(p, W)[j] = "argument")
Positionals(p, W, c) == Cardinality({j \in 1..c : Roles(p, W)[j] = "argument"})
Wants(p, W, c) == Roles(p, W)[c] = "option" /\ WantsNext(p, W[c])

(* Options and arguments are only added, at the end. *)
Longer(s, t) == Len(s) <= Len(t) /\ \A i \in 1..Len(s) : t[i] = s[i]
OptionsGrown(p, r) == r.strict = p.strict /\ Longer(p.options, r.options) /\ Longer(p.arguments, r.arguments)

Flag(p, letter) == FindShort(p, letter) # 0 /\ ~p.options[FindShort(p, letter)].takes
FlagCalls(p, text, k) == [i \in 1..k |-> CallOf(p, FindShort(p, text[i]), NoValue)]

(* Between two words, or before the letter after k of a word.              *)
Between(p, q, c) ==
  /\ q.calls = Said(p, q.line.words, c)
  /\ c > 0 => ~Wants(p, q.line.words, c)
InWord(p, q, c, k) ==
  LET w == q.line.words[c] IN
  /\ c > 0 /\ Roles(p, q.line.words)[c] = "option" /\ w.is = "short"
  /\ k < Len(w.text) /\ q.letters = SubSeq(w.text, k + 1, Len(w.text))
  /\ \A i \in 1..k : Flag(p, w.text[i])
  /\ q.calls = Said(p, q.line.words, c - 1) \o FlagCalls(p, w.text, k)
ReadWell(p, q, c) ==
  /\ c <= Len(q.line.words) /\ q.words = SubSeq(q.line.words, c + 1, Len(q.line.words))
  /\ q.only <=> Closed(p, q.line.words, c)
  /\ Unknown \notin ToSet(q.calls)
  /\ IF q.letters = <<>> THEN Between(p, q, c) ELSE \E k \in Nat : InWord(p, q, c, k)

(* The argument next in turn, where there is one; else there are too few.  *)
Fixed(s) == \A i \in 1..Len(s) : ~s[i].multiple
TurnWell(p, q, c) ==
  LET n == Positionals(p, q.line.words, c) IN
  IF q.pc # "advance" /\ q.current = 0
  THEN Len(q.began[1].arguments) <= n /\ Fixed(q.began[1].arguments)
  ELSE /\ q.current = ArgumentFor(p, IF q.pc = "advance" THEN n ELSE n + 1)
       /\ q.current \in 1..Len(p.arguments)

Gives(said, i) == \E a \in ToSet(said) : a.who = <<"argument", i>>
AllGiven(q) ==
  \A i \in 1..Len(q.began[1].arguments) : q.began[1].arguments[i].required => Gives(q.calls, i)
FailedRightly(p, q) ==
  ~Understood(q.began[1], q.line) \/ (q.began[1].arguments = <<>> /\ p.arguments # <<>>)

TaskWell(p, q) ==
  /\ q \in ParseSet
  /\ q.pc = "waiting" => q = Waiting(q.line)
  /\ q.pc # "waiting" =>
       /\ Len(q.began) = 1 /\ OptionsGrown(q.began[1], p) /\ q.last = Len(q.began[1].arguments)
       /\ \E c \in Nat : ReadWell(p, q, c) /\ (q.pc # "failed" => TurnWell(p, q, c))
       /\ \A i \in Nat : i \in q.given <=> Gives(q.calls, i)
  /\ q.pc = "letters" => q.letters # <<>>
  /\ q.pc \in {"words", "advance", "check", "done"} => q.letters = <<>>
  /\ q.pc \in {"check", "done"} => q.words = <<>> /\ q.line.tail = "nil"
  /\ q.pc = "done" => AllGiven(q)
  /\ q.pc = "failed" => FailedRightly(p, q)
OptionsInv ==
  /\ parser \in OptionParsers
  /\ \A t \in DOMAIN parses : TaskWell(parser, parses[t])

-----------------------------------------------------------------------------
(* The words the parser tells apart.                                       *)

(* What is known of any word.                                              *)
LEMMA WordFacts ==
  ASSUME NEW w \in ParsedWords
  PROVE  /\ w.is \in {"plain", "short", "long", "valued", "dashes", "other"}
         /\ w.is = "short" => w.text \in Seq(STRING) /\ w.text # <<>>
         /\ w.is = "valued" => w.text \in Seq(STRING)
         /\ w.is = "other" <=> w = NotString
         /\ w # NoValue
<1>1. NoValue.is = "nil" /\ TwoDashes.is = "dashes" /\ NotString.is = "other"
  BY DEF NoValue, TwoDashes, NotString
<1>2. CASE w \in [is : {"plain"}, text : Seq(STRING)]
  BY <1>1, <1>2
<1>3. CASE w \in {v \in [is : {"short"}, text : Seq(STRING)] : v.text # <<>>}
  BY <1>1, <1>3
<1>4. CASE w \in [is : {"long"}, name : STRING]
  BY <1>1, <1>4
<1>5. CASE w \in [is : {"valued"}, name : STRING, text : Seq(STRING)]
  BY <1>1, <1>5
<1>6. CASE w \in {TwoDashes, NotString}
  BY <1>1, <1>6
<1> QED
  BY <1>2, <1>3, <1>4, <1>5, <1>6 DEF ParsedWords

(* A value made of letters is a word.                                      *)
LEMMA PlainWord ==
  ASSUME NEW text \in Seq(STRING)
  PROVE  Plain(text) \in ParsedWords /\ Plain(text) # NotString /\ Plain(text) # NoValue
<1>1. Plain(text).is = "plain" /\ NotString.is = "other" /\ NoValue.is = "nil"
  BY DEF Plain, NotString, NoValue
<1>2. Plain(text) \in [is : {"plain"}, text : Seq(STRING)]
  BY DEF Plain
<1> QED
  BY <1>1, <1>2 DEF ParsedWords

(* The least of a set of places.                                           *)
LEMMA LeastPlace ==
  ASSUME NEW I, I \subseteq Nat, I # {}
  PROVE  Min(I) \in I /\ \A j \in I : Min(I) <= j
<1>1. PICK x \in I : \A y \in I : x <= y
  BY LeastNatural
<1> QED
  BY <1>1 DEF Min

(* The least, or 0 for none.                                               *)
Least(I) == IF I # {} THEN Min(I) ELSE 0

(* It is in the set, or the set is empty.                                  *)
LEMMA LeastFacts ==
  ASSUME NEW n \in Nat, NEW I, I \subseteq 1..n
  PROVE  /\ Least(I) \in 0..n
         /\ Least(I) # 0 => Least(I) \in I
         /\ \A j \in I : Least(I) # 0 /\ Least(I) <= j
<1>0. I \subseteq Nat
  OBVIOUS
<1>1. I # {} => Min(I) \in I /\ \A j \in I : Min(I) <= j
  BY <1>0, LeastPlace
<1>2. CASE I = {}
  BY <1>2 DEF Least
<1>3. CASE I # {}
  <2>1. Least(I) = Min(I)
    BY <1>3 DEF Least
  <2>2. Least(I) \in I /\ \A j \in I : Least(I) <= j
    BY <1>1, <1>3, <2>1
  <2>3. Least(I) \in 1..n
    BY <2>2
  <2>4. Least(I) \in 0..n /\ Least(I) # 0
    BY <2>3
  <2> QED
    BY <2>2, <2>4
<1> QED
  BY <1>2, <1>3

(* What tells the least.                                                   *)
LEMMA LeastIs ==
  ASSUME NEW n \in Nat, NEW I, I \subseteq 1..n, NEW i \in I, \A j \in 1..n : j < i => j \notin I
  PROVE  Least(I) = i
<1>1. Least(I) \in 1..n /\ Least(I) \in I /\ Least(I) <= i
  BY LeastFacts
<1>2. ~(Least(I) < i) /\ i \in 1..n
  BY <1>1
<1> QED
  BY <1>1, <1>2

(* More places behind all of these do not change the least.                *)
LEMMA LeastStays ==
  ASSUME NEW n \in Nat, NEW m \in Nat, n <= m, NEW I, I \subseteq 1..n, NEW J, J \subseteq 1..m,
         \A j \in 1..n : j \in J <=> j \in I
  PROVE  Least(J) = Least(I) \/ (Least(I) = 0 /\ Least(J) > n)
<1>1. /\ Least(I) \in 0..n /\ Least(J) \in 0..m
      /\ Least(I) # 0 => Least(I) \in I
      /\ Least(J) # 0 => Least(J) \in J
      /\ \A j \in I : Least(I) # 0 /\ Least(I) <= j
      /\ \A j \in J : Least(J) # 0 /\ Least(J) <= j
  BY LeastFacts
<1>2. CASE Least(I) # 0
  <2>1. Least(I) \in I /\ Least(I) \in 1..n
    BY <1>1, <1>2
  <2>2. Least(J) # 0 /\ Least(J) <= Least(I)
    BY <1>1, <2>1
  <2>3. Least(J) \in 1..n /\ Least(J) \in J
    BY <1>1, <2>1, <2>2
  <2>4. Least(I) <= Least(J)
    BY <1>1, <2>3
  <2> QED
    BY <1>1, <2>2, <2>4
<1>3. CASE Least(I) = 0
  <2>1. I = {}
    BY <1>1, <1>3
  <2>2. Least(J) # 0 => Least(J) > n
    BY <1>1, <2>1
  <2> QED
    BY <1>1, <1>3, <2>1, <2>2 DEF Least
<1> QED
  BY <1>2, <1>3

(* The searches of the parser are for the least place.                     *)
LEMMA Searches ==
  /\ \A p, c : FindShort(p, c) = Least({i \in 1..Len(p.options) : p.options[i].short = c})
  /\ \A p, name : FindLong(p, name) = Least({i \in 1..Len(p.options) : p.options[i].long = name})
  /\ \A p, w : FirstSpecial(p, w) = Least({i \in 1..Len(w.text) : ~Flag(p, w.text[i])})
<1>1. ASSUME NEW p, NEW c PROVE FindShort(p, c) = Least({i \in 1..Len(p.options) : p.options[i].short = c})
  BY DEF FindShort, SelectInSeq, Least
<1>2. ASSUME NEW p, NEW name PROVE FindLong(p, name) = Least({i \in 1..Len(p.options) : p.options[i].long = name})
  BY DEF FindLong, SelectInSeq, Least
<1>3. ASSUME NEW p, NEW w PROVE FirstSpecial(p, w) = Least({i \in 1..Len(w.text) : ~Flag(p, w.text[i])})
  <2>1. \A i : ~Flag(p, w.text[i]) <=> (FindShort(p, w.text[i]) = 0 \/ p.options[FindShort(p, w.text[i])].takes)
    BY DEF Flag
  <2>2. {i \in 1..Len(w.text) : ~Flag(p, w.text[i])} =
          {i \in 1..Len(w.text) : FindShort(p, w.text[i]) = 0 \/ p.options[FindShort(p, w.text[i])].takes}
    BY <2>1
  <2> QED
    BY <2>2 DEF FirstSpecial, SelectInSeq, Least
<1> QED
  BY <1>1, <1>2, <1>3

-----------------------------------------------------------------------------
(* The roles of words are what their definition asks.                      *)

OwnRole(w) == CASE w.is = "dashes" -> "mark" [] w.is = "plain" -> "argument" [] OTHER -> "option"
RoleAfter(p, W, f, i) ==
  IF i > 1 /\ f[i - 1] = "option" /\ WantsNext(p, W[i - 1]) THEN "value"
  ELSE IF \E j \in 1..(i - 1) : f[j] = "mark" \/ (p.strict /\ f[j] = "argument") THEN "argument"
  ELSE OwnRole(W[i])

(* A role depends on those before it only.                                 *)
LEMMA RoleAfterAgrees ==
  ASSUME NEW p, NEW W, NEW f, NEW g, NEW i \in Nat, \A j \in 1..(i - 1) : f[j] = g[j]
  PROVE  RoleAfter(p, W, f, i) = RoleAfter(p, W, g, i)
<1>1. i > 1 => i - 1 \in 1..(i - 1)
  OBVIOUS
<1>2. i > 1 => f[i - 1] = g[i - 1]
  BY <1>1
<1>3. (\E j \in 1..(i - 1) : f[j] = "mark" \/ (p.strict /\ f[j] = "argument"))
        <=> (\E j \in 1..(i - 1) : g[j] = "mark" \/ (p.strict /\ g[j] = "argument"))
  OBVIOUS
<1> HIDE DEF OwnRole
<1> QED
  BY <1>2, <1>3 DEF RoleAfter

(* There are roles for the words up to any.                                *)
LEMMA RolesExist ==
  ASSUME NEW p, NEW W, NEW n \in Nat
  PROVE  \E f : f = [i \in 1..n |-> RoleAfter(p, W, f, i)]
<1> DEFINE T == {m \in Nat : ~ \E f : f = [i \in 1..m |-> RoleAfter(p, W, f, i)]}
<1>1. SUFFICES ASSUME T # {} PROVE FALSE
  OBVIOUS
<1>2. PICK m \in T : \A k \in T : m <= k
  BY <1>1, LeastNatural
<1>3. CASE m = 0
  <2> DEFINE f == [i \in 1..0 |-> "option"]
  <2>1. f = [i \in 1..0 |-> RoleAfter(p, W, f, i)]
    OBVIOUS
  <2> HIDE DEF f
  <2> QED
    BY <1>2, <1>3, <2>1
<1>4. CASE m # 0
  <2>1. m - 1 \in Nat /\ m - 1 \notin T
    BY <1>2, <1>4
  <2>2. PICK f : f = [i \in 1..(m - 1) |-> RoleAfter(p, W, f, i)]
    BY <2>1
  <2> DEFINE g == [i \in 1..m |-> RoleAfter(p, W, f, i)]
             h == [i \in 1..m |-> RoleAfter(p, W, g, i)]
  <2>3. \A i \in 1..(m - 1) : g[i] = f[i]
    <3> SUFFICES ASSUME NEW i \in 1..(m - 1) PROVE g[i] = f[i]
      OBVIOUS
    <3>1. i \in 1..m
      BY <2>1
    <3>2. f[i] = RoleAfter(p, W, f, i)
      BY <2>2
    <3> QED
      BY <3>1, <3>2
  <2>4. \A i \in 1..m : RoleAfter(p, W, f, i) = RoleAfter(p, W, g, i)
    <3> SUFFICES ASSUME NEW i \in 1..m PROVE RoleAfter(p, W, f, i) = RoleAfter(p, W, g, i)
      OBVIOUS
    <3>1. i \in Nat /\ \A j \in 1..(i - 1) : j \in 1..(m - 1)
      BY <2>1, <1>2
    <3>2. \A j \in 1..(i - 1) : f[j] = g[j]
      BY <2>3, <3>1
    <3> HIDE DEF g
    <3> QED
      BY <3>1, <3>2, RoleAfterAgrees
  <2>5. g = h
    <3> SUFFICES \A i \in 1..m : RoleAfter(p, W, f, i) = RoleAfter(p, W, g, i)
      OBVIOUS
    <3> QED
      BY <2>4
  <2>6. g = [i \in 1..m |-> RoleAfter(p, W, g, i)]
    BY <2>5
  <2> HIDE DEF g, h
  <2> QED
    BY <1>2, <2>6
<1> QED
  BY <1>3, <1>4

(* The role of each word, from what is before it.                          *)
LEMMA RolesAre ==
  ASSUME NEW p, NEW W, Len(W) \in Nat
  PROVE  \A i \in 1..Len(W) : Roles(p, W)[i] = RoleAfter(p, W, Roles(p, W), i)
<1> DEFINE F == CHOOSE f : f = [i \in 1..Len(W) |-> RoleAfter(p, W, f, i)]
<1>1. Roles(p, W) = F
  BY DEF Roles, RoleAfter, OwnRole
<1>2. \E f : f = [i \in 1..Len(W) |-> RoleAfter(p, W, f, i)]
  BY RolesExist
<1>3. F = [i \in 1..Len(W) |-> RoleAfter(p, W, F, i)]
  BY <1>2
<1> HIDE DEF F
<1> QED
  BY <1>1, <1>3

(* The same, by what the words before it want and close.                   *)
LEMMA RoleIs ==
  ASSUME NEW p, NEW W, Len(W) \in Nat, NEW i \in 1..Len(W)
  PROVE  Roles(p, W)[i] = (IF i > 1 /\ Wants(p, W, i - 1) THEN "value"
                           ELSE IF Closed(p, W, i - 1) THEN "argument" ELSE OwnRole(W[i]))
<1> HIDE DEF OwnRole
<1> QED
  BY RolesAre DEF RoleAfter, Wants, Closed

-----------------------------------------------------------------------------
(* The calls that words make.                                              *)

ValueSet == ParsedWords \cup {NoValue}

(* A parser has its lists.                                                 *)
LEMMA ParserFields ==
  ASSUME NEW p \in OptionParsers
  PROVE  /\ p.options \in Seq(ParserOptions) /\ Len(p.options) \in Nat
         /\ p.arguments \in Seq(ParserArguments) /\ Len(p.arguments) \in Nat
         /\ p.strict \in BOOLEAN /\ p.room \in Nat
         /\ \A i \in 1..Len(p.options) : p.options[i] \in ParserOptions
         /\ \A i \in 1..Len(p.arguments) : p.arguments[i] \in ParserArguments
<1>1. p.options \in Seq(ParserOptions) /\ p.arguments \in Seq(ParserArguments) /\ p.strict \in BOOLEAN /\ p.room \in Nat
  BY DEF OptionParsers
<1> QED
  BY <1>1, LenProperties, ElementOfSeq

(* Where the parser finds a name.                                          *)
LEMMA FindRange ==
  ASSUME NEW p \in OptionParsers
  PROVE  \A c : FindShort(p, c) \in 0..Len(p.options) /\ FindLong(p, c) \in 0..Len(p.options)
<1>1. Len(p.options) \in Nat
  BY ParserFields
<1> SUFFICES ASSUME NEW c PROVE FindShort(p, c) \in 0..Len(p.options) /\ FindLong(p, c) \in 0..Len(p.options)
  OBVIOUS
<1>2. {i \in 1..Len(p.options) : p.options[i].short = c} \subseteq 1..Len(p.options)
  OBVIOUS
<1>3. {i \in 1..Len(p.options) : p.options[i].long = c} \subseteq 1..Len(p.options)
  OBVIOUS
<1>4. Least({i \in 1..Len(p.options) : p.options[i].short = c}) \in 0..Len(p.options)
  BY <1>1, <1>2, LeastFacts
<1>5. Least({i \in 1..Len(p.options) : p.options[i].long = c}) \in 0..Len(p.options)
  BY <1>1, <1>3, LeastFacts
<1> QED
  BY <1>4, <1>5, Searches

(* The place of the first letter that is no flag.                          *)
LEMMA SpecialPlace ==
  ASSUME NEW p, NEW w, w.text \in Seq(STRING)
  PROVE  /\ FirstSpecial(p, w) \in 0..Len(w.text) /\ Len(w.text) \in Nat
         /\ FirstSpecial(p, w) # 0 => ~Flag(p, w.text[FirstSpecial(p, w)])
         /\ \A j \in 1..Len(w.text) : ~Flag(p, w.text[j]) => FirstSpecial(p, w) # 0 /\ FirstSpecial(p, w) <= j
<1>1. Len(w.text) \in Nat
  BY LenProperties
<1> DEFINE I == {i \in 1..Len(w.text) : ~Flag(p, w.text[i])}
<1>2. I \subseteq 1..Len(w.text)
  OBVIOUS
<1>3. FirstSpecial(p, w) = Least(I)
  BY Searches
<1>4. \A j : j \in I <=> j \in 1..Len(w.text) /\ ~Flag(p, w.text[j])
  OBVIOUS
<1> HIDE DEF I
<1>5. /\ Least(I) \in 0..Len(w.text)
      /\ Least(I) # 0 => Least(I) \in I
      /\ \A j \in I : Least(I) # 0 /\ Least(I) <= j
  BY <1>1, <1>2, LeastFacts
<1> QED
  BY <1>1, <1>3, <1>4, <1>5

(* Calls are calls.                                                        *)
LEMMA CallTyped ==
  /\ Unknown \in CallSet
  /\ \A p : \A i \in Nat, value \in ValueSet : CallOf(p, i, value) \in CallSet
  /\ \A p : \A i \in Nat, w \in ParsedWords : ArgumentCall(p, i, w) \in CallSet
<1>1. Unknown \in CallSet
  BY DEF Unknown, CallSet
<1>2. \A i \in Nat, value \in ValueSet : [who |-> <<"option", i>>, value |-> value] \in CallSet
  BY DEF CallSet, ValueSet
<1>3. \A i \in Nat, w \in ParsedWords : [who |-> <<"argument", i>>, value |-> w] \in CallSet
  BY DEF CallSet, ValueSet
<1> QED
  BY <1>1, <1>2, <1>3 DEF CallOf, ArgumentCall

(* What the call of a letter of a word gets, and how many letters call.    *)
LetterValue(p, w, next, k) ==
  IF k # FirstSpecial(p, w) THEN NoValue
  ELSE IF k = Len(w.text) THEN next ELSE Plain(SubSeq(w.text, k + 1, Len(w.text)))
CallingLetters(p, w) == IF FirstSpecial(p, w) = 0 THEN Len(w.text) ELSE FirstSpecial(p, w)

(* The rest of a sequence.                                                 *)
LEMMA RestFacts ==
  ASSUME NEW E, NEW s \in Seq(E), NEW k \in Nat, k <= Len(s)
  PROVE  /\ SubSeq(s, k + 1, Len(s)) \in Seq(E) /\ Len(SubSeq(s, k + 1, Len(s))) = Len(s) - k
         /\ \A i \in 1..(Len(s) - k) : SubSeq(s, k + 1, Len(s))[i] = s[k + i]
<1> DEFINE n == Len(s)
           r == SubSeq(s, k + 1, n)
<1>1. n \in Nat /\ k <= n /\ \A i \in 1..n : s[i] \in E
  BY LenProperties, ElementOfSeq
<1>2. k + 1 \in Int /\ n \in Int /\ \A i \in (k + 1)..n : i \in 1..n
  BY <1>1
<1>3. \A i \in (k + 1)..n : s[i] \in E
  BY <1>1, <1>2
<1>4. /\ r \in Seq(E) /\ Len(r) = (IF k + 1 <= n THEN n - (k + 1) + 1 ELSE 0)
      /\ \A i \in 1..n - (k + 1) + 1 : r[i] = s[(k + 1) + i - 1]
  BY <1>2, <1>3, SubSeqProperties
<1> SUFFICES /\ r \in Seq(E) /\ Len(r) = n - k
             /\ \A i \in 1..(n - k) : r[i] = s[k + i]
  OBVIOUS
<1> HIDE DEF r, n
<1>5. (IF k + 1 <= n THEN n - (k + 1) + 1 ELSE 0) = n - k /\ n - (k + 1) + 1 = n - k
  BY <1>1
<1>6. \A i \in 1..(n - k) : (k + 1) + i - 1 = k + i
  BY <1>1
<1> QED
  BY <1>4, <1>5, <1>6

(* The calls of a word of letters, one for each up to the first that is    *)
(* no flag.                                                                *)
LEMMA LetterCalls ==
  ASSUME NEW p \in OptionParsers, NEW w \in ParsedWords, w.is = "short", NEW next \in ParsedWords
  PROVE  /\ OptionCalls(p, w, next) \in Seq(CallSet)
         /\ CallingLetters(p, w) \in 1..Len(w.text)
         /\ Len(OptionCalls(p, w, next)) = CallingLetters(p, w)
         /\ \A k \in 1..CallingLetters(p, w) :
              OptionCalls(p, w, next)[k] = CallOf(p, FindShort(p, w.text[k]), LetterValue(p, w, next, k))
<1>1. w.text \in Seq(STRING) /\ w.text # <<>>
  BY WordFacts
<1>2. Len(w.text) \in Nat \ {0} /\ FirstSpecial(p, w) \in 0..Len(w.text)
  BY <1>1, SpecialPlace, EmptySeq
<1> DEFINE n == CallingLetters(p, w)
           f(k) == CallOf(p, FindShort(p, w.text[k]), LetterValue(p, w, next, k))
<1>3. n \in 1..Len(w.text) /\ n \in Nat
  BY <1>2 DEF CallingLetters
<1>4. \A k \in 1..n : LetterValue(p, w, next, k) \in ValueSet
  <2> SUFFICES ASSUME NEW k \in 1..n PROVE LetterValue(p, w, next, k) \in ValueSet
    OBVIOUS
  <2>1. k \in Nat /\ k <= Len(w.text)
    BY <1>2, <1>3
  <2>2. SubSeq(w.text, k + 1, Len(w.text)) \in Seq(STRING)
    BY <1>1, <2>1, RestFacts
  <2>3. Plain(SubSeq(w.text, k + 1, Len(w.text))) \in ParsedWords
    BY <2>2, PlainWord
  <2> QED
    BY <2>3 DEF LetterValue, ValueSet
<1>5. \A k \in 1..n : f(k) \in CallSet
  <2>1. \A k \in 1..n : FindShort(p, w.text[k]) \in Nat
    BY FindRange, ParserFields
  <2> HIDE DEF n
  <2> QED
    BY <1>4, <2>1, CallTyped
<1>6. OptionCalls(p, w, next) = [k \in 1..n |-> f(k)]
  BY DEF OptionCalls, CallingLetters, LetterValue
<1> SUFFICES /\ OptionCalls(p, w, next) \in Seq(CallSet)
             /\ n \in 1..Len(w.text)
             /\ Len(OptionCalls(p, w, next)) = n
             /\ \A k \in 1..n : OptionCalls(p, w, next)[k] = f(k)
  OBVIOUS
<1> HIDE DEF n, f
<1> QED
  BY <1>3, <1>5, <1>6

(* The calls of the other options.                                         *)
LEMMA WordOptionCalls ==
  ASSUME NEW p \in OptionParsers, NEW w \in ParsedWords, w.is # "short", NEW next \in ParsedWords
  PROVE  /\ OptionCalls(p, w, next) =
              <<CASE w.is = "long" -> CallOf(p, FindLong(p, w.name), IF WantsNext(p, w) THEN next ELSE NoValue)
                  [] w.is = "valued" -> CallOf(p, FindLong(p, w.name), Plain(w.text))
                  [] OTHER -> Unknown>>
         /\ OptionCalls(p, w, next) \in Seq(CallSet)
<1>1. \A name : FindLong(p, name) \in Nat
  BY FindRange, ParserFields
<1>2. w.is = "valued" => Plain(w.text) \in ValueSet
  <2>1. w.is = "valued" => w.text \in Seq(STRING)
    BY WordFacts
  <2> QED
    BY <2>1, PlainWord DEF ValueSet
<1>3. (IF WantsNext(p, w) THEN next ELSE NoValue) \in ValueSet
  BY DEF ValueSet
<1>4. w.is = "valued" => CallOf(p, FindLong(p, w.name), Plain(w.text)) \in CallSet
  BY <1>1, <1>2, CallTyped
<1>5. CallOf(p, FindLong(p, w.name), IF WantsNext(p, w) THEN next ELSE NoValue) \in CallSet
  BY <1>1, <1>3, CallTyped
<1> DEFINE a == CASE w.is = "long" -> CallOf(p, FindLong(p, w.name), IF WantsNext(p, w) THEN next ELSE NoValue)
                  [] w.is = "valued" -> CallOf(p, FindLong(p, w.name), Plain(w.text))
                  [] OTHER -> Unknown
<1>6. a \in CallSet
  BY <1>4, <1>5, CallTyped
<1>7. OptionCalls(p, w, next) = <<a>>
  <2>1. CASE w.is = "long"
    BY <2>1 DEF OptionCalls
  <2>2. CASE w.is = "valued"
    BY <2>2 DEF OptionCalls
  <2>3. CASE w.is # "long" /\ w.is # "valued"
    BY <2>3 DEF OptionCalls
  <2> QED
    BY <2>1, <2>2, <2>3
<1>8. <<a>> \in Seq(CallSet)
  <2> HIDE DEF a
  <2> QED
    BY <1>6
<1> QED
  BY <1>7, <1>8

(* How many of the first words are arguments.                              *)
LEMMA PositionalsCount ==
  ASSUME NEW p, NEW W
  PROVE  /\ Positionals(p, W, 0) = 0
         /\ \A c \in Nat : /\ Positionals(p, W, c) \in Nat
                           /\ Positionals(p, W, c + 1) =
                                Positionals(p, W, c) + (IF Roles(p, W)[c + 1] = "argument" THEN 1 ELSE 0)
<1> DEFINE R == Roles(p, W)
           A(c) == {j \in 1..c : R[j] = "argument"}
<1>1. \A c : Positionals(p, W, c) = Cardinality(A(c))
  BY DEF Positionals
<1> HIDE DEF R
<1>2. A(0) = {}
  OBVIOUS
<1>3. ASSUME NEW c \in Nat
      PROVE  /\ Cardinality(A(c)) \in Nat
             /\ Cardinality(A(c + 1)) = Cardinality(A(c)) + (IF R[c + 1] = "argument" THEN 1 ELSE 0)
  <2>1. IsFiniteSet(1..c) /\ A(c) \subseteq 1..c
    BY FS_Interval
  <2>2. IsFiniteSet(A(c))
    BY <2>1, FS_Subset
  <2>3. Cardinality(A(c)) \in Nat
    BY <2>2, FS_CardinalityType
  <2>4. c + 1 \notin A(c)
    OBVIOUS
  <2>5. CASE R[c + 1] = "argument"
    <3>1. A(c + 1) = A(c) \cup {c + 1}
      BY <2>5
    <3>2. Cardinality(A(c) \cup {c + 1}) = Cardinality(A(c)) + 1
      <4> HIDE DEF A
      <4> QED
        BY <2>2, <2>4, FS_AddElement
    <3> QED
      BY <2>3, <2>5, <3>1, <3>2
  <2>6. CASE R[c + 1] # "argument"
    <3>1. A(c + 1) = A(c)
      BY <2>6
    <3> QED
      BY <2>3, <2>6, <3>1
  <2> QED
    BY <2>3, <2>5, <2>6
<1>4. Cardinality(A(0)) = 0
  BY <1>2, FS_EmptySet
<1> HIDE DEF A
<1> QED
  BY <1>1, <1>3, <1>4 DEF R

(* The first argument that takes several values, 0 for none.               *)
OpenPlace(p) == Least({i \in 1..Len(p.arguments) : p.arguments[i].multiple})

(* From there on all values are its.                                       *)
LEMMA ArgumentForIs ==
  ASSUME NEW p \in OptionParsers
  PROVE  /\ \A k : ArgumentFor(p, k) = IF OpenPlace(p) # 0 /\ k > OpenPlace(p) THEN OpenPlace(p) ELSE k
         /\ OpenPlace(p) \in 0..Len(p.arguments)
         /\ OpenPlace(p) # 0 => p.arguments[OpenPlace(p)].multiple
         /\ \A i \in 1..Len(p.arguments) : p.arguments[i].multiple => OpenPlace(p) # 0 /\ OpenPlace(p) <= i
<1>1. Len(p.arguments) \in Nat
  BY ParserFields
<1> DEFINE I == {i \in 1..Len(p.arguments) : p.arguments[i].multiple}
<1>2. I \subseteq 1..Len(p.arguments)
  OBVIOUS
<1>3. /\ Least(I) \in 0..Len(p.arguments)
      /\ Least(I) # 0 => Least(I) \in I
      /\ \A j \in I : Least(I) # 0 /\ Least(I) <= j
  <2> HIDE DEF I
  <2> QED
    BY <1>1, <1>2, LeastFacts
<1>4. \A k : ArgumentFor(p, k) = IF OpenPlace(p) # 0 /\ k > OpenPlace(p) THEN OpenPlace(p) ELSE k
  BY DEF ArgumentFor, SelectInSeq, OpenPlace, Least
<1> QED
  BY <1>3, <1>4 DEF OpenPlace

NextWord(W, i) == IF i < Len(W) THEN W[i + 1] ELSE NotString

(* The calls of a word, by its role.                                       *)
LEMMA CallsByRole ==
  ASSUME NEW p, NEW W, NEW i
  PROVE  CallsAt(p, W, i) =
           IF Roles(p, W)[i] = "option" THEN OptionCalls(p, W[i], NextWord(W, i))
           ELSE IF Roles(p, W)[i] = "argument"
             THEN <<ArgumentCall(p, ArgumentFor(p, Positionals(p, W, i)), W[i])>>
           ELSE <<>>
<1> DEFINE role == Roles(p, W)[i]
<1>1. CASE role = "option"
  BY <1>1 DEF CallsAt, WordCalls, NextWord
<1>2. CASE role = "argument"
  BY <1>2 DEF CallsAt, WordCalls, Positionals
<1>3. CASE role # "option" /\ role # "argument"
  BY <1>3 DEF CallsAt, WordCalls
<1> QED
  BY <1>1, <1>2, <1>3

(* They are calls.                                                         *)
LEMMA CallsTyped ==
  ASSUME NEW p \in OptionParsers, NEW W \in Seq(ParsedWords), NEW i \in 1..Len(W)
  PROVE  CallsAt(p, W, i) \in Seq(CallSet) /\ W[i] \in ParsedWords /\ NextWord(W, i) \in ParsedWords
<1>1. Len(W) \in Nat /\ W[i] \in ParsedWords
  BY LenProperties, ElementOfSeq
<1>2. NextWord(W, i) \in ParsedWords
  <2>1. i < Len(W) => i + 1 \in 1..Len(W)
    BY <1>1
  <2>2. i < Len(W) => W[i + 1] \in ParsedWords
    BY <2>1, ElementOfSeq
  <2> QED
    BY <2>2 DEF NextWord, ParsedWords
<1>3. CASE Roles(p, W)[i] = "option"
  <2>1. OptionCalls(p, W[i], NextWord(W, i)) \in Seq(CallSet)
    BY <1>1, <1>2, LetterCalls, WordOptionCalls
  <2> QED
    BY <1>1, <1>2, <1>3, <2>1, CallsByRole
<1>4. CASE Roles(p, W)[i] = "argument"
  <2>1. Positionals(p, W, i) \in Nat
    <3>1. i \in Nat
      BY <1>1
    <3> QED
      BY <3>1, PositionalsCount
  <2>2. ArgumentFor(p, Positionals(p, W, i)) \in Nat
    BY <2>1, ArgumentForIs, ParserFields
  <2> DEFINE a == ArgumentCall(p, ArgumentFor(p, Positionals(p, W, i)), W[i])
  <2>3. a \in CallSet
    BY <1>1, <2>2, CallTyped
  <2>4. CallsAt(p, W, i) = <<a>>
    BY <1>4, CallsByRole
  <2> HIDE DEF a
  <2> QED
    BY <1>1, <1>2, <2>3, <2>4
<1>5. CASE Roles(p, W)[i] # "option" /\ Roles(p, W)[i] # "argument"
  <2>1. CallsAt(p, W, i) = <<>>
    BY <1>5, CallsByRole
  <2> QED
    BY <1>1, <1>2, <2>1, EmptySeq
<1> QED
  BY <1>3, <1>4, <1>5

-----------------------------------------------------------------------------
(* What is said by the first words of a line.                              *)

(* The calls of the words, up to one.                                      *)
SaidParts(p, W, c) == [i \in 1..c |-> CallsAt(p, W, i)]

(* They are sequences of calls.                                            *)
LEMMA SaidPartsTyped ==
  ASSUME NEW p \in OptionParsers, NEW W \in Seq(ParsedWords), NEW c \in Nat, c <= Len(W)
  PROVE  /\ SaidParts(p, W, c) \in Seq(Seq(CallSet)) /\ Len(SaidParts(p, W, c)) = c
         /\ \A i \in 1..c : SaidParts(p, W, c)[i] = CallsAt(p, W, i)
<1>1. \A i \in 1..c : i \in 1..Len(W)
  BY LenProperties
<1>2. \A i \in 1..c : CallsAt(p, W, i) \in Seq(CallSet)
  BY <1>1, CallsTyped
<1> HIDE DEF CallsAt
<1> QED
  BY <1>2 DEF SaidParts

(* Nothing before the first word; then each word's calls behind.           *)
LEMMA SaidNext ==
  ASSUME NEW p \in OptionParsers, NEW W \in Seq(ParsedWords)
  PROVE  /\ Said(p, W, 0) = <<>>
         /\ \A c \in Nat : c <= Len(W) => Said(p, W, c) \in Seq(CallSet)
         /\ \A c \in Nat : c + 1 <= Len(W) => Said(p, W, c + 1) = Said(p, W, c) \o CallsAt(p, W, c + 1)
<1>0. \A c : Said(p, W, c) = FlattenSeq(SaidParts(p, W, c))
  BY DEF Said, SaidParts
<1>00. Len(W) \in Nat
  BY LenProperties
<1>1. Said(p, W, 0) = <<>>
  <2>1. SaidParts(p, W, 0) \in Seq(Seq(CallSet)) /\ Len(SaidParts(p, W, 0)) = 0
    <3>1. 0 \in Nat /\ 0 <= Len(W)
      BY <1>00
    <3> QED
      BY <3>1, SaidPartsTyped
  <2>2. SaidParts(p, W, 0) = <<>>
    BY <2>1, EmptySeq
  <2> QED
    BY <1>0, <2>2, FlattenNone
<1>2. ASSUME NEW c \in Nat, c <= Len(W) PROVE Said(p, W, c) \in Seq(CallSet)
  <2>1. SaidParts(p, W, c) \in Seq(Seq(CallSet))
    BY <1>2, SaidPartsTyped
  <2>2. FlattenSeq(SaidParts(p, W, c)) \in Seq(CallSet)
    BY <2>1, FlattenType
  <2> QED
    BY <1>0, <2>2
<1>3. ASSUME NEW c \in Nat, c + 1 <= Len(W) PROVE Said(p, W, c + 1) = Said(p, W, c) \o CallsAt(p, W, c + 1)
  <2> DEFINE s == SaidParts(p, W, c + 1)
             r == SaidParts(p, W, c)
             E == Seq(CallSet)
  <2>0. c + 1 \in Nat /\ c <= Len(W) /\ c + 1 \in 1..(c + 1)
    BY <1>3, <1>00
  <2>1. s \in Seq(E) /\ Len(s) = c + 1 /\ \A i \in 1..(c + 1) : s[i] = CallsAt(p, W, i)
    BY <1>3, <2>0, SaidPartsTyped
  <2>2. r \in Seq(E) /\ Len(r) = c /\ \A i \in 1..c : r[i] = CallsAt(p, W, i)
    BY <2>0, SaidPartsTyped
  <2> HIDE DEF s, r
  <2>3. s # <<>>
    <3>1. Len(s) # 0
      BY <2>1
    <3> QED
      BY <3>1, EmptySeq
  <2>4. /\ Front(s) \in Seq(E) /\ Len(Front(s)) = Len(s) - 1
        /\ \A i \in 1..(Len(s) - 1) : Front(s)[i] = s[i]
        /\ FlattenSeq(s) = FlattenSeq(Front(s)) \o s[Len(s)]
    BY <2>1, <2>3, FlattenLast
  <2>5. Front(s) = r
    <3>1. Len(Front(s)) = Len(r) /\ Len(s) - 1 = c
      BY <2>1, <2>2, <2>4
    <3>2. \A i \in 1..Len(Front(s)) : Front(s)[i] = r[i]
      <4>1. \A i \in 1..c : i \in 1..(c + 1)
        OBVIOUS
      <4> QED
        BY <2>1, <2>2, <2>4, <3>1, <4>1
    <3> HIDE DEF E
    <3> QED
      BY <2>2, <2>4, <3>1, <3>2, SeqEqual
  <2>6. s[Len(s)] = CallsAt(p, W, c + 1)
    BY <2>0, <2>1
  <2>7. FlattenSeq(s) = FlattenSeq(r) \o CallsAt(p, W, c + 1)
    BY <2>4, <2>5, <2>6
  <2> QED
    BY <1>0, <2>7 DEF s, r
<1> QED
  BY <1>1, <1>2, <1>3

(* A call is said by a word.                                               *)
LEMMA SaidElements ==
  ASSUME NEW p \in OptionParsers, NEW W \in Seq(ParsedWords), NEW c \in Nat, c <= Len(W)
  PROVE  \A x : x \in ToSet(Said(p, W, c)) <=> \E i \in 1..c : x \in ToSet(CallsAt(p, W, i))
<1>1. /\ SaidParts(p, W, c) \in Seq(Seq(CallSet)) /\ Len(SaidParts(p, W, c)) = c
      /\ \A i \in 1..c : SaidParts(p, W, c)[i] = CallsAt(p, W, i)
  BY SaidPartsTyped
<1>2. \A x : x \in ToSet(FlattenSeq(SaidParts(p, W, c)))
               <=> \E i \in 1..Len(SaidParts(p, W, c)) : x \in ToSet(SaidParts(p, W, c)[i])
  BY <1>1, FlattenElements
<1>3. Said(p, W, c) = FlattenSeq(SaidParts(p, W, c))
  BY DEF Said, SaidParts
<1> QED
  BY <1>1, <1>2, <1>3

(* What is said by more words goes on.                                     *)
LEMMA SaidGoesOn ==
  ASSUME NEW p \in OptionParsers, NEW W \in Seq(ParsedWords), NEW c \in Nat, NEW d \in Nat, c <= d, d <= Len(W)
  PROVE  \E x \in Seq(CallSet) : Said(p, W, d) = Said(p, W, c) \o x
<1> DEFINE T == {m \in Nat : c <= m /\ m <= Len(W) /\ ~ \E x \in Seq(CallSet) : Said(p, W, m) = Said(p, W, c) \o x}
<1>1. SUFFICES ASSUME T # {} PROVE FALSE
  OBVIOUS
<1>2. PICK m \in T : \A k \in T : m <= k
  BY <1>1, LeastNatural
<1>3. Len(W) \in Nat /\ Said(p, W, c) \in Seq(CallSet)
  <2>1. Len(W) \in Nat /\ c <= Len(W)
    BY LenProperties
  <2> QED
    BY <2>1, SaidNext
<1>4. CASE m = c
  <2>1. Said(p, W, c) \o <<>> = Said(p, W, c) /\ <<>> \in Seq(CallSet)
    BY <1>3, ConcatEmptySeq, EmptySeq
  <2> QED
    BY <1>2, <1>4, <2>1
<1>5. CASE m # c
  <2>1. m - 1 \in Nat /\ c <= m - 1 /\ m - 1 <= Len(W) /\ m - 1 \notin T /\ (m - 1) + 1 = m /\ m \in 1..Len(W)
    <3>1. m \in Nat /\ c <= m /\ m <= Len(W) /\ \A k \in T : m <= k
      BY <1>2
    <3> DEFINE n == Len(W)
    <3>2. n \in Nat /\ m <= n
      BY <1>3, <3>1
    <3> HIDE DEF T, n
    <3>3. m - 1 \in Nat /\ c <= m - 1 /\ m - 1 <= n /\ ~(m <= m - 1) /\ (m - 1) + 1 = m /\ m \in 1..n
      BY <1>5, <3>1, <3>2
    <3> QED
      BY <3>1, <3>3 DEF n
  <2>2. PICK x \in Seq(CallSet) : Said(p, W, m - 1) = Said(p, W, c) \o x
    BY <2>1
  <2>3. Said(p, W, m) = Said(p, W, m - 1) \o CallsAt(p, W, m)
    BY <1>2, <2>1, SaidNext
  <2>4. CallsAt(p, W, m) \in Seq(CallSet)
    BY <2>1, CallsTyped
  <2>5. (Said(p, W, c) \o x) \o CallsAt(p, W, m) = Said(p, W, c) \o (x \o CallsAt(p, W, m))
    BY <1>3, <2>4, ConcatAssociative
  <2>6. x \o CallsAt(p, W, m) \in Seq(CallSet)
    BY <2>4, ConcatProperties
  <2> QED
    BY <1>2, <2>2, <2>3, <2>5, <2>6
<1> QED
  BY <1>4, <1>5

-----------------------------------------------------------------------------
(* Options and arguments that are added do not change what was said.       *)

(* A name that is found is found in the same place.                        *)
LEMMA FoundStays ==
  ASSUME NEW p \in OptionParsers, NEW r \in OptionParsers, OptionsGrown(p, r)
  PROVE  /\ \A c : FindShort(p, c) # 0 => FindShort(r, c) = FindShort(p, c)
         /\ \A c : FindLong(p, c) # 0 => FindLong(r, c) = FindLong(p, c)
         /\ \A i \in 1..Len(p.options) : r.options[i] = p.options[i] /\ i \in 1..Len(r.options)
<1>1. /\ Len(p.options) \in Nat /\ Len(r.options) \in Nat /\ Len(p.options) <= Len(r.options)
      /\ \A i \in 1..Len(p.options) : r.options[i] = p.options[i]
  BY ParserFields DEF OptionsGrown, Longer
<1> DEFINE n == Len(p.options)
           m == Len(r.options)
<1>2. n \in Nat /\ m \in Nat /\ n <= m
  BY <1>1
<1>3. ASSUME NEW c, FindShort(p, c) # 0 PROVE FindShort(r, c) = FindShort(p, c)
  <2> DEFINE I == {i \in 1..n : p.options[i].short = c}
             J == {i \in 1..m : r.options[i].short = c}
  <2>1. FindShort(p, c) = Least(I) /\ FindShort(r, c) = Least(J)
    BY Searches
  <2>2. I \subseteq 1..n /\ J \subseteq 1..m
    OBVIOUS
  <2>3. \A j \in 1..n : j \in J <=> j \in I
    BY <1>1
  <2> HIDE DEF I, J, n, m
  <2>4. Least(J) = Least(I) \/ (Least(I) = 0 /\ Least(J) > n)
    BY <1>2, <2>2, <2>3, LeastStays
  <2> QED
    BY <1>3, <2>1, <2>4
<1>4. ASSUME NEW c, FindLong(p, c) # 0 PROVE FindLong(r, c) = FindLong(p, c)
  <2> DEFINE I == {i \in 1..n : p.options[i].long = c}
             J == {i \in 1..m : r.options[i].long = c}
  <2>1. FindLong(p, c) = Least(I) /\ FindLong(r, c) = Least(J)
    BY Searches
  <2>2. I \subseteq 1..n /\ J \subseteq 1..m
    OBVIOUS
  <2>3. \A j \in 1..n : j \in J <=> j \in I
    BY <1>1
  <2> HIDE DEF I, J, n, m
  <2>4. Least(J) = Least(I) \/ (Least(I) = 0 /\ Least(J) > n)
    BY <1>2, <2>2, <2>3, LeastStays
  <2> QED
    BY <1>4, <2>1, <2>4
<1> QED
  BY <1>1, <1>3, <1>4

(* So is its call, and it is a flag or not as before.                      *)
LEMMA CallStays ==
  ASSUME NEW p \in OptionParsers, NEW r \in OptionParsers, OptionsGrown(p, r)
  PROVE  /\ \A c : FindShort(p, c) # 0 => (Flag(r, c) <=> Flag(p, c))
         /\ \A c : Flag(p, c) => Flag(r, c)
         /\ \A i \in 1..Len(p.options) : \A v : CallOf(r, i, v) = CallOf(p, i, v)
<1>1. \A i \in 1..Len(p.options) : r.options[i] = p.options[i]
  BY FoundStays
<1>2. \A c : FindShort(p, c) # 0 => FindShort(r, c) = FindShort(p, c) /\ FindShort(p, c) \in 1..Len(p.options)
  <2>1. \A c : FindShort(p, c) \in 0..Len(p.options)
    BY FindRange
  <2>2. Len(p.options) \in Nat
    BY ParserFields
  <2> QED
    BY <2>1, <2>2, FoundStays
<1>3. \A i \in 1..Len(p.options) : \A v : CallOf(r, i, v) = CallOf(p, i, v)
  BY <1>1 DEF CallOf
<1>4. \A c : FindShort(p, c) # 0 => (Flag(r, c) <=> Flag(p, c))
  BY <1>1, <1>2 DEF Flag
<1>5. \A c : Flag(p, c) => FindShort(p, c) # 0
  BY DEF Flag
<1> QED
  BY <1>3, <1>4, <1>5

(* Nothing is no option.                                                   *)
LEMMA NoCall == \A p, v : CallOf(p, 0, v) = Unknown
BY DEF CallOf

(* An argument that is taken is the same one.                              *)
LEMMA ArgumentStays ==
  ASSUME NEW p \in OptionParsers, NEW r \in OptionParsers, OptionsGrown(p, r), NEW k \in Nat,
         ArgumentFor(p, k) \in 1..Len(p.arguments)
  PROVE  ArgumentFor(r, k) = ArgumentFor(p, k)
<1>1. /\ Len(p.arguments) \in Nat /\ Len(r.arguments) \in Nat /\ Len(p.arguments) <= Len(r.arguments)
      /\ \A i \in 1..Len(p.arguments) : r.arguments[i] = p.arguments[i]
  BY ParserFields DEF OptionsGrown, Longer
<1> DEFINE n == Len(p.arguments)
           m == Len(r.arguments)
           I == {i \in 1..n : p.arguments[i].multiple}
           J == {i \in 1..m : r.arguments[i].multiple}
<1>2. n \in Nat /\ m \in Nat /\ n <= m /\ I \subseteq 1..n /\ J \subseteq 1..m
  BY <1>1
<1>3. \A j \in 1..n : j \in J <=> j \in I
  BY <1>1
<1>4. OpenPlace(p) = Least(I) /\ OpenPlace(r) = Least(J)
  BY DEF OpenPlace
<1>5. OpenPlace(r) = OpenPlace(p) \/ (OpenPlace(p) = 0 /\ OpenPlace(r) > n)
  <2> HIDE DEF I, J, n, m
  <2>1. Least(J) = Least(I) \/ (Least(I) = 0 /\ Least(J) > n)
    BY <1>2, <1>3, LeastStays
  <2> QED
    BY <1>4, <2>1
<1>6. /\ ArgumentFor(p, k) = IF OpenPlace(p) # 0 /\ k > OpenPlace(p) THEN OpenPlace(p) ELSE k
      /\ ArgumentFor(r, k) = IF OpenPlace(r) # 0 /\ k > OpenPlace(r) THEN OpenPlace(r) ELSE k
      /\ OpenPlace(r) \in Nat
  BY ArgumentForIs, <1>1
<1>7. ArgumentFor(p, k) <= n
  OBVIOUS
<1> HIDE DEF n, m, I, J
<1> QED
  BY <1>2, <1>5, <1>6, <1>7

(* The calls of an option that is understood, and what it wants.           *)
LEMMA OptionStays ==
  ASSUME NEW p \in OptionParsers, NEW r \in OptionParsers, OptionsGrown(p, r),
         NEW w \in ParsedWords, NEW next \in ParsedWords, Unknown \notin ToSet(OptionCalls(p, w, next))
  PROVE  OptionCalls(r, w, next) = OptionCalls(p, w, next) /\ (WantsNext(r, w) <=> WantsNext(p, w))
<1>1. CASE w.is = "short"
  <2>1. w.text \in Seq(STRING) /\ w.text # <<>> /\ Len(w.text) \in Nat \ {0}
    BY <1>1, WordFacts, EmptySeq, LenProperties
  <2>2. /\ OptionCalls(p, w, next) \in Seq(CallSet)
        /\ CallingLetters(p, w) \in 1..Len(w.text)
        /\ Len(OptionCalls(p, w, next)) = CallingLetters(p, w)
        /\ \A k \in 1..CallingLetters(p, w) :
             OptionCalls(p, w, next)[k] = CallOf(p, FindShort(p, w.text[k]), LetterValue(p, w, next, k))
    BY <1>1, LetterCalls
  <2>3. /\ OptionCalls(r, w, next) \in Seq(CallSet)
        /\ CallingLetters(r, w) \in 1..Len(w.text)
        /\ Len(OptionCalls(r, w, next)) = CallingLetters(r, w)
        /\ \A k \in 1..CallingLetters(r, w) :
             OptionCalls(r, w, next)[k] = CallOf(r, FindShort(r, w.text[k]), LetterValue(r, w, next, k))
    BY <1>1, LetterCalls
  <2>4. \A k \in 1..CallingLetters(p, w) : FindShort(p, w.text[k]) # 0
    <3> SUFFICES ASSUME NEW k \in 1..CallingLetters(p, w), FindShort(p, w.text[k]) = 0 PROVE FALSE
      OBVIOUS
    <3>1. OptionCalls(p, w, next)[k] = Unknown
      BY <2>2, NoCall
    <3>2. k \in DOMAIN OptionCalls(p, w, next)
      BY <2>2, LenProperties
    <3> QED
      BY <3>1, <3>2 DEF ToSet
  <2>5. \A k \in 1..CallingLetters(p, w) :
          /\ FindShort(r, w.text[k]) = FindShort(p, w.text[k])
          /\ Flag(r, w.text[k]) <=> Flag(p, w.text[k])
          /\ FindShort(p, w.text[k]) \in 1..Len(p.options)
    <3>1. \A c : FindShort(p, c) \in 0..Len(p.options)
      BY FindRange
    <3>2. \A c : FindShort(p, c) # 0 => FindShort(p, c) \in 1..Len(p.options)
      BY <3>1
    <3> QED
      BY <2>4, <3>2, FoundStays, CallStays
  <2>6. /\ FirstSpecial(p, w) \in 0..Len(w.text)
        /\ FirstSpecial(p, w) # 0 => ~Flag(p, w.text[FirstSpecial(p, w)])
        /\ \A j \in 1..Len(w.text) : ~Flag(p, w.text[j]) => FirstSpecial(p, w) # 0 /\ FirstSpecial(p, w) <= j
        /\ FirstSpecial(r, w) \in 0..Len(w.text)
        /\ FirstSpecial(r, w) # 0 => ~Flag(r, w.text[FirstSpecial(r, w)])
        /\ \A j \in 1..Len(w.text) : ~Flag(r, w.text[j]) => FirstSpecial(r, w) # 0 /\ FirstSpecial(r, w) <= j
    BY <2>1, SpecialPlace
  <2>7. FirstSpecial(r, w) = FirstSpecial(p, w)
    <3>1. CASE FirstSpecial(p, w) = 0
      <4>1. CallingLetters(p, w) = Len(w.text)
        BY <3>1 DEF CallingLetters
      <4>2. \A j \in 1..Len(w.text) : Flag(r, w.text[j])
        BY <2>5, <2>6, <3>1, <4>1
      <4>3. ~(FirstSpecial(r, w) \in 1..Len(w.text))
        BY <2>6, <4>2
      <4> QED
        BY <2>1, <2>6, <3>1, <4>3
    <3>2. CASE FirstSpecial(p, w) # 0
      <4>1. CallingLetters(p, w) = FirstSpecial(p, w) /\ FirstSpecial(p, w) \in 1..Len(w.text)
        BY <2>1, <2>6, <3>2 DEF CallingLetters
      <4>2. FirstSpecial(p, w) \in 1..CallingLetters(p, w)
        BY <4>1
      <4>3. FirstSpecial(r, w) # 0 /\ FirstSpecial(r, w) <= FirstSpecial(p, w)
        BY <2>5, <2>6, <3>2, <4>1, <4>2
      <4>4. FirstSpecial(r, w) \in 1..CallingLetters(p, w) /\ FirstSpecial(r, w) \in 1..Len(w.text)
        BY <2>6, <4>1, <4>3
      <4>5. ~Flag(p, w.text[FirstSpecial(r, w)])
        BY <2>5, <2>6, <4>3, <4>4
      <4>6. FirstSpecial(p, w) <= FirstSpecial(r, w)
        BY <2>6, <4>4, <4>5
      <4> QED
        BY <4>1, <4>3, <4>4, <4>6
    <3> QED
      BY <3>1, <3>2
  <2>8. CallingLetters(r, w) = CallingLetters(p, w)
    BY <2>7 DEF CallingLetters
  <2>9. \A k : LetterValue(r, w, next, k) = LetterValue(p, w, next, k)
    BY <2>7 DEF LetterValue
  <2>10. \A k \in 1..CallingLetters(p, w) : OptionCalls(r, w, next)[k] = OptionCalls(p, w, next)[k]
    BY <2>2, <2>3, <2>5, <2>8, <2>9, CallStays
  <2>11. OptionCalls(r, w, next) = OptionCalls(p, w, next)
    BY <2>2, <2>3, <2>8, <2>10, SeqEqual
  <2>12. WantsNext(r, w) <=> WantsNext(p, w)
    <3>1. \A s : WantsNext(s, w) <=> FirstSpecial(s, w) = Len(w.text) /\ FindShort(s, w.text[FirstSpecial(s, w)]) # 0
      BY <1>1 DEF WantsNext
    <3>2. FirstSpecial(p, w) = Len(w.text) => FirstSpecial(p, w) \in 1..CallingLetters(p, w)
      BY <2>1 DEF CallingLetters
    <3> QED
      BY <2>5, <2>7, <3>1, <3>2
  <2> QED
    BY <2>11, <2>12
<1>2. CASE w.is # "short"
  <2> DEFINE a(s) == CASE w.is = "long" -> CallOf(s, FindLong(s, w.name), IF WantsNext(s, w) THEN next ELSE NoValue)
                       [] w.is = "valued" -> CallOf(s, FindLong(s, w.name), Plain(w.text))
                       [] OTHER -> Unknown
  <2>1. OptionCalls(p, w, next) = <<a(p)>> /\ OptionCalls(r, w, next) = <<a(r)>>
    BY <1>2, WordOptionCalls
  <2>2. a(p) # Unknown
    <3> HIDE DEF a
    <3> QED
      BY <2>1 DEF ToSet
  <2>3. w.is \in {"long", "valued"}
    BY <2>2
  <2>4. FindLong(p, w.name) # 0
    BY <2>2, <2>3, NoCall
  <2>5. FindLong(r, w.name) = FindLong(p, w.name) /\ FindLong(p, w.name) \in 1..Len(p.options)
    <3>1. FindLong(p, w.name) \in 0..Len(p.options)
      BY FindRange
    <3> QED
      BY <2>4, <3>1, FoundStays
  <2>6. r.options[FindLong(p, w.name)] = p.options[FindLong(p, w.name)]
    BY <2>5, FoundStays
  <2>7. WantsNext(r, w) <=> WantsNext(p, w)
    <3>1. w.is = "long" => \A s : WantsNext(s, w) <=> FindLong(s, w.name) # 0 /\ s.options[FindLong(s, w.name)].takes
      BY DEF WantsNext
    <3>2. w.is = "valued" => \A s : ~WantsNext(s, w)
      BY DEF WantsNext
    <3> QED
      BY <2>3, <2>5, <2>6, <3>1, <3>2
  <2>8. a(r) = a(p)
    <3>1. \A v : CallOf(r, FindLong(p, w.name), v) = CallOf(p, FindLong(p, w.name), v)
      BY <2>5, CallStays
    <3> QED
      BY <2>3, <2>5, <2>7, <3>1
  <2> QED
    BY <2>1, <2>7, <2>8
<1> QED
  BY <1>1, <1>2

(* A value that is taken has an argument.                                  *)
LEMMA ArgumentKnown ==
  ASSUME NEW p \in OptionParsers, NEW k \in Nat, k # 0, NEW w,
         ArgumentCall(p, ArgumentFor(p, k), w) # Unknown
  PROVE  /\ ArgumentFor(p, k) \in 1..Len(p.arguments) /\ w # NotString
         /\ Accepts(p.arguments[ArgumentFor(p, k)].does, w)
         /\ ArgumentCall(p, ArgumentFor(p, k), w) = [who |-> <<"argument", ArgumentFor(p, k)>>, value |-> w]
<1> DEFINE a == ArgumentFor(p, k)
           o == OpenPlace(p)
           n == Len(p.arguments)
<1>1. n \in Nat /\ a = (IF o # 0 /\ k > o THEN o ELSE k) /\ o \in 0..n
  BY ArgumentForIs, ParserFields
<1>2. ~(a > n) /\ w # NotString /\ Accepts(p.arguments[a].does, w)
      /\ ArgumentCall(p, a, w) = [who |-> <<"argument", a>>, value |-> w]
  BY DEF ArgumentCall
<1> SUFFICES a \in 1..n
  BY <1>2
<1>3. ~(a > n)
  BY <1>2
<1> HIDE DEF a, o, n
<1> QED
  BY <1>1, <1>3

(* The value is taken by the same argument of a parser that has grown.     *)
LEMMA ArgumentCallStays ==
  ASSUME NEW p \in OptionParsers, NEW r \in OptionParsers, OptionsGrown(p, r), NEW k \in Nat, k # 0, NEW w,
         ArgumentCall(p, ArgumentFor(p, k), w) # Unknown
  PROVE  ArgumentCall(r, ArgumentFor(r, k), w) = ArgumentCall(p, ArgumentFor(p, k), w)
<1> DEFINE a == ArgumentFor(p, k)
<1>1. a \in 1..Len(p.arguments) /\ w # NotString /\ Accepts(p.arguments[a].does, w)
      /\ ArgumentCall(p, a, w) = [who |-> <<"argument", a>>, value |-> w]
  BY ArgumentKnown
<1>2. ArgumentFor(r, k) = a
  BY <1>1, ArgumentStays
<1>3. r.arguments[a] = p.arguments[a] /\ ~(a > Len(r.arguments))
  <2>1. /\ Len(p.arguments) \in Nat /\ Len(r.arguments) \in Nat /\ Len(p.arguments) <= Len(r.arguments)
        /\ \A i \in 1..Len(p.arguments) : r.arguments[i] = p.arguments[i]
    BY ParserFields DEF OptionsGrown, Longer
  <2>2. r.arguments[a] = p.arguments[a]
    BY <1>1, <2>1
  <2>3. a \in 1..Len(p.arguments)
    BY <1>1
  <2> DEFINE n == Len(p.arguments)
             m == Len(r.arguments)
  <2>4. n \in Nat /\ m \in Nat /\ n <= m /\ a \in 1..n
    BY <2>1, <2>3
  <2>5. ~(a > m)
    <3> HIDE DEF a, n, m
    <3> QED
      BY <2>4
  <2> QED
    BY <2>2, <2>5
<1> HIDE DEF a
<1>4. ArgumentCall(r, a, w) = [who |-> <<"argument", a>>, value |-> w]
  BY <1>1, <1>3 DEF ArgumentCall
<1> QED
  BY <1>1, <1>2, <1>4 DEF a

(* A word among the arguments is counted.                                  *)
LEMMA CountedArgument ==
  ASSUME NEW p, NEW W, NEW i \in Nat, i # 0, Roles(p, W)[i] = "argument"
  PROVE  Positionals(p, W, i) \in Nat /\ Positionals(p, W, i) # 0
<1>1. i - 1 \in Nat /\ (i - 1) + 1 = i
  OBVIOUS
<1>2. Positionals(p, W, i - 1) \in Nat /\ Positionals(p, W, i) = Positionals(p, W, i - 1) + 1
  <2>1. Positionals(p, W, (i - 1) + 1) = Positionals(p, W, i - 1) + (IF Roles(p, W)[(i - 1) + 1] = "argument" THEN 1 ELSE 0)
        /\ Positionals(p, W, i - 1) \in Nat
    BY <1>1, PositionalsCount
  <2> QED
    BY <1>1, <2>1
<1> QED
  BY <1>2

(* What words up to one mean, as far as it was understood, they mean when  *)
(* the parser has grown.                                                   *)
WordStays(p, r, W, i) ==
  /\ Roles(r, W)[i] = Roles(p, W)[i]
  /\ CallsAt(r, W, i) = CallsAt(p, W, i)
  /\ Wants(r, W, i) <=> Wants(p, W, i)

(* The words before one fix its role.                                      *)
LEMMA RoleStays ==
  ASSUME NEW p \in OptionParsers, NEW r \in OptionParsers, OptionsGrown(p, r), NEW W \in Seq(ParsedWords),
         NEW i \in 1..Len(W), \A j \in 1..(i - 1) : WordStays(p, r, W, j)
  PROVE  /\ Roles(r, W)[i] = Roles(p, W)[i]
         /\ Closed(r, W, i - 1) <=> Closed(p, W, i - 1)
<1>1. Len(W) \in Nat /\ i \in Nat /\ (i > 1 => i - 1 \in 1..(i - 1))
  BY LenProperties
<1>2. \A j \in 1..(i - 1) : Roles(r, W)[j] = Roles(p, W)[j]
  BY DEF WordStays
<1>3. r.strict = p.strict
  BY DEF OptionsGrown
<1>4. Closed(r, W, i - 1) <=> Closed(p, W, i - 1)
  BY <1>2, <1>3 DEF Closed
<1>5. i > 1 => (Wants(r, W, i - 1) <=> Wants(p, W, i - 1))
  BY <1>1 DEF WordStays
<1>6. Roles(r, W)[i] = (IF i > 1 /\ Wants(r, W, i - 1) THEN "value" ELSE IF Closed(r, W, i - 1) THEN "argument" ELSE OwnRole(W[i]))
  BY <1>1, RoleIs
<1>7. Roles(p, W)[i] = (IF i > 1 /\ Wants(p, W, i - 1) THEN "value" ELSE IF Closed(p, W, i - 1) THEN "argument" ELSE OwnRole(W[i]))
  BY <1>1, RoleIs
<1> QED
  BY <1>4, <1>5, <1>6, <1>7

(* The same words are arguments.                                           *)
LEMMA PositionalsStay ==
  ASSUME NEW p, NEW r, NEW W, NEW c \in Nat, \A j \in 1..c : Roles(r, W)[j] = Roles(p, W)[j]
  PROVE  Positionals(r, W, c) = Positionals(p, W, c)
<1>1. {j \in 1..c : Roles(r, W)[j] = "argument"} = {j \in 1..c : Roles(p, W)[j] = "argument"}
  OBVIOUS
<1> QED
  BY <1>1 DEF Positionals

(* One word more.                                                          *)
LEMMA OneWordStays ==
  ASSUME NEW p \in OptionParsers, NEW r \in OptionParsers, OptionsGrown(p, r), NEW W \in Seq(ParsedWords),
         NEW i \in 1..Len(W), \A j \in 1..(i - 1) : WordStays(p, r, W, j),
         Unknown \notin ToSet(CallsAt(p, W, i))
  PROVE  WordStays(p, r, W, i)
<1>1. Roles(r, W)[i] = Roles(p, W)[i] /\ i \in Nat /\ i # 0
  BY RoleStays, LenProperties
<1>2. W[i] \in ParsedWords /\ NextWord(W, i) \in ParsedWords
  BY CallsTyped
<1>3. CASE Roles(p, W)[i] = "option"
  <2>1. CallsAt(p, W, i) = OptionCalls(p, W[i], NextWord(W, i)) /\ CallsAt(r, W, i) = OptionCalls(r, W[i], NextWord(W, i))
    BY <1>1, <1>3, CallsByRole
  <2>2. OptionCalls(r, W[i], NextWord(W, i)) = OptionCalls(p, W[i], NextWord(W, i))
        /\ (WantsNext(r, W[i]) <=> WantsNext(p, W[i]))
    BY <1>2, <2>1, OptionStays
  <2> QED
    BY <1>1, <2>1, <2>2 DEF WordStays, Wants
<1>4. CASE Roles(p, W)[i] = "argument"
  <2> DEFINE n == Positionals(p, W, i)
  <2>1. Positionals(r, W, i) = n
    <3>1. \A j \in 1..i : j = i \/ j \in 1..(i - 1)
      BY <1>1
    <3>2. \A j \in 1..i : Roles(r, W)[j] = Roles(p, W)[j]
      BY <1>1, <3>1 DEF WordStays
    <3> QED
      BY <1>1, <3>2, PositionalsStay
  <2>2. n \in Nat /\ n # 0
    BY <1>1, <1>4, CountedArgument
  <2>3. /\ CallsAt(p, W, i) = <<ArgumentCall(p, ArgumentFor(p, n), W[i])>>
        /\ CallsAt(r, W, i) = <<ArgumentCall(r, ArgumentFor(r, n), W[i])>>
    BY <1>1, <1>4, <2>1, CallsByRole
  <2>4. ArgumentCall(p, ArgumentFor(p, n), W[i]) # Unknown
    BY <2>3 DEF ToSet
  <2>5. ArgumentCall(r, ArgumentFor(r, n), W[i]) = ArgumentCall(p, ArgumentFor(p, n), W[i])
    <3> HIDE DEF n
    <3> QED
      BY <2>2, <2>4, ArgumentCallStays
  <2>6. ~Wants(r, W, i) /\ ~Wants(p, W, i)
    BY <1>1, <1>4 DEF Wants
  <2> QED
    BY <1>1, <2>3, <2>5, <2>6 DEF WordStays
<1>5. CASE Roles(p, W)[i] # "option" /\ Roles(p, W)[i] # "argument"
  <2>1. CallsAt(p, W, i) = <<>> /\ CallsAt(r, W, i) = <<>>
    BY <1>1, <1>5, CallsByRole
  <2>2. ~Wants(r, W, i) /\ ~Wants(p, W, i)
    BY <1>1, <1>5 DEF Wants
  <2> QED
    BY <1>1, <2>1, <2>2 DEF WordStays
<1> QED
  BY <1>3, <1>4, <1>5

(* All words that were understood.                                         *)
LEMMA WordsStay ==
  ASSUME NEW p \in OptionParsers, NEW r \in OptionParsers, OptionsGrown(p, r), NEW W \in Seq(ParsedWords),
         NEW c \in Nat, c <= Len(W), Unknown \notin ToSet(Said(p, W, c))
  PROVE  \A i \in 1..c : WordStays(p, r, W, i)
<1> DEFINE T == {i \in 1..c : ~WordStays(p, r, W, i)}
<1>1. SUFFICES ASSUME T # {} PROVE FALSE
  OBVIOUS
<1>2. PICK m \in T : \A k \in T : m <= k
  <2>1. T \subseteq Nat
    OBVIOUS
  <2> HIDE DEF T
  <2> QED
    BY <1>1, <2>1, LeastNatural
<1>3. Len(W) \in Nat /\ m \in 1..c /\ m \in 1..Len(W)
  <2>1. Len(W) \in Nat /\ m \in 1..c
    BY <1>2, LenProperties
  <2> DEFINE n == Len(W)
  <2>2. m \in 1..n
    <3>1. n \in Nat /\ c <= n /\ m \in 1..c
      BY <2>1
    <3> HIDE DEF n, T
    <3> QED
      BY <3>1
  <2> QED
    BY <2>1, <2>2
<1>4. \A j \in 1..(m - 1) : WordStays(p, r, W, j)
  <2> SUFFICES ASSUME NEW j \in 1..(m - 1) PROVE j \notin T /\ j \in 1..c
    OBVIOUS
  <2>1. ~(m <= j) /\ j \in 1..c
    BY <1>3
  <2> QED
    BY <1>2, <2>1
<1>5. Unknown \notin ToSet(CallsAt(p, W, m))
  BY <1>3, SaidElements
<1>6. WordStays(p, r, W, m)
  BY <1>3, <1>4, <1>5, OneWordStays
<1> QED
  BY <1>2, <1>6

(* What was said, and the role of the next word.                           *)
LEMMA SaidStays ==
  ASSUME NEW p \in OptionParsers, NEW r \in OptionParsers, OptionsGrown(p, r), NEW W \in Seq(ParsedWords),
         NEW c \in Nat, c <= Len(W), Unknown \notin ToSet(Said(p, W, c))
  PROVE  /\ Said(r, W, c) = Said(p, W, c)
         /\ \A i \in 1..c : Roles(r, W)[i] = Roles(p, W)[i] /\ (Wants(r, W, i) <=> Wants(p, W, i))
         /\ Closed(r, W, c) <=> Closed(p, W, c)
         /\ Positionals(r, W, c) = Positionals(p, W, c)
         /\ c + 1 <= Len(W) => Roles(r, W)[c + 1] = Roles(p, W)[c + 1]
<1>1. \A i \in 1..c : Roles(r, W)[i] = Roles(p, W)[i] /\ CallsAt(r, W, i) = CallsAt(p, W, i)
                      /\ (Wants(r, W, i) <=> Wants(p, W, i))
  BY WordsStay DEF WordStays
<1>2. Said(r, W, c) = Said(p, W, c)
  <2>1. [i \in 1..c |-> CallsAt(r, W, i)] = [i \in 1..c |-> CallsAt(p, W, i)]
    BY <1>1
  <2> QED
    BY <2>1 DEF Said
<1>3. Positionals(r, W, c) = Positionals(p, W, c)
  BY <1>1, PositionalsStay
<1>4. Closed(r, W, c) <=> Closed(p, W, c)
  <2>1. r.strict = p.strict
    BY DEF OptionsGrown
  <2> QED
    BY <1>1, <2>1 DEF Closed
<1>5. ASSUME c + 1 <= Len(W) PROVE Roles(r, W)[c + 1] = Roles(p, W)[c + 1]
  <2>1. c + 1 \in 1..Len(W) /\ (c + 1) - 1 = c
    <3> DEFINE n == Len(W)
    <3>1. n \in Nat /\ c + 1 <= n
      BY <1>5, LenProperties
    <3> HIDE DEF n
    <3>2. c + 1 \in 1..n /\ (c + 1) - 1 = c
      BY <3>1
    <3> QED
      BY <3>2 DEF n
  <2>2. \A j \in 1..((c + 1) - 1) : WordStays(p, r, W, j)
    BY <2>1, WordsStay
  <2> QED
    BY <2>1, <2>2, RoleStays
<1> QED
  BY <1>1, <1>2, <1>3, <1>4, <1>5

-----------------------------------------------------------------------------
(* What a line means to a parser.                                          *)

(* A line has its words.                                                   *)
LEMMA LineFields ==
  ASSUME NEW line \in CommandLines
  PROVE  line.words \in Seq(ParsedWords) /\ Len(line.words) \in Nat /\ line.tail \in {"nil", "atom"}
         /\ DOMAIN line.words = 1..Len(line.words)
<1>1. line.words \in Seq(ParsedWords) /\ line.tail \in {"nil", "atom"}
  BY DEF CommandLines
<1> QED
  BY <1>1, LenProperties

(* Its meaning is what all its words say, and how it ends.                 *)
LEMMA MeaningIs ==
  ASSUME NEW p \in OptionParsers, NEW line \in CommandLines
  PROVE  /\ Meaning(p, line) = Said(p, line.words, Len(line.words)) \o (IF line.tail = "nil" THEN <<>> ELSE <<Unknown>>)
         /\ Said(p, line.words, Len(line.words)) \in Seq(CallSet)
         /\ Meaning(p, line) \in Seq(CallSet)
         /\ line.tail = "nil" => Meaning(p, line) = Said(p, line.words, Len(line.words))
         /\ \A x : x \in ToSet(Meaning(p, line)) <=>
                     (x \in ToSet(Said(p, line.words, Len(line.words))) \/ (line.tail # "nil" /\ x = Unknown))
<1> DEFINE W == line.words
           s == Said(p, W, Len(W))
           t == IF line.tail = "nil" THEN <<>> ELSE <<Unknown>>
<1>1. W \in Seq(ParsedWords) /\ Len(W) \in Nat /\ DOMAIN W = 1..Len(W)
  BY LineFields
<1>2. s \in Seq(CallSet)
  BY <1>1, SaidNext
<1>3. Unknown \in CallSet
  BY CallTyped
<1>4. t \in Seq(CallSet)
  BY <1>3, EmptySeq
<1>5. Meaning(p, line) = s \o t
  <2>1. [i \in DOMAIN W |-> WordCalls(p, W, Roles(p, W), i)] = [i \in 1..Len(W) |-> CallsAt(p, W, i)]
    BY <1>1 DEF CallsAt
  <2> QED
    BY <2>1 DEF Meaning, Said
<1>6. line.tail = "nil" => s \o t = s
  BY <1>2, ConcatEmptySeq
<1>7. \A x : x \in ToSet(t) <=> (line.tail # "nil" /\ x = Unknown)
  <2>1. CASE line.tail = "nil"
    BY <2>1 DEF ToSet
  <2>2. CASE line.tail # "nil"
    <3>1. t = <<Unknown>>
      BY <2>2
    <3>2. \A x : x \in ToSet(<<Unknown>>) <=> x = Unknown
      BY DEF ToSet
    <3> QED
      BY <2>2, <3>1, <3>2
  <2> QED
    BY <2>1, <2>2
<1> HIDE DEF s, t
<1>8. s \o t \in Seq(CallSet)
  BY <1>2, <1>4, ConcatProperties
<1>9. \A x : x \in ToSet(s \o t) <=> x \in ToSet(s) \/ x \in ToSet(t)
  BY <1>2, <1>4, ElementsOfConcat
<1>10. \A x : x \in ToSet(s \o t) <=> x \in ToSet(s) \/ (line.tail # "nil" /\ x = Unknown)
  BY <1>7, <1>9
<1>11. s \o t \in Seq(CallSet) /\ (line.tail = "nil" => s \o t = s)
  BY <1>6, <1>8
<1> USE DEF s, t
<1> QED
  BY <1>2, <1>5, <1>10, <1>11

(* A line that was understood says nothing unknown, nor does it to a       *)
(* parser that has grown.                                                  *)
LEMMA UnderstoodStays ==
  ASSUME NEW b \in OptionParsers, NEW p \in OptionParsers, OptionsGrown(b, p), NEW line \in CommandLines,
         Understood(b, line)
  PROVE  /\ line.tail = "nil"
         /\ Unknown \notin ToSet(Said(b, line.words, Len(line.words)))
         /\ Said(p, line.words, Len(line.words)) = Said(b, line.words, Len(line.words))
         /\ \A i \in 1..Len(line.words) : Unknown \notin ToSet(CallsAt(p, line.words, i))
<1> DEFINE W == line.words
           n == Len(W)
<1>1. W \in Seq(ParsedWords) /\ n \in Nat /\ n <= Len(W)
  BY LineFields
<1>2. Unknown \notin ToSet(Meaning(b, line))
  BY DEF Understood
<1>3. line.tail = "nil" /\ Unknown \notin ToSet(Said(b, W, n))
  BY <1>2, MeaningIs
<1>4. Said(p, W, n) = Said(b, W, n)
  <2> HIDE DEF W, n
  <2> QED
    BY <1>1, <1>3, SaidStays
<1>5. \A i \in 1..n : Unknown \notin ToSet(CallsAt(p, W, i))
  <2>1. Unknown \notin ToSet(Said(p, W, n))
    BY <1>3, <1>4
  <2> HIDE DEF W, n
  <2> QED
    BY <1>1, <2>1, SaidElements
<1> QED
  BY <1>3, <1>4, <1>5

(* A word that is not understood was not when the parse began.             *)
LEMMA UnknownWord ==
  ASSUME NEW b \in OptionParsers, NEW p \in OptionParsers, OptionsGrown(b, p), NEW line \in CommandLines,
         NEW i \in 1..Len(line.words), Unknown \in ToSet(CallsAt(p, line.words, i))
  PROVE  ~Understood(b, line)
BY UnderstoodStays

(* Nor was an argument too many.                                           *)
LEMMA TooManyArguments ==
  ASSUME NEW b \in OptionParsers, NEW p \in OptionParsers, OptionsGrown(b, p), NEW line \in CommandLines,
         NEW c \in Nat, c + 1 <= Len(line.words), Roles(p, line.words)[c + 1] = "argument",
         Len(b.arguments) <= Positionals(p, line.words, c), Fixed(b.arguments)
  PROVE  ~Understood(b, line)
<1> DEFINE W == line.words
           n == Positionals(p, W, c)
<1>0. SUFFICES ASSUME Understood(b, line) PROVE FALSE
  OBVIOUS
<1>1. W \in Seq(ParsedWords) /\ Len(W) \in Nat /\ c <= Len(W) /\ c + 1 \in 1..Len(W) /\ n \in Nat
      /\ c + 1 <= Len(W) /\ Roles(p, W)[c + 1] = "argument"
  <2>1. W \in Seq(ParsedWords) /\ Len(W) \in Nat /\ c + 1 <= Len(W) /\ Roles(p, W)[c + 1] = "argument"
    BY LineFields
  <2>2. n \in Nat
    BY PositionalsCount
  <2> DEFINE m == Len(W)
  <2>3. m \in Nat /\ c + 1 <= m
    BY <2>1
  <2>4. c <= m /\ c + 1 \in 1..m
    <3> HIDE DEF m
    <3> QED
      BY <2>3
  <2> QED
    BY <2>1, <2>2, <2>4
<1>2. /\ \A i \in 1..Len(W) : Unknown \notin ToSet(CallsAt(b, W, i))
  <2>1. OptionsGrown(b, b)
    BY ParserFields DEF OptionsGrown, Longer
  <2> QED
    BY <1>0, <2>1, UnderstoodStays
<1>3. Unknown \notin ToSet(Said(b, W, c))
  <2>1. \A i \in 1..c : i \in 1..Len(W)
    BY <1>1
  <2> HIDE DEF W
  <2> QED
    BY <1>1, <1>2, <2>1, SaidElements
<1>4. Roles(b, W)[c + 1] = "argument" /\ Positionals(b, W, c) = n
  <2> HIDE DEF W
  <2> QED
    BY <1>1, <1>3, SaidStays
<1>5. Positionals(b, W, c + 1) = n + 1
  BY <1>4, PositionalsCount
<1>6. CallsAt(b, W, c + 1) = <<ArgumentCall(b, ArgumentFor(b, n + 1), W[c + 1])>>
  BY <1>4, <1>5, CallsByRole
<1>7. ArgumentCall(b, ArgumentFor(b, n + 1), W[c + 1]) # Unknown
  <2>1. Unknown \notin ToSet(CallsAt(b, W, c + 1))
    BY <1>1, <1>2
  <2> QED
    BY <1>6, <2>1 DEF ToSet
<1>8. ArgumentFor(b, n + 1) \in 1..Len(b.arguments)
  <2>1. n + 1 \in Nat /\ n + 1 # 0
    BY <1>1
  <2> HIDE DEF n, W
  <2> QED
    BY <1>7, <2>1, ArgumentKnown
<1>9. OpenPlace(b) = 0
  <2>1. OpenPlace(b) \in 0..Len(b.arguments) /\ (OpenPlace(b) # 0 => b.arguments[OpenPlace(b)].multiple)
    BY ArgumentForIs
  <2>2. Len(b.arguments) \in Nat
    BY ParserFields
  <2> QED
    BY <2>1, <2>2 DEF Fixed
<1>10. ArgumentFor(b, n + 1) = n + 1
  BY <1>9, ArgumentForIs
<1>11. Len(b.arguments) \in Nat /\ Len(b.arguments) <= n
  BY ParserFields
<1> HIDE DEF n
<1> QED
  BY <1>1, <1>8, <1>10, <1>11

(* Nor was a line without a value that is required.                        *)
LEMMA MissingArgument ==
  ASSUME NEW b \in OptionParsers, NEW p \in OptionParsers, OptionsGrown(b, p), NEW line \in CommandLines,
         NEW i \in 1..Len(b.arguments), b.arguments[i].required, ~Gives(Said(p, line.words, Len(line.words)), i)
  PROVE  ~Understood(b, line)
<1>0. SUFFICES ASSUME Understood(b, line) PROVE FALSE
  OBVIOUS
<1>1. line.tail = "nil" /\ Said(p, line.words, Len(line.words)) = Said(b, line.words, Len(line.words))
  BY <1>0, UnderstoodStays
<1>2. Meaning(b, line) = Said(b, line.words, Len(line.words))
  BY <1>1, MeaningIs
<1>3. DOMAIN b.arguments = 1..Len(b.arguments)
  BY ParserFields, LenProperties
<1>4. PICK x \in ToSet(Meaning(b, line)) : x.who = <<"argument", i>>
  BY <1>0, <1>3 DEF Understood
<1> QED
  BY <1>1, <1>2, <1>4 DEF Gives

-----------------------------------------------------------------------------
(* Where a parse is in its line.                                           *)

(* The words that are left, and the next of them.                          *)
IsLeft(E, W, c, words) ==
  /\ Len(W) \in Nat /\ words \in Seq(E)
  /\ words = <<>> <=> c = Len(W)
  /\ words = <<>> => NextWord(W, c) = NotString
  /\ words # <<>> => /\ c + 1 <= Len(W) /\ c + 1 \in 1..Len(W) /\ W[c + 1] \in E
                     /\ Head(words) = W[c + 1] /\ Tail(words) = SubSeq(W, (c + 1) + 1, Len(W))
                     /\ Tail(words) \in Seq(E)
                     /\ NextWord(W, c) = W[c + 1]

(* They are what was not read.                                             *)
LEMMA WordsLeft ==
  ASSUME NEW E, NEW W \in Seq(E), NEW c \in Nat, c <= Len(W),
         NEW words, words = SubSeq(W, c + 1, Len(W))
  PROVE  IsLeft(E, W, c, words)
<1>1. /\ words \in Seq(E) /\ Len(words) = Len(W) - c
      /\ \A i \in 1..(Len(W) - c) : words[i] = W[c + i]
  BY RestFacts
<1>2. Len(W) \in Nat
  BY LenProperties
<1> DEFINE m == Len(W)
<1>3. m \in Nat /\ c <= m
  BY <1>2
<1>4. CASE words = <<>>
  <2>1. Len(words) = 0
    BY <1>1, <1>4, EmptySeq
  <2>2. c = m
    <3>1. m - c = 0
      BY <1>1, <2>1
    <3> HIDE DEF m
    <3> QED
      BY <1>3, <3>1
  <2> QED
    BY <1>1, <1>2, <1>4, <2>2 DEF NextWord, IsLeft
<1>5. CASE words # <<>>
  <2>1. Len(words) \in Nat \ {0}
    BY <1>1, <1>5, EmptySeq, LenProperties
  <2>2. c + 1 <= m /\ c + 1 \in 1..m /\ 1 \in 1..(m - c) /\ c < m /\ c # m
    <3>1. m - c # 0
      BY <1>1, <2>1
    <3> HIDE DEF m
    <3> QED
      BY <1>3, <3>1
  <2>3. Head(words) = W[c + 1]
    <3>1. words[1] = W[c + 1]
      BY <1>1, <2>2
    <3>2. words # <<>> /\ words \in Seq(E)
      BY <1>1, <1>5
    <3>3. Head(words) = words[1]
      BY <3>2
    <3> QED
      BY <3>1, <3>3
  <2>4. W[c + 1] \in E
    BY <2>2, ElementOfSeq
  <2>5. Tail(words) \in Seq(E) /\ Len(Tail(words)) = Len(words) - 1
        /\ \A i \in 1..Len(Tail(words)) : Tail(words)[i] = words[i + 1]
    BY <1>1, <1>5, HeadTailProperties
  <2> DEFINE r == SubSeq(W, (c + 1) + 1, Len(W))
  <2>6. r \in Seq(E) /\ Len(r) = Len(W) - (c + 1)
        /\ \A i \in 1..(Len(W) - (c + 1)) : r[i] = W[(c + 1) + i]
    <3>1. c + 1 \in Nat /\ c + 1 <= Len(W)
      BY <2>2
    <3> QED
      BY <3>1, RestFacts
  <2>7. Tail(words) = r
    <3>1. Len(Tail(words)) = Len(r) /\ Len(Tail(words)) = m - (c + 1)
      <4>1. Len(words) - 1 = m - (c + 1)
        <5>1. Len(words) = m - c
          BY <1>1
        <5> HIDE DEF m
        <5> QED
          BY <1>3, <5>1
      <4> QED
        BY <2>5, <2>6, <4>1
    <3>2. ASSUME NEW i \in 1..Len(Tail(words)) PROVE Tail(words)[i] = r[i]
      <4>1. i \in 1..(m - (c + 1))
        BY <3>1, <3>2
      <4>2. i + 1 \in 1..(m - c) /\ c + (i + 1) = (c + 1) + i
        <5> HIDE DEF m
        <5> QED
          BY <1>3, <4>1
      <4>3. Tail(words)[i] = W[c + (i + 1)]
        BY <1>1, <2>5, <4>2
      <4> QED
        BY <2>6, <4>1, <4>2, <4>3
    <3> HIDE DEF r
    <3> QED
      BY <2>5, <2>6, <3>1, <3>2, SeqEqual
  <2> QED
    BY <1>1, <1>2, <1>5, <2>2, <2>3, <2>4, <2>5, <2>7 DEF NextWord, IsLeft
<1> QED
  BY <1>4, <1>5 DEF IsLeft

(* What one word more closes, counts and says.                             *)
LEMMA OneWordMore ==
  ASSUME NEW p \in OptionParsers, NEW W \in Seq(ParsedWords), NEW c \in Nat, c + 1 <= Len(W)
  PROVE  /\ Said(p, W, c + 1) = Said(p, W, c) \o CallsAt(p, W, c + 1)
         /\ Said(p, W, c) \in Seq(CallSet) /\ CallsAt(p, W, c + 1) \in Seq(CallSet)
         /\ Closed(p, W, c + 1) <=> (Closed(p, W, c) \/ Roles(p, W)[c + 1] = "mark"
                                     \/ (p.strict /\ Roles(p, W)[c + 1] = "argument"))
         /\ Positionals(p, W, c + 1) = Positionals(p, W, c) + (IF Roles(p, W)[c + 1] = "argument" THEN 1 ELSE 0)
         /\ Roles(p, W)[c + 1] = (IF c > 0 /\ Wants(p, W, c) THEN "value"
                                  ELSE IF Closed(p, W, c) THEN "argument" ELSE OwnRole(W[c + 1]))
<1> DEFINE m == Len(W)
<1>1. m \in Nat /\ c + 1 <= m
  BY LenProperties
<1>2. c <= m /\ c + 1 \in 1..m /\ (c + 1) - 1 = c /\ (c + 1 > 1 <=> c > 0)
  <2> HIDE DEF m
  <2> QED
    BY <1>1
<1>3. Said(p, W, c + 1) = Said(p, W, c) \o CallsAt(p, W, c + 1) /\ Said(p, W, c) \in Seq(CallSet)
  BY <1>2, SaidNext
<1>4. CallsAt(p, W, c + 1) \in Seq(CallSet)
  BY <1>2, CallsTyped
<1>5. Closed(p, W, c + 1) <=> (Closed(p, W, c) \/ Roles(p, W)[c + 1] = "mark" \/ (p.strict /\ Roles(p, W)[c + 1] = "argument"))
  <2>1. \A j : j \in 1..(c + 1) <=> j \in 1..c \/ j = c + 1
    OBVIOUS
  <2> QED
    BY <2>1 DEF Closed
<1>6. Positionals(p, W, c + 1) = Positionals(p, W, c) + (IF Roles(p, W)[c + 1] = "argument" THEN 1 ELSE 0)
  BY PositionalsCount
<1>7. Roles(p, W)[c + 1] = (IF c + 1 > 1 /\ Wants(p, W, (c + 1) - 1) THEN "value"
                            ELSE IF Closed(p, W, (c + 1) - 1) THEN "argument" ELSE OwnRole(W[c + 1]))
  BY <1>1, <1>2, RoleIs
<1> QED
  BY <1>2, <1>3, <1>4, <1>5, <1>6, <1>7

(* A parse between two words: what its next word is.                       *)
LEMMA AtNextWord ==
  ASSUME NEW p \in OptionParsers, NEW q \in ParseSet, NEW c \in Nat, ReadWell(p, q, c), q.letters = <<>>
  PROVE  /\ q.line.words \in Seq(ParsedWords) /\ c <= Len(q.line.words) /\ Len(q.line.words) \in Nat
         /\ q.calls = Said(p, q.line.words, c)
         /\ c > 0 => ~Wants(p, q.line.words, c)
         /\ q.words = <<>> => c = Len(q.line.words)
         /\ q.words # <<>> =>
              /\ c + 1 <= Len(q.line.words) /\ c + 1 \in 1..Len(q.line.words)
              /\ q.line.words[c + 1] \in ParsedWords
              /\ Head(q.words) = q.line.words[c + 1]
              /\ Tail(q.words) = SubSeq(q.line.words, (c + 1) + 1, Len(q.line.words))
              /\ Tail(q.words) \in Seq(ParsedWords)
              /\ Roles(p, q.line.words)[c + 1] = (IF q.only THEN "argument" ELSE OwnRole(q.line.words[c + 1]))
<1> DEFINE W == q.line.words
<1>1. W \in Seq(ParsedWords) /\ Len(W) \in Nat
  <2>1. q.line \in CommandLines
    BY DEF ParseSet
  <2> QED
    BY <2>1, LineFields
<1>2. c <= Len(W) /\ q.words = SubSeq(W, c + 1, Len(W)) /\ (q.only <=> Closed(p, W, c)) /\ q.calls = Said(p, W, c)
      /\ (c > 0 => ~Wants(p, W, c))
  BY DEF ReadWell, Between
<1> HIDE DEF W
<1>3. /\ q.words = <<>> => c = Len(W)
      /\ q.words # <<>> => /\ c + 1 <= Len(W) /\ c + 1 \in 1..Len(W) /\ W[c + 1] \in ParsedWords
                           /\ Head(q.words) = W[c + 1] /\ Tail(q.words) = SubSeq(W, (c + 1) + 1, Len(W))
                           /\ Tail(q.words) \in Seq(ParsedWords)
  <2> DEFINE words == q.words
             E == ParsedWords
  <2>1. W \in Seq(E) /\ c <= Len(W) /\ words = SubSeq(W, c + 1, Len(W))
    BY <1>1, <1>2
  <2> HIDE DEF words, E
  <2>2. IsLeft(E, W, c, words)
    BY <2>1, WordsLeft
  <2> QED
    BY <2>2 DEF words, E, IsLeft
<1>4. ASSUME q.words # <<>> PROVE Roles(p, W)[c + 1] = (IF q.only THEN "argument" ELSE OwnRole(W[c + 1]))
  BY <1>1, <1>2, <1>3, <1>4, OneWordMore
<1> USE DEF W
<1> QED
  BY <1>1, <1>2, <1>3, <1>4

-----------------------------------------------------------------------------
(* A parse that goes on, or fails.                                         *)

(* What is known of a parse that has begun.                                *)
LEMMA BegunParse ==
  ASSUME NEW p \in OptionParsers, NEW q, TaskWell(p, q), q.pc # "waiting"
  PROVE  /\ q \in ParseSet /\ q.line \in CommandLines
         /\ q.began[1] \in OptionParsers /\ OptionsGrown(q.began[1], p)
<1>1. q \in ParseSet /\ Len(q.began) = 1 /\ OptionsGrown(q.began[1], p)
  BY DEF TaskWell
<1>2. q.began \in Seq(OptionParsers) /\ q.line \in CommandLines
  BY <1>1 DEF ParseSet
<1>3. q.began[1] \in OptionParsers
  <2>1. 1 \in 1..Len(q.began)
    BY <1>1
  <2> QED
    BY <1>2, <2>1, ElementOfSeq
<1> QED
  BY <1>1, <1>2, <1>3

(* A parse that may fail does.                                             *)
LEMMA FailsWell ==
  ASSUME NEW p \in OptionParsers, NEW q, TaskWell(p, q), q.pc \in {"words", "letters", "advance", "check"},
         FailedRightly(p, q)
  PROVE  TaskWell(p, [q EXCEPT !.pc = "failed"])
<1> DEFINE r == [q EXCEPT !.pc = "failed"]
<1>1. q \in ParseSet
  BY DEF TaskWell
<1>2. /\ r \in ParseSet /\ r.pc = "failed" /\ r.line = q.line /\ r.words = q.words /\ r.letters = q.letters /\ r.only = q.only
      /\ r.current = q.current /\ r.last = q.last /\ r.given = q.given /\ r.calls = q.calls /\ r.began = q.began
  BY <1>1 DEF ParseSet
<1> HIDE DEF r
<1>3. FailedRightly(p, r)
  BY <1>2 DEF FailedRightly
<1>4. \A c : ReadWell(p, q, c) => ReadWell(p, r, c)
  BY <1>2 DEF ReadWell, Between, InWord
<1>5. /\ Len(q.began) = 1 /\ OptionsGrown(q.began[1], p) /\ q.last = Len(q.began[1].arguments)
      /\ \E c \in Nat : ReadWell(p, q, c) /\ (q.pc # "failed" => TurnWell(p, q, c))
      /\ \A i \in Nat : i \in q.given <=> Gives(q.calls, i)
  BY DEF TaskWell
<1>6. /\ Len(r.began) = 1 /\ OptionsGrown(r.began[1], p) /\ r.last = Len(r.began[1].arguments)
      /\ \E c \in Nat : ReadWell(p, r, c) /\ (r.pc # "failed" => TurnWell(p, r, c))
      /\ \A i \in Nat : i \in r.given <=> Gives(r.calls, i)
  BY <1>2, <1>4, <1>5
<1>7. TaskWell(p, r)
  BY <1>2, <1>3, <1>6 DEF TaskWell
<1> QED
  BY <1>7 DEF r

(* A parse goes on, with what it has read and whose turn it is kept right. *)
LEMMA GoesOnWell ==
  ASSUME NEW p \in OptionParsers, NEW q, TaskWell(p, q), q.pc # "waiting",
         NEW r \in ParseSet, r.line = q.line, r.began = q.began, r.last = q.last,
         r.pc \in {"words", "letters", "advance", "check"},
         NEW c \in Nat, ReadWell(p, r, c), TurnWell(p, r, c),
         \A i \in Nat : i \in r.given <=> Gives(r.calls, i),
         r.pc = "letters" <=> r.letters # <<>>,
         r.pc = "check" => r.words = <<>> /\ r.line.tail = "nil"
  PROVE  TaskWell(p, r)
<1>1. Len(q.began) = 1 /\ OptionsGrown(q.began[1], p) /\ q.last = Len(q.began[1].arguments)
  BY DEF TaskWell
<1>2. Len(r.began) = 1 /\ OptionsGrown(r.began[1], p) /\ r.last = Len(r.began[1].arguments)
  BY <1>1
<1>3. \E d \in Nat : ReadWell(p, r, d) /\ (r.pc # "failed" => TurnWell(p, r, d))
  OBVIOUS
<1> QED
  BY <1>2, <1>3 DEF TaskWell

(* What is given when one call more is made.                               *)
LEMMA GivesMore ==
  ASSUME NEW s \in Seq(CallSet), NEW x \in CallSet
  PROVE  /\ Append(s, x) = s \o <<x>> /\ Append(s, x) \in Seq(CallSet)
         /\ \A i : Gives(Append(s, x), i) <=> Gives(s, i) \/ x.who = <<"argument", i>>
         /\ Unknown \in ToSet(Append(s, x)) <=> Unknown \in ToSet(s) \/ x = Unknown
<1>1. Append(s, x) = s \o <<x>>
  BY AppendIsConcat
<1>2. <<x>> \in Seq(CallSet)
  OBVIOUS
<1>3. \A y : y \in ToSet(s \o <<x>>) <=> y \in ToSet(s) \/ y \in ToSet(<<x>>)
  BY <1>2, ElementsOfConcat
<1>4. \A y : y \in ToSet(<<x>>) <=> y = x
  BY DEF ToSet
<1>5. \A y : y \in ToSet(Append(s, x)) <=> y \in ToSet(s) \/ y = x
  BY <1>1, <1>3, <1>4
<1>6. \A i : Gives(Append(s, x), i) <=> Gives(s, i) \/ x.who = <<"argument", i>>
  BY <1>5 DEF Gives
<1> QED
  BY <1>1, <1>5, <1>6, AppendProperties

(* A parser that grows leaves a parse as good.                             *)
LEMMA ParseGrows ==
  ASSUME NEW p \in OptionParsers, NEW r \in OptionParsers, OptionsGrown(p, r), NEW q, TaskWell(p, q)
  PROVE  TaskWell(r, q)
<1> DEFINE b == q.began[1]
           W == q.line.words
<1>1. CASE q.pc = "waiting"
  BY <1>1 DEF TaskWell
<1>2. CASE q.pc # "waiting"
  <2>1. q \in ParseSet /\ q.line \in CommandLines /\ b \in OptionParsers /\ OptionsGrown(b, p)
    BY <1>2, BegunParse
  <2>2. OptionsGrown(b, r)
    <3> DEFINE x == Len(b.options)
               y == Len(p.options)
               z == Len(r.options)
               u == Len(b.arguments)
               v == Len(p.arguments)
               w == Len(r.arguments)
    <3>1. x \in Nat /\ y \in Nat /\ z \in Nat /\ u \in Nat /\ v \in Nat /\ w \in Nat
      BY <2>1, ParserFields
    <3>2. /\ p.strict = b.strict /\ r.strict = p.strict /\ x <= y /\ y <= z /\ u <= v /\ v <= w
          /\ \A i \in 1..x : p.options[i] = b.options[i]
          /\ \A i \in 1..y : r.options[i] = p.options[i]
          /\ \A i \in 1..u : p.arguments[i] = b.arguments[i]
          /\ \A i \in 1..v : r.arguments[i] = p.arguments[i]
      BY <2>1 DEF OptionsGrown, Longer
    <3>3. x <= z /\ u <= w /\ (\A i \in 1..x : i \in 1..y) /\ (\A i \in 1..u : i \in 1..v)
      <4>1. x <= y /\ y <= z /\ u <= v /\ v <= w
        BY <3>2
      <4> HIDE DEF x, y, z, u, v, w
      <4> QED
        BY <3>1, <4>1
    <3> HIDE DEF b
    <3> QED
      BY <3>2, <3>3 DEF OptionsGrown, Longer
  <2>3. W \in Seq(ParsedWords) /\ Len(W) \in Nat
    BY <2>1, LineFields
  <2>4. PICK c \in Nat : ReadWell(p, q, c) /\ (q.pc # "failed" => TurnWell(p, q, c))
    BY <1>2 DEF TaskWell
  <2>5. c <= Len(W) /\ q.words = SubSeq(W, c + 1, Len(W)) /\ (q.only <=> Closed(p, W, c)) /\ Unknown \notin ToSet(q.calls)
    BY <2>4 DEF ReadWell
  <2> HIDE DEF W
  <2>6. /\ ReadWell(r, q, c) /\ Positionals(r, W, c) = Positionals(p, W, c)
    <3>1. CASE q.letters = <<>>
      <4>1. q.calls = Said(p, W, c) /\ (c > 0 => ~Wants(p, W, c))
        BY <2>4, <3>1 DEF ReadWell, Between, W
      <4>2. /\ Said(r, W, c) = Said(p, W, c)
            /\ \A i \in 1..c : Wants(r, W, i) <=> Wants(p, W, i)
            /\ Closed(r, W, c) <=> Closed(p, W, c)
            /\ Positionals(r, W, c) = Positionals(p, W, c)
        BY <2>3, <2>5, <4>1, SaidStays
      <4>3. c > 0 => ~Wants(r, W, c)
        <5>1. c > 0 => c \in 1..c
          OBVIOUS
        <5> QED
          BY <4>1, <4>2, <5>1
      <4>4. Between(r, q, c)
        BY <4>1, <4>2, <4>3 DEF Between, W
      <4>5. q.only <=> Closed(r, W, c)
        BY <2>5, <4>2
      <4> QED
        BY <2>5, <3>1, <4>2, <4>4, <4>5 DEF ReadWell, W
    <3>2. CASE q.letters # <<>>
      <4>1. PICK k \in Nat : InWord(p, q, c, k)
        BY <2>4, <3>2 DEF ReadWell
      <4> DEFINE w == W[c]
      <4>2. /\ c > 0 /\ Roles(p, W)[c] = "option" /\ w.is = "short"
            /\ k < Len(w.text) /\ q.letters = SubSeq(w.text, k + 1, Len(w.text))
            /\ \A i \in 1..k : Flag(p, w.text[i])
            /\ q.calls = Said(p, W, c - 1) \o FlagCalls(p, w.text, k)
        BY <4>1 DEF InWord, W
      <4> HIDE DEF w
      <4>3. c - 1 \in Nat /\ (c - 1) + 1 = c /\ c - 1 <= Len(W) /\ (c - 1) + 1 <= Len(W)
        <5> DEFINE n == Len(W)
        <5>1. n \in Nat /\ c <= n /\ c > 0
          BY <2>3, <2>5, <4>2
        <5> HIDE DEF n
        <5>2. c - 1 \in Nat /\ (c - 1) + 1 = c /\ c - 1 <= n /\ (c - 1) + 1 <= n
          BY <5>1
        <5> QED
          BY <5>2 DEF n
      <4>4. Said(p, W, c - 1) \in Seq(CallSet)
        BY <2>3, <4>3, SaidNext
      <4>5. FlagCalls(p, w.text, k) \in Seq(CallSet)
        <5>1. \A i \in 1..k : CallOf(p, FindShort(p, w.text[i]), NoValue) \in CallSet
          <6>1. \A x : FindShort(p, x) \in Nat
            BY FindRange, ParserFields
          <6>2. NoValue \in ValueSet
            BY DEF ValueSet
          <6> QED
            BY <6>1, <6>2, CallTyped
        <5> DEFINE f == [i \in 1..k |-> CallOf(p, FindShort(p, w.text[i]), NoValue)]
        <5>2. f \in [1..k -> CallSet]
          BY <5>1
        <5>3. f \in Seq(CallSet)
          <6> HIDE DEF f
          <6> QED
            BY <5>2, SeqDef
        <5> QED
          BY <5>3 DEF FlagCalls
      <4>6. Unknown \notin ToSet(Said(p, W, c - 1))
        <5>1. \A x : x \in ToSet(Said(p, W, c - 1) \o FlagCalls(p, w.text, k))
                       <=> x \in ToSet(Said(p, W, c - 1)) \/ x \in ToSet(FlagCalls(p, w.text, k))
          BY <4>4, <4>5, ElementsOfConcat
        <5> QED
          BY <2>5, <4>2, <5>1
      <4>7. /\ Said(r, W, c - 1) = Said(p, W, c - 1)
            /\ Closed(r, W, c - 1) <=> Closed(p, W, c - 1)
            /\ Positionals(r, W, c - 1) = Positionals(p, W, c - 1)
            /\ Roles(r, W)[c] = Roles(p, W)[c]
        <5> DEFINE d == c - 1
        <5>1. d \in Nat /\ d <= Len(W) /\ Unknown \notin ToSet(Said(p, W, d)) /\ d + 1 <= Len(W) /\ d + 1 = c
          BY <4>3, <4>6
        <5>2. /\ Said(r, W, d) = Said(p, W, d)
              /\ Closed(r, W, d) <=> Closed(p, W, d)
              /\ Positionals(r, W, d) = Positionals(p, W, d)
              /\ Roles(r, W)[d + 1] = Roles(p, W)[d + 1]
          <6> HIDE DEF d
          <6> QED
            BY <2>3, <5>1, SaidStays
        <5> QED
          BY <5>1, <5>2
      <4>8. (Closed(r, W, c) <=> Closed(p, W, c)) /\ Positionals(r, W, c) = Positionals(p, W, c)
        <5> DEFINE d == c - 1
        <5>1. d \in Nat /\ d + 1 <= Len(W) /\ d + 1 = c /\ Roles(r, W)[d + 1] = Roles(p, W)[d + 1]
              /\ (Closed(r, W, d) <=> Closed(p, W, d)) /\ Positionals(r, W, d) = Positionals(p, W, d)
          BY <4>3, <4>7
        <5>2. r.strict = p.strict
          BY DEF OptionsGrown
        <5>3. (Closed(r, W, d + 1) <=> Closed(p, W, d + 1)) /\ Positionals(r, W, d + 1) = Positionals(p, W, d + 1)
          <6> HIDE DEF d
          <6> QED
            BY <2>3, <5>1, <5>2, OneWordMore
        <5> QED
          BY <5>1, <5>3
      <4>9. \A i \in 1..k : /\ Flag(r, w.text[i])
                            /\ CallOf(r, FindShort(r, w.text[i]), NoValue) = CallOf(p, FindShort(p, w.text[i]), NoValue)
        <5>1. \A x : Flag(p, x) => Flag(r, x)
          BY CallStays
        <5>2. \A x : Flag(p, x) => FindShort(p, x) # 0
          BY DEF Flag
        <5>3. \A x : FindShort(p, x) # 0 => FindShort(r, x) = FindShort(p, x) /\ FindShort(p, x) \in 1..Len(p.options)
          <6>1. \A x : FindShort(p, x) \in 0..Len(p.options)
            BY FindRange
          <6>2. Len(p.options) \in Nat
            BY ParserFields
          <6> QED
            BY <6>1, <6>2, FoundStays
        <5>4. \A i \in 1..Len(p.options) : CallOf(r, i, NoValue) = CallOf(p, i, NoValue)
          BY CallStays
        <5> QED
          BY <4>2, <5>1, <5>2, <5>3, <5>4
      <4>10. FlagCalls(r, w.text, k) = FlagCalls(p, w.text, k)
        BY <4>9 DEF FlagCalls
      <4>11. InWord(r, q, c, k)
        BY <4>2, <4>7, <4>9, <4>10 DEF InWord, W, w
      <4>12. q.only <=> Closed(r, W, c)
        BY <2>5, <4>8
      <4> QED
        BY <2>5, <3>2, <4>8, <4>11, <4>12 DEF ReadWell, W
    <3> QED
      BY <3>1, <3>2
  <2>7. q.pc # "failed" => TurnWell(r, q, c)
    <3> SUFFICES ASSUME q.pc # "failed" PROVE TurnWell(r, q, c)
      OBVIOUS
    <3> DEFINE n == Positionals(p, W, c)
    <3>1. n \in Nat /\ Positionals(r, W, c) = n
      BY <2>6, PositionalsCount
    <3>2. CASE q.pc # "advance" /\ q.current = 0
      BY <2>4, <2>6, <3>2 DEF TurnWell, W
    <3>3. CASE ~(q.pc # "advance" /\ q.current = 0)
      <4> DEFINE k == IF q.pc = "advance" THEN n ELSE n + 1
      <4>1. k \in Nat /\ q.current = ArgumentFor(p, k) /\ q.current \in 1..Len(p.arguments)
        BY <2>4, <3>1, <3>3 DEF TurnWell, W
      <4>2. ArgumentFor(r, k) = ArgumentFor(p, k)
        <5> HIDE DEF k
        <5> QED
          BY <4>1, ArgumentStays
      <4>3. q.current \in 1..Len(r.arguments)
        <5> DEFINE x == Len(p.arguments)
                   y == Len(r.arguments)
        <5>1. x \in Nat /\ y \in Nat /\ x <= y /\ q.current \in 1..x
          BY <4>1, ParserFields DEF OptionsGrown, Longer
        <5>2. q.current \in 1..y
          <6> HIDE DEF x, y
          <6> QED
            BY <5>1
        <5> QED
          BY <5>2
      <4>4. q.current = ArgumentFor(r, k)
        BY <4>1, <4>2
      <4> QED
        BY <3>1, <3>3, <4>3, <4>4 DEF TurnWell, W
    <3> QED
      BY <3>2, <3>3
  <2>8. q.pc = "failed" => FailedRightly(r, q)
    <3>1. p.arguments # <<>> => r.arguments # <<>>
      <4> DEFINE x == Len(p.arguments)
                 y == Len(r.arguments)
      <4>1. x \in Nat /\ y \in Nat /\ x <= y
        BY ParserFields DEF OptionsGrown, Longer
      <4>2. p.arguments # <<>> <=> x # 0
        BY ParserFields, EmptySeq
      <4>3. r.arguments # <<>> <=> y # 0
        BY ParserFields, EmptySeq
      <4>4. x # 0 => y # 0
        <5> HIDE DEF x, y
        <5> QED
          BY <4>1
      <4> QED
        BY <4>2, <4>3, <4>4
    <3>2. q.pc = "failed" => FailedRightly(p, q)
      BY DEF TaskWell
    <3> QED
      BY <3>1, <3>2 DEF FailedRightly
  <2>9. \E d \in Nat : ReadWell(r, q, d) /\ (q.pc # "failed" => TurnWell(r, q, d))
    BY <2>6, <2>7
  <2>10. TaskWell(p, q)
    OBVIOUS
  <2> HIDE DEF b
  <2> QED
    BY <1>2, <2>2, <2>8, <2>9, <2>10 DEF TaskWell, b
<1> QED
  BY <1>1, <1>2

-----------------------------------------------------------------------------
(* Each step of a parse keeps it good.                                     *)

(* The rest behind nothing is all.                                         *)
LEMMA WholeRest ==
  ASSUME NEW E, NEW s \in Seq(E)
  PROVE  s = SubSeq(s, 0 + 1, Len(s)) /\ 0 <= Len(s)
<1> DEFINE r == SubSeq(s, 0 + 1, Len(s))
<1>1. Len(s) \in Nat /\ 0 <= Len(s) /\ 0 \in Nat /\ Len(s) - 0 = Len(s)
  BY LenProperties
<1>2. r \in Seq(E) /\ Len(r) = Len(s) - 0 /\ \A i \in 1..(Len(s) - 0) : r[i] = s[0 + i]
  BY <1>1, RestFacts
<1> HIDE DEF r
<1>3. \A i \in 1..Len(s) : 0 + i = i
  OBVIOUS
<1>4. Len(s) = Len(r) /\ \A i \in 1..Len(s) : s[i] = r[i]
  BY <1>1, <1>2, <1>3
<1>5. s = r
  BY <1>2, <1>4, SeqEqual
<1> QED
  BY <1>1, <1>5 DEF r

(* A parse begins: nothing is read, and the first argument is next.        *)
LEMMA StartWell ==
  ASSUME parser \in OptionParsers, NEW t \in DOMAIN parses, TaskWell(parser, parses[t]), Start(t)
  PROVE  TaskWell(parser, parses'[t])
<1> DEFINE p == parser
           q == parses[t]
           r == parses'[t]
           W == q.line.words
           n == Len(p.arguments)
<1>1. q \in ParseSet /\ q = Waiting(q.line) /\ q.line \in CommandLines
  <2>1. q.pc = "waiting"
    BY DEF Start
  <2>2. q \in ParseSet /\ q = Waiting(q.line)
    BY <2>1 DEF TaskWell
  <2> QED
    BY <2>2 DEF ParseSet
<1>2. W \in Seq(ParsedWords) /\ Len(W) \in Nat
  BY <1>1, LineFields
<1>3. /\ p.arguments \in Seq(ParserArguments) /\ n \in Nat /\ (p.arguments = <<>> <=> n = 0)
  BY ParserFields, EmptySeq
<1>4. r = [q EXCEPT !.pc = "words", !.began = <<p>>, !.last = n, !.current = IF p.arguments = <<>> THEN 0 ELSE 1]
  BY DEF Start
<1>5. /\ r.pc = "words" /\ r.line = q.line /\ r.words = W /\ r.letters = <<>> /\ r.only = FALSE
      /\ r.current = (IF p.arguments = <<>> THEN 0 ELSE 1) /\ r.last = n /\ r.given = {} /\ r.calls = <<>> /\ r.began = <<p>>
  BY <1>1, <1>4 DEF ParseSet, Waiting
<1>6. r \in ParseSet
  <2>1. <<p>> \in Seq(OptionParsers)
    OBVIOUS
  <2>2. n \in Nat /\ (IF p.arguments = <<>> THEN 0 ELSE 1) \in Nat
    BY <1>3
  <2> HIDE DEF n
  <2> QED
    BY <1>1, <1>4, <2>1, <2>2 DEF ParseSet
<1>7. ReadWell(p, r, 0)
  <2>1. Said(p, W, 0) = <<>>
    BY <1>2, SaidNext
  <2>2. W = SubSeq(W, 0 + 1, Len(W)) /\ 0 <= Len(W)
    BY <1>2, WholeRest
  <2>3. ~Closed(p, W, 0)
    BY DEF Closed
  <2>4. Unknown \notin ToSet(<<>>)
    BY DEF ToSet
  <2>5. Between(p, r, 0)
    BY <1>5, <2>1 DEF Between
  <2> QED
    BY <1>5, <2>2, <2>3, <2>4, <2>5 DEF ReadWell
<1>8. TurnWell(p, r, 0)
  <2>1. Positionals(p, W, 0) = 0
    BY PositionalsCount
  <2>2. r.began[1] = p
    BY <1>5
  <2>3. CASE p.arguments = <<>>
    <3>1. n = 0
      BY <1>3, <2>3
    <3> QED
      BY <1>5, <2>1, <2>2, <2>3, <3>1 DEF TurnWell, Fixed
  <2>4. CASE p.arguments # <<>>
    <3>1. ArgumentFor(p, 0 + 1) = 1
      <4>1. ArgumentFor(p, 1) = IF OpenPlace(p) # 0 /\ 1 > OpenPlace(p) THEN OpenPlace(p) ELSE 1
        BY ArgumentForIs
      <4>2. OpenPlace(p) \in 0..n
        BY ArgumentForIs
      <4> HIDE DEF n
      <4> QED
        BY <1>3, <4>1, <4>2
    <3>2. 1 \in 1..n
      BY <1>3, <2>4
    <3> HIDE DEF p, r
    <3>3. r.current = 1 /\ r.pc = "words" /\ r.line.words = W
      BY <1>5, <2>4
    <3> QED
      BY <2>1, <3>1, <3>2, <3>3 DEF TurnWell
  <2> QED
    BY <2>3, <2>4
<1>9. OptionsGrown(p, p)
  BY <1>3, ParserFields DEF OptionsGrown, Longer
<1>10. \A i \in Nat : i \in r.given <=> Gives(r.calls, i)
  BY <1>5 DEF Gives, ToSet
<1>11. Len(r.began) = 1 /\ r.began[1] = p
  BY <1>5
<1>12. \E c \in Nat : ReadWell(p, r, c) /\ (r.pc # "failed" => TurnWell(p, r, c))
  BY <1>7, <1>8
<1> HIDE DEF r
<1> QED
  BY <1>5, <1>6, <1>9, <1>10, <1>11, <1>12 DEF TaskWell, r

(* All words are read.                                                     *)
LEMMA EndOfWordsWell ==
  ASSUME parser \in OptionParsers, NEW t \in DOMAIN parses, TaskWell(parser, parses[t]), EndOfWords(t)
  PROVE  TaskWell(parser, parses'[t])
<1> DEFINE p == parser
           q == parses[t]
           r == parses'[t]
<1>1. q.pc = "words" /\ q.words = <<>> /\ q.line.tail = "nil" /\ r = [q EXCEPT !.pc = "check"]
  BY DEF EndOfWords, Broken
<1>2. q \in ParseSet /\ q.letters = <<>>
  BY <1>1 DEF TaskWell
<1>3. /\ r \in ParseSet /\ r.pc = "check" /\ r.line = q.line /\ r.words = q.words /\ r.letters = q.letters /\ r.only = q.only
      /\ r.current = q.current /\ r.last = q.last /\ r.given = q.given /\ r.calls = q.calls /\ r.began = q.began
  BY <1>1, <1>2 DEF ParseSet
<1> HIDE DEF r
<1>4. PICK c \in Nat : ReadWell(p, q, c) /\ TurnWell(p, q, c)
  BY <1>1 DEF TaskWell
<1>5. ReadWell(p, r, c)
  BY <1>3, <1>4 DEF ReadWell, Between, InWord
<1>6. TurnWell(p, r, c)
  BY <1>1, <1>3, <1>4 DEF TurnWell
<1>7. \A i \in Nat : i \in r.given <=> Gives(r.calls, i)
  BY <1>1, <1>3 DEF TaskWell
<1>8. TaskWell(p, q) /\ q.pc # "waiting" /\ p \in OptionParsers
  BY <1>1
<1>9. r.words = <<>> /\ r.line.tail = "nil" /\ r.letters = <<>>
  BY <1>1, <1>2, <1>3
<1> HIDE DEF p, q
<1>10. TaskWell(p, r)
  BY <1>3, <1>5, <1>6, <1>7, <1>8, <1>9, GoesOnWell
<1> QED
  BY <1>10 DEF p, r

(* What the callbacks of an option get when there is no string.            *)
LEMMA NoStringFails == \A p, i : CallOf(p, i, NotString) = Unknown
BY DEF CallOf

(* The list breaks off: no string is next, or it ends in no list.          *)
LEMMA BrokenListWell ==
  ASSUME parser \in OptionParsers, NEW t \in DOMAIN parses, TaskWell(parser, parses[t]), BrokenList(t)
  PROVE  TaskWell(parser, parses'[t])
<1> DEFINE p == parser
           q == parses[t]
           b == q.began[1]
           W == q.line.words
<1>1. q.pc = "words" /\ Broken(q) /\ parses'[t] = [q EXCEPT !.pc = "failed"]
  BY DEF BrokenList, Fails
<1>2. q \in ParseSet /\ q.line \in CommandLines /\ b \in OptionParsers /\ OptionsGrown(b, p)
  BY <1>1, BegunParse
<1>3. q.letters = <<>>
  BY <1>1 DEF TaskWell
<1>4. PICK c \in Nat : ReadWell(p, q, c)
  BY <1>1 DEF TaskWell
<1>5. ASSUME q.words = <<>> PROVE FailedRightly(p, q)
  <2>1. q.line.tail # "nil"
    BY <1>1, <1>5 DEF Broken
  <2>2. ~Understood(b, q.line)
    <3> HIDE DEF b
    <3> QED
      BY <1>2, <2>1, UnderstoodStays
  <2> QED
    BY <2>2 DEF FailedRightly
<1>6. ASSUME q.words # <<>> PROVE FailedRightly(p, q)
  <2>1. Head(q.words) = NotString
    BY <1>1, <1>6 DEF Broken
  <2>2. /\ c + 1 \in 1..Len(W) /\ W[c + 1] = NotString
        /\ Roles(p, W)[c + 1] = (IF q.only THEN "argument" ELSE OwnRole(W[c + 1]))
    BY <1>2, <1>3, <1>4, <1>6, <2>1, AtNextWord
  <2>3. NotString.is = "other"
    BY DEF NotString
  <2>4. Unknown \in ToSet(CallsAt(p, W, c + 1))
    <3>1. CASE q.only
      <4>1. CallsAt(p, W, c + 1) = <<ArgumentCall(p, ArgumentFor(p, Positionals(p, W, c + 1)), W[c + 1])>>
        BY <2>2, <3>1, CallsByRole
      <4>2. ArgumentCall(p, ArgumentFor(p, Positionals(p, W, c + 1)), W[c + 1]) = Unknown
        BY <2>2 DEF ArgumentCall
      <4> QED
        BY <4>1, <4>2 DEF ToSet
    <3>2. CASE ~q.only
      <4>1. OwnRole(W[c + 1]) = "option"
        BY <2>2, <2>3 DEF OwnRole
      <4>2. CallsAt(p, W, c + 1) = OptionCalls(p, W[c + 1], NextWord(W, c + 1))
        BY <2>2, <3>2, <4>1, CallsByRole
      <4>3. OptionCalls(p, NotString, NextWord(W, c + 1)) = <<Unknown>>
        BY <2>3 DEF OptionCalls
      <4> QED
        BY <2>2, <4>2, <4>3 DEF ToSet
    <3> QED
      BY <3>1, <3>2
  <2>5. ~Understood(b, q.line)
    <3> HIDE DEF b
    <3> QED
      BY <1>2, <2>2, <2>4, UnknownWord
  <2> QED
    BY <2>5 DEF FailedRightly
<1> HIDE DEF b
<1>7. FailedRightly(p, q)
  BY <1>5, <1>6
<1>8. TaskWell(p, [q EXCEPT !.pc = "failed"])
  BY <1>1, <1>7, FailsWell
<1> QED
  BY <1>1, <1>8

(* The next word of a parse between words, and what one word more changes. *)
LEMMA NextWordRead ==
  ASSUME NEW p \in OptionParsers, NEW q, TaskWell(p, q), q.pc = "words", q.words # <<>>
  PROVE  \E c \in Nat :
           LET W == q.line.words
               w == W[c + 1]
           IN /\ W \in Seq(ParsedWords) /\ q.letters = <<>> /\ ReadWell(p, q, c) /\ TurnWell(p, q, c)
              /\ q.calls = Said(p, W, c) /\ Unknown \notin ToSet(q.calls)
              /\ c + 1 <= Len(W) /\ c + 1 \in 1..Len(W) /\ w \in ParsedWords
              /\ Head(q.words) = w /\ Tail(q.words) = SubSeq(W, (c + 1) + 1, Len(W))
              /\ Tail(q.words) \in Seq(ParsedWords)
              /\ Roles(p, W)[c + 1] = (IF q.only THEN "argument" ELSE OwnRole(w))
              /\ q.only <=> Closed(p, W, c)
              /\ Said(p, W, c + 1) = Said(p, W, c) \o CallsAt(p, W, c + 1)
              /\ Said(p, W, c) \in Seq(CallSet) /\ CallsAt(p, W, c + 1) \in Seq(CallSet)
              /\ Closed(p, W, c + 1) <=> (q.only \/ Roles(p, W)[c + 1] = "mark"
                                          \/ (p.strict /\ Roles(p, W)[c + 1] = "argument"))
              /\ Positionals(p, W, c + 1) = Positionals(p, W, c) + (IF Roles(p, W)[c + 1] = "argument" THEN 1 ELSE 0)
              /\ Positionals(p, W, c) \in Nat
<1> DEFINE W == q.line.words
<1>1. q \in ParseSet /\ q.letters = <<>>
  BY DEF TaskWell
<1>2. PICK c \in Nat : ReadWell(p, q, c) /\ TurnWell(p, q, c)
  BY DEF TaskWell
<1> DEFINE w == W[c + 1]
<1>3. /\ W \in Seq(ParsedWords) /\ q.calls = Said(p, W, c)
      /\ c + 1 <= Len(W) /\ c + 1 \in 1..Len(W) /\ w \in ParsedWords
      /\ Head(q.words) = w /\ Tail(q.words) = SubSeq(W, (c + 1) + 1, Len(W))
      /\ Tail(q.words) \in Seq(ParsedWords) /\ Roles(p, W)[c + 1] = (IF q.only THEN "argument" ELSE OwnRole(w))
  BY <1>1, <1>2, AtNextWord
<1>4. (q.only <=> Closed(p, W, c)) /\ Unknown \notin ToSet(q.calls)
  BY <1>2 DEF ReadWell
<1> HIDE DEF W, w
<1>5. /\ Said(p, W, c + 1) = Said(p, W, c) \o CallsAt(p, W, c + 1)
      /\ Said(p, W, c) \in Seq(CallSet) /\ CallsAt(p, W, c + 1) \in Seq(CallSet)
      /\ Closed(p, W, c + 1) <=> (Closed(p, W, c) \/ Roles(p, W)[c + 1] = "mark"
                                     \/ (p.strict /\ Roles(p, W)[c + 1] = "argument"))
      /\ Positionals(p, W, c + 1) = Positionals(p, W, c) + (IF Roles(p, W)[c + 1] = "argument" THEN 1 ELSE 0)
  BY <1>3, OneWordMore
<1>6. Closed(p, W, c + 1) <=> (q.only \/ Roles(p, W)[c + 1] = "mark" \/ (p.strict /\ Roles(p, W)[c + 1] = "argument"))
  BY <1>4, <1>5
<1>7. Positionals(p, W, c) \in Nat
  BY PositionalsCount
<1> USE DEF W, w
<1> QED
  BY <1>1, <1>2, <1>3, <1>4, <1>5, <1>6, <1>7

(* A word that says nothing and is no argument is passed over.             *)
LEMMA SilentWord ==
  ASSUME NEW p \in OptionParsers, NEW W \in Seq(ParsedWords), NEW c \in Nat,
         Said(p, W, c + 1) = Said(p, W, c) \o CallsAt(p, W, c + 1), Said(p, W, c) \in Seq(CallSet),
         Roles(p, W)[c + 1] # "option", Roles(p, W)[c + 1] # "argument"
  PROVE  Said(p, W, c + 1) = Said(p, W, c) /\ ~Wants(p, W, c + 1)
<1>1. CallsAt(p, W, c + 1) = <<>>
  BY CallsByRole
<1>2. Said(p, W, c) \o <<>> = Said(p, W, c)
  BY ConcatEmptySeq
<1> QED
  BY <1>1, <1>2 DEF Wants

(* The mark that ends the options.                                         *)
LEMMA EndMarkKeeps ==
  ASSUME NEW p \in OptionParsers, NEW q, TaskWell(p, q), q.pc = "words", q.words # <<>>, ~q.only,
         Head(q.words).is = "dashes",
         NEW r \in ParseSet, r.pc = "words", r.line = q.line, r.words = Tail(q.words), r.letters = <<>>, r.only,
         r.current = q.current, r.last = q.last, r.given = q.given, r.calls = q.calls, r.began = q.began
  PROVE  TaskWell(p, r)
<1> DEFINE W == q.line.words
<1>1. PICK c \in Nat :
           LET w == W[c + 1] IN
              /\ W \in Seq(ParsedWords) /\ q.letters = <<>> /\ ReadWell(p, q, c) /\ TurnWell(p, q, c)
              /\ q.calls = Said(p, W, c) /\ Unknown \notin ToSet(q.calls)
              /\ c + 1 <= Len(W) /\ c + 1 \in 1..Len(W) /\ w \in ParsedWords
              /\ Head(q.words) = w /\ Tail(q.words) = SubSeq(W, (c + 1) + 1, Len(W))
              /\ Tail(q.words) \in Seq(ParsedWords)
              /\ Roles(p, W)[c + 1] = (IF q.only THEN "argument" ELSE OwnRole(w))
              /\ q.only <=> Closed(p, W, c)
              /\ Said(p, W, c + 1) = Said(p, W, c) \o CallsAt(p, W, c + 1)
              /\ Said(p, W, c) \in Seq(CallSet) /\ CallsAt(p, W, c + 1) \in Seq(CallSet)
              /\ Closed(p, W, c + 1) <=> (q.only \/ Roles(p, W)[c + 1] = "mark"
                                          \/ (p.strict /\ Roles(p, W)[c + 1] = "argument"))
              /\ Positionals(p, W, c + 1) = Positionals(p, W, c) + (IF Roles(p, W)[c + 1] = "argument" THEN 1 ELSE 0)
              /\ Positionals(p, W, c) \in Nat
  BY NextWordRead
<1>2. Roles(p, W)[c + 1] = "mark"
  BY <1>1 DEF OwnRole
<1>3. Said(p, W, c + 1) = Said(p, W, c) /\ ~Wants(p, W, c + 1)
  <2> HIDE DEF W
  <2> QED
    BY <1>1, <1>2, SilentWord
<1>4. Closed(p, W, c + 1) /\ Positionals(p, W, c + 1) = Positionals(p, W, c)
  BY <1>1, <1>2
<1>5. ReadWell(p, r, c + 1)
  <2>1. Between(p, r, c + 1)
    BY <1>1, <1>3 DEF Between
  <2> QED
    BY <1>1, <1>4, <2>1 DEF ReadWell
<1>6. TurnWell(p, r, c + 1)
  BY <1>1, <1>4 DEF TurnWell
<1>7. \A i \in Nat : i \in r.given <=> Gives(r.calls, i)
  BY DEF TaskWell
<1> QED
  BY <1>5, <1>6, <1>7, GoesOnWell

(* A word of letters: none of them is read yet.                            *)
LEMMA ShortWordKeeps ==
  ASSUME NEW p \in OptionParsers, NEW q, TaskWell(p, q), q.pc = "words", q.words # <<>>, ~q.only,
         Head(q.words).is = "short",
         NEW r \in ParseSet, r.pc = "letters", r.line = q.line, r.words = Tail(q.words), r.letters = Head(q.words).text,
         r.only <=> q.only, r.current = q.current, r.last = q.last, r.given = q.given, r.calls = q.calls, r.began = q.began
  PROVE  TaskWell(p, r)
<1> DEFINE W == q.line.words
<1>1. PICK c \in Nat :
           LET w == W[c + 1] IN
              /\ W \in Seq(ParsedWords) /\ q.letters = <<>> /\ ReadWell(p, q, c) /\ TurnWell(p, q, c)
              /\ q.calls = Said(p, W, c) /\ Unknown \notin ToSet(q.calls)
              /\ c + 1 <= Len(W) /\ c + 1 \in 1..Len(W) /\ w \in ParsedWords
              /\ Head(q.words) = w /\ Tail(q.words) = SubSeq(W, (c + 1) + 1, Len(W))
              /\ Tail(q.words) \in Seq(ParsedWords)
              /\ Roles(p, W)[c + 1] = (IF q.only THEN "argument" ELSE OwnRole(w))
              /\ q.only <=> Closed(p, W, c)
              /\ Said(p, W, c + 1) = Said(p, W, c) \o CallsAt(p, W, c + 1)
              /\ Said(p, W, c) \in Seq(CallSet) /\ CallsAt(p, W, c + 1) \in Seq(CallSet)
              /\ Closed(p, W, c + 1) <=> (q.only \/ Roles(p, W)[c + 1] = "mark"
                                          \/ (p.strict /\ Roles(p, W)[c + 1] = "argument"))
              /\ Positionals(p, W, c + 1) = Positionals(p, W, c) + (IF Roles(p, W)[c + 1] = "argument" THEN 1 ELSE 0)
              /\ Positionals(p, W, c) \in Nat
  BY NextWordRead
<1> DEFINE w == W[c + 1]
<1>2. Roles(p, W)[c + 1] = "option" /\ w.is = "short" /\ r.letters = w.text
  BY <1>1 DEF OwnRole
<1>3. (Closed(p, W, c + 1) <=> Closed(p, W, c)) /\ Positionals(p, W, c + 1) = Positionals(p, W, c)
  BY <1>1, <1>2
<1>4. w.text \in Seq(STRING) /\ w.text # <<>> /\ Len(w.text) \in Nat /\ Len(w.text) # 0
      /\ w.text = SubSeq(w.text, 0 + 1, Len(w.text))
  <2>1. w.text \in Seq(STRING) /\ w.text # <<>>
    BY <1>1, <1>2, WordFacts
  <2> QED
    BY <2>1, WholeRest, LenProperties, EmptySeq
<1>5. Said(p, W, (c + 1) - 1) \o FlagCalls(p, w.text, 0) = Said(p, W, c)
  <2>1. FlagCalls(p, w.text, 0) = <<>>
    BY DEF FlagCalls
  <2>2. (c + 1) - 1 = c
    OBVIOUS
  <2>3. Said(p, W, c) \o <<>> = Said(p, W, c)
    BY <1>1, ConcatEmptySeq
  <2> QED
    BY <2>1, <2>2, <2>3
<1>6. ReadWell(p, r, c + 1)
  <2>1. 0 < Len(w.text) /\ c + 1 > 0
    BY <1>4
  <2>2. InWord(p, r, c + 1, 0)
    <3>1. r.line.words = W /\ r.calls = Said(p, W, (c + 1) - 1) \o FlagCalls(p, w.text, 0)
      BY <1>1, <1>5
    <3>2. r.letters = SubSeq(w.text, 0 + 1, Len(w.text)) /\ \A i \in 1..0 : Flag(p, w.text[i])
      BY <1>2, <1>4
    <3>3. w = W[c + 1]
      OBVIOUS
    <3> HIDE DEF w, W
    <3> QED
      BY <1>2, <2>1, <3>1, <3>2, <3>3 DEF InWord
  <2>3. r.letters # <<>>
    BY <1>2, <1>4
  <2>4. \E k \in Nat : InWord(p, r, c + 1, k)
    BY <2>2
  <2>5. c + 1 <= Len(r.line.words) /\ r.words = SubSeq(r.line.words, (c + 1) + 1, Len(r.line.words))
        /\ (r.only <=> Closed(p, r.line.words, c + 1)) /\ Unknown \notin ToSet(r.calls)
    BY <1>1, <1>3
  <2> HIDE DEF w, W
  <2> QED
    BY <2>3, <2>4, <2>5 DEF ReadWell
<1>7. TurnWell(p, r, c + 1)
  BY <1>1, <1>3 DEF TurnWell
<1>8. \A i \in Nat : i \in r.given <=> Gives(r.calls, i)
  BY DEF TaskWell
<1>9. r.letters # <<>>
  BY <1>2, <1>4
<1> HIDE DEF w, W
<1> QED
  BY <1>6, <1>7, <1>8, <1>9, GoesOnWell

(* The calls of flags.                                                     *)
LEMMA FlagsCall ==
  ASSUME NEW p \in OptionParsers, NEW text \in Seq(STRING), NEW k \in Nat
  PROVE  /\ FlagCalls(p, text, k) \in Seq(CallSet) /\ Len(FlagCalls(p, text, k)) = k
         /\ \A i \in 1..k : FlagCalls(p, text, k)[i] = CallOf(p, FindShort(p, text[i]), NoValue)
<1> DEFINE f == [i \in 1..k |-> CallOf(p, FindShort(p, text[i]), NoValue)]
<1>1. \A i \in 1..k : CallOf(p, FindShort(p, text[i]), NoValue) \in CallSet
  <2>1. \A x : FindShort(p, x) \in Nat
    BY FindRange, ParserFields
  <2>2. NoValue \in ValueSet
    BY DEF ValueSet
  <2> QED
    BY <2>1, <2>2, CallTyped
<1>2. f \in [1..k -> CallSet] /\ \A i \in 1..k : f[i] = CallOf(p, FindShort(p, text[i]), NoValue)
  BY <1>1
<1>3. f \in Seq(CallSet) /\ Len(f) = k
  <2> HIDE DEF f
  <2> QED
    BY <1>2, SeqDef, LenProperties
<1> QED
  BY <1>2, <1>3 DEF FlagCalls

(* One letter more.                                                        *)
LEMMA OneFlagMore ==
  ASSUME NEW p \in OptionParsers, NEW text \in Seq(STRING), NEW k \in Nat
  PROVE  FlagCalls(p, text, k + 1) = Append(FlagCalls(p, text, k), CallOf(p, FindShort(p, text[k + 1]), NoValue))
<1> DEFINE f == FlagCalls(p, text, k)
           g == FlagCalls(p, text, k + 1)
           x == CallOf(p, FindShort(p, text[k + 1]), NoValue)
<1>1. f \in Seq(CallSet) /\ Len(f) = k /\ \A i \in 1..k : f[i] = CallOf(p, FindShort(p, text[i]), NoValue)
  BY FlagsCall
<1>2. g \in Seq(CallSet) /\ Len(g) = k + 1 /\ \A i \in 1..(k + 1) : g[i] = CallOf(p, FindShort(p, text[i]), NoValue)
  BY FlagsCall
<1>3. x \in CallSet
  <2>1. k + 1 \in 1..(k + 1)
    OBVIOUS
  <2>2. g[k + 1] = x
    BY <1>2, <2>1
  <2>3. k + 1 \in 1..Len(g)
    BY <1>2
  <2> HIDE DEF g, x
  <2> QED
    BY <1>2, <2>2, <2>3, ElementOfSeq
<1>4. \A i \in 1..(k + 1) : i \in 1..k \/ i = k + 1
  OBVIOUS
<1> DEFINE a == Append(f, x)
<1> HIDE DEF f, g, x
<1>5. a \in Seq(CallSet) /\ Len(a) = k + 1 /\ (\A i \in 1..k : a[i] = f[i]) /\ a[k + 1] = x
  BY <1>1, <1>3, AppendProperties
<1> HIDE DEF a
<1>6. g[k + 1] = x
  BY <1>2 DEF x
<1>7. \A i \in 1..(k + 1) : g[i] = a[i]
  BY <1>1, <1>2, <1>4, <1>5, <1>6
<1>8. g = a
  BY <1>2, <1>5, <1>7, SeqEqual
<1> QED
  BY <1>8 DEF f, g, x, a

-----------------------------------------------------------------------------
(* Letters of a word.                                                      *)

(* A letter that is a flag calls, and the last one ends the word.          *)
LEMMA FlagLetter ==
  ASSUME NEW p \in OptionParsers, NEW w \in ParsedWords, w.is = "short", NEW next \in ParsedWords,
         NEW k \in Nat, k < Len(w.text), \A i \in 1..(k + 1) : Flag(p, w.text[i])
  PROVE  /\ k + 1 \in 1..Len(OptionCalls(p, w, next))
         /\ OptionCalls(p, w, next)[k + 1] = CallOf(p, FindShort(p, w.text[k + 1]), NoValue)
         /\ k + 1 = Len(w.text) => OptionCalls(p, w, next) = FlagCalls(p, w.text, k + 1) /\ ~WantsNext(p, w)
<1> DEFINE n == Len(w.text)
           f == FirstSpecial(p, w)
           m == CallingLetters(p, w)
           O == OptionCalls(p, w, next)
<1>1. w.text \in Seq(STRING) /\ n \in Nat
  BY WordFacts, LenProperties
<1>2. f \in 0..n /\ (f # 0 => ~Flag(p, w.text[f]))
  BY <1>1, SpecialPlace
<1>3. f = 0 \/ f > k + 1
  <2>1. f \notin 1..(k + 1)
    BY <1>2
  <2> HIDE DEF f, n
  <2> QED
    BY <1>2, <2>1
<1>4. m = IF f = 0 THEN n ELSE f
  BY DEF CallingLetters
<1>5. /\ O \in Seq(CallSet) /\ m \in 1..n /\ Len(O) = m
      /\ \A j \in 1..m : O[j] = CallOf(p, FindShort(p, w.text[j]), LetterValue(p, w, next, j))
  BY LetterCalls
<1>6. k + 1 \in 1..m /\ k + 1 # f
  <2>1. k < n
    OBVIOUS
  <2> HIDE DEF n, f, m
  <2> QED
    BY <1>1, <1>2, <1>3, <1>4, <2>1
<1>7. \A j \in 1..(k + 1) : LetterValue(p, w, next, j) = NoValue
  <2>1. \A j \in 1..(k + 1) : j # f
    <3> HIDE DEF f
    <3> QED
      BY <1>3
  <2> QED
    BY <2>1 DEF LetterValue
<1>8. O[k + 1] = CallOf(p, FindShort(p, w.text[k + 1]), NoValue)
  <2>1. k + 1 \in 1..(k + 1)
    OBVIOUS
  <2> HIDE DEF O, m
  <2> QED
    BY <1>5, <1>6, <1>7, <2>1
<1>9. ASSUME k + 1 = n PROVE O = FlagCalls(p, w.text, k + 1) /\ ~WantsNext(p, w)
  <2>1. f = 0 /\ m = k + 1
    <3> HIDE DEF f, n, m
    <3> QED
      BY <1>2, <1>3, <1>4, <1>9
  <2>2. /\ FlagCalls(p, w.text, k + 1) \in Seq(CallSet) /\ Len(FlagCalls(p, w.text, k + 1)) = k + 1
        /\ \A i \in 1..(k + 1) : FlagCalls(p, w.text, k + 1)[i] = CallOf(p, FindShort(p, w.text[i]), NoValue)
    <3>1. k + 1 \in Nat
      OBVIOUS
    <3> QED
      BY <1>1, <3>1, FlagsCall
  <2>3. \A i \in 1..(k + 1) : O[i] = CallOf(p, FindShort(p, w.text[i]), NoValue)
    <3> HIDE DEF O, m
    <3> QED
      BY <1>5, <1>7, <2>1
  <2>4. Len(O) = k + 1 /\ O \in Seq(CallSet)
    BY <1>5, <2>1
  <2>5. O = FlagCalls(p, w.text, k + 1)
    <3> HIDE DEF O
    <3> QED
      BY <2>2, <2>3, <2>4, SeqEqual
  <2>6. ~WantsNext(p, w)
    <3>1. n # 0
      BY <1>9
    <3> QED
      BY <2>1, <3>1 DEF WantsNext
  <2> QED
    BY <2>5, <2>6
<1>10. k + 1 \in 1..Len(O)
  BY <1>5, <1>6
<1> QED
  BY <1>8, <1>9, <1>10

(* The first that is no flag ends the calls of its word, with what is left *)
(* of the word or the next one.                                            *)
LEMMA SpecialLetter ==
  ASSUME NEW p \in OptionParsers, NEW w \in ParsedWords, w.is = "short", NEW next \in ParsedWords,
         NEW k \in Nat, k < Len(w.text), \A i \in 1..k : Flag(p, w.text[i]), ~Flag(p, w.text[k + 1])
  PROVE  /\ OptionCalls(p, w, next) =
              Append(FlagCalls(p, w.text, k),
                     CallOf(p, FindShort(p, w.text[k + 1]),
                            IF k + 1 = Len(w.text) THEN next ELSE Plain(SubSeq(w.text, (k + 1) + 1, Len(w.text)))))
         /\ WantsNext(p, w) <=> k + 1 = Len(w.text) /\ FindShort(p, w.text[k + 1]) # 0
         /\ FlagCalls(p, w.text, k) \in Seq(CallSet)
<1> DEFINE n == Len(w.text)
           f == FirstSpecial(p, w)
           m == CallingLetters(p, w)
           O == OptionCalls(p, w, next)
           F == FlagCalls(p, w.text, k)
           v == IF k + 1 = Len(w.text) THEN next ELSE Plain(SubSeq(w.text, (k + 1) + 1, Len(w.text)))
           x == CallOf(p, FindShort(p, w.text[k + 1]), v)
<1>1. w.text \in Seq(STRING) /\ n \in Nat
  BY WordFacts, LenProperties
<1>2. f = k + 1
  <2>1. /\ f \in 0..n /\ (f # 0 => ~Flag(p, w.text[f]))
        /\ \A j \in 1..n : ~Flag(p, w.text[j]) => f # 0 /\ f <= j
    BY <1>1, SpecialPlace
  <2>2. k + 1 \in 1..n
    <3>1. k < n
      OBVIOUS
    <3> HIDE DEF n
    <3> QED
      BY <1>1, <3>1
  <2>3. f # 0 /\ f <= k + 1
    BY <2>1, <2>2
  <2>4. f \notin 1..k
    BY <2>1, <2>3
  <2> HIDE DEF f, n
  <2> QED
    BY <1>1, <2>1, <2>3, <2>4
<1>3. m = k + 1
  BY <1>2 DEF CallingLetters
<1>4. /\ O \in Seq(CallSet) /\ m \in 1..n /\ Len(O) = m
      /\ \A j \in 1..m : O[j] = CallOf(p, FindShort(p, w.text[j]), LetterValue(p, w, next, j))
  BY LetterCalls
<1>5. F \in Seq(CallSet) /\ Len(F) = k /\ \A i \in 1..k : F[i] = CallOf(p, FindShort(p, w.text[i]), NoValue)
  BY <1>1, FlagsCall
<1>6. LetterValue(p, w, next, k + 1) = v /\ \A j \in 1..k : LetterValue(p, w, next, j) = NoValue
  <2>1. \A j \in 1..k : j # k + 1
    OBVIOUS
  <2>2. LetterValue(p, w, next, k + 1) = v
    BY <1>2 DEF LetterValue
  <2>3. \A j \in 1..k : LetterValue(p, w, next, j) = NoValue
    BY <1>2, <2>1 DEF LetterValue
  <2> QED
    BY <2>2, <2>3
<1>7. k + 1 \in 1..(k + 1) /\ \A i \in 1..k : i \in 1..(k + 1)
  OBVIOUS
<1>8. O[k + 1] = x /\ (\A i \in 1..k : O[i] = F[i]) /\ Len(O) = k + 1
  <2> HIDE DEF O, m, F, v
  <2> QED
    BY <1>3, <1>4, <1>5, <1>6, <1>7
<1>9. x \in CallSet
  <2>1. k + 1 \in 1..Len(O)
    BY <1>3, <1>4, <1>7
  <2> HIDE DEF O, x
  <2> QED
    BY <1>4, <1>8, <2>1, ElementOfSeq
<1>10. O = Append(F, x)
  <2> DEFINE a == Append(F, x)
  <2> HIDE DEF F, x, O
  <2>1. a \in Seq(CallSet) /\ Len(a) = k + 1 /\ (\A i \in 1..k : a[i] = F[i]) /\ a[k + 1] = x
    BY <1>5, <1>9, AppendProperties
  <2>2. \A i \in 1..(k + 1) : i \in 1..k \/ i = k + 1
    OBVIOUS
  <2> HIDE DEF a
  <2>3. \A i \in 1..(k + 1) : O[i] = a[i]
    BY <1>8, <2>1, <2>2
  <2>4. O = a
    BY <1>4, <1>8, <2>1, <2>3, SeqEqual
  <2> QED
    BY <2>4 DEF a
<1>11. WantsNext(p, w) <=> k + 1 = n /\ FindShort(p, w.text[k + 1]) # 0
  BY <1>2 DEF WantsNext
<1> QED
  BY <1>5, <1>10, <1>11

(* A letter that is not understood leaves its word so.                     *)
LEMMA UnknownAmong ==
  ASSUME NEW s \in Seq(CallSet), NEW i \in 1..Len(s), s[i] = Unknown
  PROVE  Unknown \in ToSet(s)
BY LenProperties DEF ToSet

-----------------------------------------------------------------------------
(* Options that are called.                                                *)

(* The call of an option that gets what it takes.                          *)
LEMMA CallMade ==
  ASSUME NEW p \in OptionParsers, NEW i \in 1..Len(p.options), NEW value \in ValueSet, value # NotString,
         p.options[i].takes <=> value # NoValue
  PROVE  /\ Accepts(p.options[i].does, value) =>
              /\ CallOf(p, i, value) = [who |-> <<"option", i>>, value |-> value]
              /\ CallOf(p, i, value) # Unknown
         /\ ~Accepts(p.options[i].does, value) => CallOf(p, i, value) = Unknown
         /\ CallOf(p, i, value) \in CallSet
<1>0. i \in Nat /\ i # 0 /\ p.options[i].takes \in BOOLEAN
  <2>1. p.options[i] \in ParserOptions
    BY ParserFields
  <2> QED
    BY <2>1, ParserFields DEF ParserOptions
<1>1. CallOf(p, i, value) \in CallSet
  BY <1>0, CallTyped
<1>2. CallOf(p, i, value) = IF ~Accepts(p.options[i].does, value) THEN Unknown ELSE [who |-> <<"option", i>>, value |-> value]
  <2> DEFINE takes == p.options[i].takes
             some == value # NoValue
  <2>1. CallOf(p, i, value) = IF i = 0 \/ (takes # some) \/ value = NotString \/ ~Accepts(p.options[i].does, value) THEN Unknown
                              ELSE [who |-> <<"option", i>>, value |-> value]
    BY DEF CallOf
  <2>2. takes \in BOOLEAN /\ some \in BOOLEAN /\ (takes <=> some)
    BY <1>0
  <2> HIDE DEF takes, some
  <2>3. takes = some
    BY <2>2
  <2> QED
    BY <1>0, <2>1, <2>3
<1>3. [who |-> <<"option", i>>, value |-> value] # Unknown
  BY DEF Unknown
<1> QED
  BY <1>1, <1>2, <1>3

(* An option is read with the value it wants, and its call is made.        *)
LEMMA OptionRead ==
  ASSUME NEW p \in OptionParsers, NEW q, TaskWell(p, q), q.pc \in {"words", "letters"},
         NEW W \in Seq(ParsedWords), W = q.line.words, NEW c \in Nat, c # 0, c <= Len(W),
         Roles(p, W)[c] = "option", NEW x \in CallSet, x # Unknown, \A i : x.who # <<"argument", i>>,
         Said(p, W, c) = Append(q.calls, x), q.only <=> Closed(p, W, c), TurnWell(p, q, c),
         NEW r \in ParseSet, r.line = q.line, r.pc = "words", r.letters = <<>>, r.only <=> q.only,
         r.current = q.current, r.last = q.last, r.given = q.given, r.began = q.began,
         r.calls = Append(q.calls, x),
         \/ ~Wants(p, W, c) /\ r.words = SubSeq(W, c + 1, Len(W))
         \/ Wants(p, W, c) /\ c + 1 <= Len(W) /\ r.words = SubSeq(W, (c + 1) + 1, Len(W))
  PROVE  TaskWell(p, r)
<1>1. q.calls \in Seq(CallSet)
  BY DEF TaskWell, ParseSet
<1>2. Unknown \notin ToSet(q.calls)
  BY DEF TaskWell, ReadWell
<1>3. Unknown \notin ToSet(r.calls)
  BY <1>1, <1>2, GivesMore
<1>4. \A i \in Nat : i \in r.given <=> Gives(r.calls, i)
  <2>1. \A i : Gives(Append(q.calls, x), i) <=> Gives(q.calls, i)
    BY <1>1, GivesMore
  <2>2. \A i \in Nat : i \in q.given <=> Gives(q.calls, i)
    BY DEF TaskWell
  <2> QED
    BY <2>1, <2>2
<1>5. CASE ~Wants(p, W, c)
  <2>1. Between(p, r, c)
    BY <1>5 DEF Between
  <2>2. ReadWell(p, r, c)
    BY <1>3, <1>5, <2>1 DEF ReadWell
  <2>3. TurnWell(p, r, c)
    BY DEF TurnWell
  <2> QED
    BY <1>4, <2>2, <2>3, GoesOnWell
<1>6. CASE Wants(p, W, c)
  <2>1. c + 1 <= Len(W) /\ r.words = SubSeq(W, (c + 1) + 1, Len(W))
    BY <1>6
  <2>2. /\ Said(p, W, c + 1) = Said(p, W, c) \o CallsAt(p, W, c + 1)
        /\ Said(p, W, c) \in Seq(CallSet)
        /\ Closed(p, W, c + 1) <=> (Closed(p, W, c) \/ Roles(p, W)[c + 1] = "mark"
                                     \/ (p.strict /\ Roles(p, W)[c + 1] = "argument"))
        /\ Positionals(p, W, c + 1) = Positionals(p, W, c) + (IF Roles(p, W)[c + 1] = "argument" THEN 1 ELSE 0)
        /\ Roles(p, W)[c + 1] = (IF c > 0 /\ Wants(p, W, c) THEN "value"
                                  ELSE IF Closed(p, W, c) THEN "argument" ELSE OwnRole(W[c + 1]))
    BY <2>1, OneWordMore
  <2>3. Roles(p, W)[c + 1] = "value"
    BY <1>6, <2>2
  <2>4. Said(p, W, c + 1) = Said(p, W, c) /\ ~Wants(p, W, c + 1)
    BY <2>2, <2>3, SilentWord
  <2>5. (Closed(p, W, c + 1) <=> Closed(p, W, c)) /\ Positionals(p, W, c + 1) = Positionals(p, W, c)
    <3>1. Positionals(p, W, c) \in Nat
      BY PositionalsCount
    <3> QED
      BY <2>2, <2>3, <3>1
  <2>6. Between(p, r, c + 1)
    BY <2>4 DEF Between
  <2>7. ReadWell(p, r, c + 1)
    BY <1>3, <2>1, <2>5, <2>6 DEF ReadWell
  <2>8. TurnWell(p, r, c + 1)
    BY <2>5 DEF TurnWell
  <2>9. c + 1 \in Nat
    OBVIOUS
  <2> QED
    BY <1>4, <2>7, <2>8, <2>9, GoesOnWell
<1> QED
  BY <1>5, <1>6

(* A word that is not understood fails the parse.                          *)
LEMMA UnknownFails ==
  ASSUME NEW p \in OptionParsers, NEW q, TaskWell(p, q), q.pc \in {"words", "letters", "advance", "check"},
         NEW i \in 1..Len(q.line.words), Unknown \in ToSet(CallsAt(p, q.line.words, i))
  PROVE  TaskWell(p, [q EXCEPT !.pc = "failed"])
<1>1. /\ q \in ParseSet /\ q.line \in CommandLines
      /\ q.began[1] \in OptionParsers /\ OptionsGrown(q.began[1], p)
  BY BegunParse
<1>2. ~Understood(q.began[1], q.line)
  BY <1>1, UnknownWord
<1> QED
  BY <1>2, FailsWell DEF FailedRightly

(* Nothing is left behind the last element only.                           *)
LEMMA NothingLeft ==
  ASSUME NEW E, NEW s \in Seq(E), NEW c \in Nat, c <= Len(s)
  PROVE  SubSeq(s, c + 1, Len(s)) = <<>> <=> c = Len(s)
<1> DEFINE r == SubSeq(s, c + 1, Len(s))
           m == Len(s)
<1>1. r \in Seq(E) /\ Len(r) = m - c
  BY RestFacts
<1>2. m \in Nat /\ c <= m
  BY LenProperties
<1> HIDE DEF r
<1>3. r = <<>> <=> Len(r) = 0
  BY <1>1, EmptySeq
<1>4. m - c = 0 <=> c = m
  <2> HIDE DEF m
  <2> QED
    BY <1>2
<1>5. r = <<>> <=> c = m
  BY <1>1, <1>3, <1>4
<1> QED
  BY <1>5 DEF r

(* Where a parse is in a word of letters.                                  *)
LEMMA LetterRead ==
  ASSUME NEW p \in OptionParsers, NEW q, TaskWell(p, q), q.pc = "letters"
  PROVE  \E c \in Nat, k \in Nat :
           LET W == q.line.words
               w == W[c]
           IN /\ W \in Seq(ParsedWords) /\ c # 0 /\ c <= Len(W) /\ c \in 1..Len(W) /\ w \in ParsedWords
              /\ Roles(p, W)[c] = "option" /\ w.is = "short" /\ w.text \in Seq(STRING)
              /\ k < Len(w.text) /\ \A i \in 1..k : Flag(p, w.text[i])
              /\ q.letters = SubSeq(w.text, k + 1, Len(w.text)) /\ Head(q.letters) = w.text[k + 1]
              /\ Tail(q.letters) = SubSeq(w.text, (k + 1) + 1, Len(w.text)) /\ Tail(q.letters) \in Seq(STRING)
              /\ Tail(q.letters) = <<>> <=> k + 1 = Len(w.text)
              /\ q.calls = Said(p, W, c - 1) \o FlagCalls(p, w.text, k) /\ Said(p, W, c - 1) \in Seq(CallSet)
              /\ Said(p, W, c) = Said(p, W, c - 1) \o OptionCalls(p, w, NextWord(W, c))
              /\ CallsAt(p, W, c) = OptionCalls(p, w, NextWord(W, c)) /\ NextWord(W, c) \in ParsedWords
              /\ q.words = SubSeq(W, c + 1, Len(W)) /\ (q.only <=> Closed(p, W, c)) /\ TurnWell(p, q, c)
              /\ NextWord(W, c) = (IF q.words = <<>> THEN NotString ELSE Head(q.words))
              /\ q.words # <<>> => c + 1 <= Len(W) /\ Tail(q.words) = SubSeq(W, (c + 1) + 1, Len(W))
                                  /\ Tail(q.words) \in Seq(ParsedWords)
<1> DEFINE W == q.line.words
<1>1. q \in ParseSet /\ q.letters # <<>> /\ q.line \in CommandLines
  BY BegunParse DEF TaskWell
<1>2. W \in Seq(ParsedWords) /\ Len(W) \in Nat
  BY <1>1, LineFields
<1>3. PICK c \in Nat : ReadWell(p, q, c) /\ TurnWell(p, q, c)
  BY DEF TaskWell
<1>4. PICK k \in Nat : InWord(p, q, c, k)
  BY <1>1, <1>3 DEF ReadWell
<1> DEFINE w == W[c]
<1>5. /\ c > 0 /\ Roles(p, W)[c] = "option" /\ w.is = "short"
      /\ k < Len(w.text) /\ q.letters = SubSeq(w.text, k + 1, Len(w.text))
      /\ \A i \in 1..k : Flag(p, w.text[i])
      /\ q.calls = Said(p, W, c - 1) \o FlagCalls(p, w.text, k)
  BY <1>4 DEF InWord
<1>6. c <= Len(W) /\ q.words = SubSeq(W, c + 1, Len(W)) /\ (q.only <=> Closed(p, W, c))
  BY <1>3 DEF ReadWell
<1> HIDE DEF W
<1>7. c \in 1..Len(W) /\ c # 0 /\ c - 1 \in Nat /\ (c - 1) + 1 = c
  <2> DEFINE n == Len(W)
  <2>1. n \in Nat /\ c <= n /\ c > 0
    BY <1>2, <1>5, <1>6
  <2> HIDE DEF n
  <2>2. c \in 1..n /\ c # 0 /\ c - 1 \in Nat /\ (c - 1) + 1 = c
    BY <2>1
  <2> QED
    BY <2>2 DEF n
<1>8. w \in ParsedWords /\ CallsAt(p, W, c) = OptionCalls(p, w, NextWord(W, c)) /\ NextWord(W, c) \in ParsedWords
  BY <1>2, <1>5, <1>7, CallsTyped, CallsByRole
<1>9. Said(p, W, c) = Said(p, W, c - 1) \o CallsAt(p, W, c) /\ Said(p, W, c - 1) \in Seq(CallSet)
  <2> DEFINE d == c - 1
  <2>1. d \in Nat /\ d + 1 <= Len(W) /\ d + 1 = c
    BY <1>6, <1>7
  <2>2. Said(p, W, d + 1) = Said(p, W, d) \o CallsAt(p, W, d + 1) /\ Said(p, W, d) \in Seq(CallSet)
    <3> HIDE DEF d
    <3> QED
      BY <1>2, <2>1, OneWordMore
  <2> QED
    BY <2>1, <2>2
<1> DEFINE text == w.text
           letters == q.letters
           rest == Tail(q.letters)
<1>10. text \in Seq(STRING) /\ Len(text) \in Nat /\ k <= Len(text) /\ k < Len(text)
       /\ letters = SubSeq(text, k + 1, Len(text)) /\ letters # <<>> /\ rest = Tail(letters)
  <2>1. text \in Seq(STRING)
    BY <1>5, <1>8, WordFacts
  <2>2. Len(text) \in Nat
    BY <2>1, LenProperties
  <2>3. k < Len(text)
    BY <1>5
  <2> QED
    BY <1>1, <1>5, <2>1, <2>2, <2>3
<1> HIDE DEF text, letters, rest, w
<1>11. /\ k + 1 <= Len(text) /\ Head(letters) = text[k + 1] /\ rest = SubSeq(text, (k + 1) + 1, Len(text))
       /\ rest \in Seq(STRING)
  <2>1. IsLeft(STRING, text, k, letters)
    BY <1>10, WordsLeft
  <2> QED
    BY <1>10, <2>1 DEF IsLeft
<1>12. rest = <<>> <=> k + 1 = Len(text)
  <2> DEFINE j == k + 1
  <2>1. j \in Nat /\ j <= Len(text) /\ rest = SubSeq(text, j + 1, Len(text))
    BY <1>11
  <2>2. rest = <<>> <=> j = Len(text)
    <3> HIDE DEF j
    <3> QED
      BY <1>10, <2>1, NothingLeft
  <2> QED
    BY <2>2
<1>13. /\ NextWord(W, c) = (IF q.words = <<>> THEN NotString ELSE Head(q.words))
       /\ q.words # <<>> => c + 1 <= Len(W) /\ Tail(q.words) = SubSeq(W, (c + 1) + 1, Len(W))
                           /\ Tail(q.words) \in Seq(ParsedWords)
  <2> DEFINE words == q.words
             E == ParsedWords
  <2>1. W \in Seq(E) /\ c <= Len(W) /\ words = SubSeq(W, c + 1, Len(W))
    BY <1>2, <1>6
  <2> HIDE DEF words, E
  <2>2. IsLeft(E, W, c, words)
    BY <2>1, WordsLeft
  <2> QED
    BY <2>2 DEF words, E, IsLeft
<1> USE DEF text, letters, rest, w, W
<1> QED
  BY <1>2, <1>3, <1>5, <1>6, <1>7, <1>8, <1>9, <1>10, <1>11, <1>12, <1>13

-----------------------------------------------------------------------------
(* The next letter of a word.                                              *)

(* What its option gets, and its call.                                     *)
LetterGets(p, q) ==
  IF Flag(p, Head(q.letters)) THEN NoValue
  ELSE IF Tail(q.letters) # <<>> THEN Plain(Tail(q.letters))
  ELSE IF q.words = <<>> THEN NotString ELSE Head(q.words)
LetterCall(p, q) == CallOf(p, FindShort(p, Head(q.letters)), LetterGets(p, q))

(* One element behind two sequences is behind the second.                  *)
LEMMA AppendBehind ==
  ASSUME NEW E, NEW s \in Seq(E), NEW u \in Seq(E), NEW x \in E
  PROVE  Append(s \o u, x) = s \o Append(u, x) /\ s \o u \in Seq(E)
<1>1. s \o u \in Seq(E) /\ <<x>> \in Seq(E)
  BY ConcatProperties
<1>2. Append(s \o u, x) = (s \o u) \o <<x>>
  BY <1>1, AppendIsConcat
<1>3. Append(u, x) = u \o <<x>>
  BY AppendIsConcat
<1>4. (s \o u) \o <<x>> = s \o (u \o <<x>>)
  BY <1>1, ConcatAssociative
<1> QED
  BY <1>1, <1>2, <1>3, <1>4

(* So is a call behind two sequences of calls.                             *)
LEMMA CallBehind ==
  ASSUME NEW s \in Seq(CallSet), NEW u \in Seq(CallSet), NEW x \in CallSet
  PROVE  Append(s \o u, x) = s \o Append(u, x) /\ s \o u \in Seq(CallSet)
BY AppendBehind

(* A letter that is not understood fails the parse.                        *)
LEMMA LetterFails ==
  ASSUME NEW p \in OptionParsers, NEW q, TaskWell(p, q), q.pc = "letters", LetterCall(p, q) = Unknown
  PROVE  TaskWell(p, [q EXCEPT !.pc = "failed"])
<1> DEFINE W == q.line.words
<1>1. PICK c \in Nat, k \in Nat :
           LET w == W[c]
           IN /\ W \in Seq(ParsedWords) /\ c # 0 /\ c <= Len(W) /\ c \in 1..Len(W) /\ w \in ParsedWords
              /\ Roles(p, W)[c] = "option" /\ w.is = "short" /\ w.text \in Seq(STRING)
              /\ k < Len(w.text) /\ \A i \in 1..k : Flag(p, w.text[i])
              /\ q.letters = SubSeq(w.text, k + 1, Len(w.text)) /\ Head(q.letters) = w.text[k + 1]
              /\ Tail(q.letters) = SubSeq(w.text, (k + 1) + 1, Len(w.text)) /\ Tail(q.letters) \in Seq(STRING)
              /\ Tail(q.letters) = <<>> <=> k + 1 = Len(w.text)
              /\ q.calls = Said(p, W, c - 1) \o FlagCalls(p, w.text, k) /\ Said(p, W, c - 1) \in Seq(CallSet)
              /\ Said(p, W, c) = Said(p, W, c - 1) \o OptionCalls(p, w, NextWord(W, c))
              /\ CallsAt(p, W, c) = OptionCalls(p, w, NextWord(W, c)) /\ NextWord(W, c) \in ParsedWords
              /\ q.words = SubSeq(W, c + 1, Len(W)) /\ (q.only <=> Closed(p, W, c)) /\ TurnWell(p, q, c)
              /\ NextWord(W, c) = (IF q.words = <<>> THEN NotString ELSE Head(q.words))
              /\ q.words # <<>> => c + 1 <= Len(W) /\ Tail(q.words) = SubSeq(W, (c + 1) + 1, Len(W))
                                  /\ Tail(q.words) \in Seq(ParsedWords)
  BY LetterRead
<1> DEFINE w == W[c]
           next == NextWord(W, c)
           O == OptionCalls(p, w, next)
           letter == Head(q.letters)
<1>2. /\ w \in ParsedWords /\ w.is = "short" /\ next \in ParsedWords /\ k < Len(w.text) /\ letter = w.text[k + 1]
      /\ \A i \in 1..k : Flag(p, w.text[i])
      /\ CallsAt(p, W, c) = O
  BY <1>1
<1>3. O \in Seq(CallSet)
  BY <1>2, LetterCalls
<1>4. Unknown \in ToSet(O)
  <2>1. CASE Flag(p, letter)
    <3>1. \A i \in 1..(k + 1) : Flag(p, w.text[i])
      <4>1. \A i \in 1..(k + 1) : i \in 1..k \/ i = k + 1
        OBVIOUS
      <4> HIDE DEF w, letter
      <4> QED
        BY <1>2, <2>1, <4>1
    <3>2. LetterCall(p, q) = CallOf(p, FindShort(p, letter), NoValue)
      BY <2>1 DEF LetterCall, LetterGets
    <3>3. k + 1 \in 1..Len(O) /\ O[k + 1] = CallOf(p, FindShort(p, w.text[k + 1]), NoValue)
      <4> HIDE DEF w, next, letter
      <4> QED
        BY <1>2, <3>1, FlagLetter
    <3>4. O[k + 1] = Unknown
      BY <1>2, <3>2, <3>3
    <3> HIDE DEF O
    <3> QED
      BY <1>3, <3>3, <3>4, UnknownAmong
  <2>2. CASE ~Flag(p, letter)
    <3> DEFINE F == FlagCalls(p, w.text, k)
               v == IF k + 1 = Len(w.text) THEN next ELSE Plain(SubSeq(w.text, (k + 1) + 1, Len(w.text)))
               x == CallOf(p, FindShort(p, w.text[k + 1]), v)
    <3>1. O = Append(F, x) /\ F \in Seq(CallSet)
      <4>1. ~Flag(p, w.text[k + 1])
        BY <1>2, <2>2
      <4> HIDE DEF w, next, letter
      <4> QED
        BY <1>2, <4>1, SpecialLetter
    <3>2. v = LetterGets(p, q)
      BY <1>1, <2>2 DEF LetterGets
    <3>3. x = Unknown
      BY <1>2, <3>2 DEF LetterCall
    <3>4. Unknown \in CallSet
      BY CallTyped
    <3> HIDE DEF F, x, O
    <3> QED
      BY <3>1, <3>3, <3>4, GivesMore
  <2> QED
    BY <2>1, <2>2
<1>5. c \in 1..Len(q.line.words) /\ Unknown \in ToSet(CallsAt(p, q.line.words, c))
  BY <1>1, <1>2, <1>4
<1> HIDE DEF W, O
<1> QED
  BY <1>5, UnknownFails

(* One that is understood is called, and the parse goes on in its word or  *)
(* behind it.                                                              *)
LEMMA LetterKeeps ==
  ASSUME NEW p \in OptionParsers, NEW q, TaskWell(p, q), q.pc = "letters",
         NEW x, x = LetterCall(p, q), x # Unknown, x \in CallSet, \A i : x.who # <<"argument", i>>,
         NEW r \in ParseSet, r.line = q.line, r.only <=> q.only,
         r.current = q.current, r.last = q.last, r.given = q.given, r.began = q.began,
         r.calls = Append(q.calls, x),
         IF Flag(p, Head(q.letters)) /\ Tail(q.letters) # <<>>
         THEN r.pc = "letters" /\ r.letters = Tail(q.letters) /\ r.words = q.words
         ELSE r.pc = "words" /\ r.letters = <<>>
              /\ r.words = (IF ~Flag(p, Head(q.letters)) /\ Tail(q.letters) = <<>> THEN Tail(q.words) ELSE q.words)
  PROVE  TaskWell(p, r)
<1> DEFINE W == q.line.words
<1>1. PICK c \in Nat, k \in Nat :
           LET w == W[c]
           IN /\ W \in Seq(ParsedWords) /\ c # 0 /\ c <= Len(W) /\ c \in 1..Len(W) /\ w \in ParsedWords
              /\ Roles(p, W)[c] = "option" /\ w.is = "short" /\ w.text \in Seq(STRING)
              /\ k < Len(w.text) /\ \A i \in 1..k : Flag(p, w.text[i])
              /\ q.letters = SubSeq(w.text, k + 1, Len(w.text)) /\ Head(q.letters) = w.text[k + 1]
              /\ Tail(q.letters) = SubSeq(w.text, (k + 1) + 1, Len(w.text)) /\ Tail(q.letters) \in Seq(STRING)
              /\ Tail(q.letters) = <<>> <=> k + 1 = Len(w.text)
              /\ q.calls = Said(p, W, c - 1) \o FlagCalls(p, w.text, k) /\ Said(p, W, c - 1) \in Seq(CallSet)
              /\ Said(p, W, c) = Said(p, W, c - 1) \o OptionCalls(p, w, NextWord(W, c))
              /\ CallsAt(p, W, c) = OptionCalls(p, w, NextWord(W, c)) /\ NextWord(W, c) \in ParsedWords
              /\ q.words = SubSeq(W, c + 1, Len(W)) /\ (q.only <=> Closed(p, W, c)) /\ TurnWell(p, q, c)
              /\ NextWord(W, c) = (IF q.words = <<>> THEN NotString ELSE Head(q.words))
              /\ q.words # <<>> => c + 1 <= Len(W) /\ Tail(q.words) = SubSeq(W, (c + 1) + 1, Len(W))
                                  /\ Tail(q.words) \in Seq(ParsedWords)
  BY LetterRead
<1> DEFINE w == W[c]
           next == NextWord(W, c)
           O == OptionCalls(p, w, next)
           S == Said(p, W, c - 1)
           F == FlagCalls(p, w.text, k)
           letter == Head(q.letters)
           rest == Tail(q.letters)
<1>2. /\ w \in ParsedWords /\ w.is = "short" /\ w.text \in Seq(STRING) /\ next \in ParsedWords /\ k < Len(w.text)
      /\ letter = w.text[k + 1] /\ (\A i \in 1..k : Flag(p, w.text[i])) /\ (rest = <<>> <=> k + 1 = Len(w.text))
      /\ rest = SubSeq(w.text, (k + 1) + 1, Len(w.text))
  BY <1>1
<1>3. q.calls = S \o F /\ S \in Seq(CallSet) /\ Said(p, W, c) = S \o O
  BY <1>1
<1>4. F \in Seq(CallSet)
  BY <1>2, FlagsCall
<1>5. Append(q.calls, x) = S \o Append(F, x) /\ q.calls \in Seq(CallSet)
  <2>1. Append(S \o F, x) = S \o Append(F, x) /\ S \o F \in Seq(CallSet)
    <3> HIDE DEF S, F
    <3> QED
      BY <1>3, <1>4, CallBehind
  <2> HIDE DEF S, F
  <2> QED
    BY <1>3, <2>1
<1>6. /\ W \in Seq(ParsedWords) /\ W = q.line.words /\ c # 0 /\ c <= Len(W) /\ Roles(p, W)[c] = "option"
      /\ (q.only <=> Closed(p, W, c)) /\ TurnWell(p, q, c) /\ q.words = SubSeq(W, c + 1, Len(W))
      /\ next = (IF q.words = <<>> THEN NotString ELSE Head(q.words))
      /\ q.words # <<>> => c + 1 <= Len(W) /\ Tail(q.words) = SubSeq(W, (c + 1) + 1, Len(W))
  BY <1>1
<1>7. Wants(p, W, c) <=> WantsNext(p, w)
  BY <1>6 DEF Wants
<1>8. k + 1 \in Nat /\ (k + 1 = Len(w.text) \/ k + 1 < Len(w.text))
  <2> DEFINE n == Len(w.text)
  <2>1. n \in Nat /\ k < n
    BY <1>2, LenProperties
  <2> HIDE DEF n
  <2> QED
    BY <2>1 DEF n
<1>9. ASSUME Flag(p, letter) PROVE \A i \in 1..(k + 1) : Flag(p, w.text[i])
  <2>1. \A i \in 1..(k + 1) : i \in 1..k \/ i = k + 1
    OBVIOUS
  <2> HIDE DEF w, letter
  <2> QED
    BY <1>2, <1>9, <2>1
<1>10. ASSUME Flag(p, letter) PROVE x = CallOf(p, FindShort(p, w.text[k + 1]), NoValue)
  BY <1>2, <1>10 DEF LetterCall, LetterGets
<1>11. CASE Flag(p, letter) /\ rest # <<>>
  <2>1. r.pc = "letters" /\ r.letters = rest /\ r.words = q.words
    BY <1>11
  <2>2. FlagCalls(p, w.text, k + 1) = Append(F, x)
    BY <1>2, <1>10, <1>11, OneFlagMore
  <2>3. r.calls = S \o FlagCalls(p, w.text, k + 1)
    BY <1>5, <2>2
  <2>4. k + 1 < Len(w.text)
    BY <1>2, <1>8, <1>11
  <2>5. InWord(p, r, c, k + 1)
    <3>0. c > 0
      <4>1. c \in Nat /\ c # 0
        BY <1>6
      <4> QED
        BY <4>1
    <3>1. r.line.words = W /\ w = W[c] /\ w.is = "short" /\ Roles(p, W)[c] = "option"
          /\ r.letters = SubSeq(w.text, (k + 1) + 1, Len(w.text)) /\ (\A i \in 1..(k + 1) : Flag(p, w.text[i]))
          /\ r.calls = Said(p, W, c - 1) \o FlagCalls(p, w.text, k + 1)
      BY <1>2, <1>6, <1>9, <1>11, <2>1, <2>3
    <3> HIDE DEF w, W
    <3> QED
      BY <2>4, <3>0, <3>1 DEF InWord
  <2>6. Unknown \notin ToSet(r.calls)
    <3>1. Unknown \notin ToSet(q.calls)
      BY DEF TaskWell, ReadWell
    <3> QED
      BY <1>5, <3>1, GivesMore
  <2>7. ReadWell(p, r, c)
    <3>1. r.letters # <<>> /\ \E j \in Nat : InWord(p, r, c, j)
      BY <1>8, <1>11, <2>1, <2>5
    <3>2. c <= Len(r.line.words) /\ r.words = SubSeq(r.line.words, c + 1, Len(r.line.words))
          /\ (r.only <=> Closed(p, r.line.words, c))
      BY <1>6, <2>1
    <3> HIDE DEF W
    <3> QED
      BY <2>6, <3>1, <3>2 DEF ReadWell
  <2>8. TurnWell(p, r, c)
    BY <1>6, <2>1 DEF TurnWell
  <2>9. \A i \in Nat : i \in r.given <=> Gives(r.calls, i)
    <3>1. \A i : Gives(Append(q.calls, x), i) <=> Gives(q.calls, i)
      BY <1>5, GivesMore
    <3>2. \A i \in Nat : i \in q.given <=> Gives(q.calls, i)
      BY DEF TaskWell
    <3> QED
      BY <3>1, <3>2
  <2>10. r.letters # <<>>
    BY <1>11, <2>1
  <2> HIDE DEF W, w, letter, rest
  <2> QED
    BY <2>1, <2>7, <2>8, <2>9, <2>10, GoesOnWell
<1>12. CASE Flag(p, letter) /\ rest = <<>>
  <2>1. r.pc = "words" /\ r.letters = <<>> /\ r.words = q.words
    BY <1>12
  <2>2. O = FlagCalls(p, w.text, k + 1) /\ ~WantsNext(p, w)
    <3>1. k + 1 = Len(w.text) /\ \A i \in 1..(k + 1) : Flag(p, w.text[i])
      BY <1>2, <1>9, <1>12
    <3> HIDE DEF w, next, letter, rest
    <3> QED
      BY <1>2, <3>1, FlagLetter
  <2>3. O = Append(F, x)
    BY <1>2, <1>10, <1>12, <2>2, OneFlagMore
  <2>4. Said(p, W, c) = Append(q.calls, x)
    BY <1>3, <1>5, <2>3
  <2>5. ~Wants(p, W, c) /\ r.words = SubSeq(W, c + 1, Len(W))
    BY <1>6, <1>7, <2>1, <2>2
  <2> HIDE DEF W, w, letter, rest, O, S, F
  <2> QED
    BY <1>6, <2>1, <2>4, <2>5, OptionRead
<1>13. CASE ~Flag(p, letter)
  <2>1. r.pc = "words" /\ r.letters = <<>> /\ r.words = (IF rest = <<>> THEN Tail(q.words) ELSE q.words)
    BY <1>13
  <2> DEFINE v == IF k + 1 = Len(w.text) THEN next ELSE Plain(SubSeq(w.text, (k + 1) + 1, Len(w.text)))
             y == CallOf(p, FindShort(p, w.text[k + 1]), v)
  <2>2. O = Append(F, y) /\ (WantsNext(p, w) <=> k + 1 = Len(w.text) /\ FindShort(p, w.text[k + 1]) # 0)
    <3>1. ~Flag(p, w.text[k + 1])
      BY <1>2, <1>13
    <3> HIDE DEF w, next, letter, rest
    <3> QED
      BY <1>2, <3>1, SpecialLetter
  <2>3. v = LetterGets(p, q)
    BY <1>2, <1>6, <1>13 DEF LetterGets
  <2>4. y = x
    BY <1>2, <2>3 DEF LetterCall
  <2>5. Said(p, W, c) = Append(q.calls, x)
    BY <1>3, <1>5, <2>2, <2>4
  <2>6. FindShort(p, w.text[k + 1]) # 0
    BY <2>4, NoCall
  <2>7. Wants(p, W, c) <=> rest = <<>>
    BY <1>2, <1>7, <2>2, <2>6
  <2>8. rest = <<>> => q.words # <<>>
    <3>1. q.words = <<>> /\ rest = <<>> => v = NotString
      BY <1>2, <1>6
    <3>2. v = NotString => y = Unknown
      BY NoStringFails
    <3> QED
      BY <2>4, <3>1, <3>2
  <2>9. \/ ~Wants(p, W, c) /\ r.words = SubSeq(W, c + 1, Len(W))
        \/ Wants(p, W, c) /\ c + 1 <= Len(W) /\ r.words = SubSeq(W, (c + 1) + 1, Len(W))
    BY <1>6, <2>1, <2>7, <2>8
  <2> HIDE DEF W, w, letter, rest, O, S, F
  <2> QED
    BY <1>6, <2>1, <2>5, <2>9, OptionRead
<1> QED
  BY <1>11, <1>12, <1>13

-----------------------------------------------------------------------------
(* The steps that read an option.                                          *)

(* A parse that made a call is as it was but for that.                     *)
LEMMA CalledFields ==
  ASSUME NEW q \in ParseSet, NEW x \in CallSet
  PROVE  LET r == [q EXCEPT !.calls = Append(@, x)] IN
         /\ r \in ParseSet /\ r.pc = q.pc /\ r.line = q.line /\ r.words = q.words /\ r.letters = q.letters
         /\ r.only <=> q.only
         /\ r.current = q.current /\ r.last = q.last /\ r.given = q.given
         /\ r.calls = Append(q.calls, x) /\ r.began = q.began
<1>1. q.calls \in Seq(CallSet)
  BY DEF ParseSet
<1>2. Append(q.calls, x) \in Seq(CallSet)
  BY <1>1, AppendProperties
<1> DEFINE s == Append(q.calls, x)
<1> HIDE DEF s
<1>3. LET r == [q EXCEPT !.calls = s] IN
         /\ r \in ParseSet /\ r.pc = q.pc /\ r.line = q.line /\ r.words = q.words /\ r.letters = q.letters
         /\ r.only <=> q.only
         /\ r.current = q.current /\ r.last = q.last /\ r.given = q.given
         /\ r.calls = s /\ r.began = q.began
  BY <1>2 DEF ParseSet, s
<1> QED
  BY <1>3 DEF s

(* The call of an option is of no argument.                                *)
LEMMA OptionCall ==
  ASSUME NEW p \in OptionParsers, NEW i \in Nat, NEW value \in ValueSet
  PROVE  CallOf(p, i, value) \in CallSet /\ \A k : CallOf(p, i, value).who # <<"argument", k>>
<1>1. CallOf(p, i, value) \in CallSet
  BY CallTyped
<1>2. CallOf(p, i, value) = Unknown \/ CallOf(p, i, value) = [who |-> <<"option", i>>, value |-> value]
  BY DEF CallOf
<1> QED
  BY <1>1, <1>2 DEF Unknown

(* A letter that names an option which gets what it takes.                 *)
LEMMA LetterMade ==
  ASSUME NEW p \in OptionParsers, NEW q, NEW i, i = FindShort(p, Head(q.letters)), i # 0,
         NEW value \in ValueSet, value = LetterGets(p, q), value # NotString, p.options[i].takes <=> value # NoValue
  PROVE  /\ i \in 1..Len(p.options)
         /\ Accepts(p.options[i].does, value) =>
              /\ LetterCall(p, q) = [who |-> <<"option", i>>, value |-> value]
              /\ LetterCall(p, q) # Unknown
         /\ ~Accepts(p.options[i].does, value) => LetterCall(p, q) = Unknown
         /\ LetterCall(p, q) \in CallSet /\ \A k : LetterCall(p, q).who # <<"argument", k>>
<1>1. i \in 1..Len(p.options) /\ i \in Nat
  <2>1. i \in 0..Len(p.options) /\ Len(p.options) \in Nat
    BY FindRange, ParserFields
  <2> DEFINE n == Len(p.options)
  <2> HIDE DEF n
  <2>2. i \in 1..n /\ i \in Nat
    BY <2>1 DEF n
  <2> QED
    BY <2>2 DEF n
<1>2. LetterCall(p, q) = CallOf(p, i, value)
  BY DEF LetterCall
<1>3. /\ Accepts(p.options[i].does, value) =>
              /\ CallOf(p, i, value) = [who |-> <<"option", i>>, value |-> value]
              /\ CallOf(p, i, value) # Unknown
      /\ ~Accepts(p.options[i].does, value) => CallOf(p, i, value) = Unknown
      /\ CallOf(p, i, value) \in CallSet
  BY <1>1, CallMade
<1>4. \A k : CallOf(p, i, value).who # <<"argument", k>>
  BY <1>1, OptionCall
<1> QED
  BY <1>1, <1>2, <1>3, <1>4

(* What is known of a parse in a word, and of its next option.             *)
LEMMA InLettersFacts ==
  ASSUME NEW p \in OptionParsers, NEW q, TaskWell(p, q), q.pc = "letters"
  PROVE  /\ q \in ParseSet /\ q.letters \in Seq(STRING) /\ q.letters # <<>> /\ q.words \in Seq(ParsedWords)
         /\ Tail(q.letters) \in Seq(STRING)
         /\ q.words # <<>> => Head(q.words) \in ParsedWords /\ Tail(q.words) \in Seq(ParsedWords)
<1>1. q \in ParseSet /\ q.letters # <<>>
  BY DEF TaskWell
<1>2. q.letters \in Seq(STRING) /\ q.words \in Seq(ParsedWords)
  BY <1>1 DEF ParseSet
<1>3. Tail(q.letters) \in Seq(STRING)
  BY <1>1, <1>2, HeadTailProperties
<1> DEFINE E == ParsedWords
           words == q.words
<1>4. words \in Seq(E)
  BY <1>2
<1> HIDE DEF E, words
<1>5. words # <<>> => Head(words) \in E /\ Tail(words) \in Seq(E)
  BY <1>4, HeadTailProperties
<1> USE DEF E, words
<1> QED
  BY <1>1, <1>2, <1>3, <1>5

(* The parse that goes on from a letter whose option is called.            *)
LEMMA LetterGoes ==
  ASSUME parser \in OptionParsers, NEW t \in DOMAIN parses, TaskWell(parser, parses[t]), parses[t].pc = "letters",
         NEW i, i = FindShort(parser, Head(parses[t].letters)), i # 0,
         NEW value \in ValueSet, value = LetterGets(parser, parses[t]), value # NotString,
         parser.options[i].takes <=> value # NoValue,
         NEW r \in ParseSet, r.line = parses[t].line, r.only <=> parses[t].only,
         r.current = parses[t].current, r.last = parses[t].last, r.given = parses[t].given,
         r.began = parses[t].began, r.calls = parses[t].calls,
         IF Flag(parser, Head(parses[t].letters)) /\ Tail(parses[t].letters) # <<>>
         THEN r.pc = "letters" /\ r.letters = Tail(parses[t].letters) /\ r.words = parses[t].words
         ELSE r.pc = "words" /\ r.letters = <<>>
              /\ r.words = (IF ~Flag(parser, Head(parses[t].letters)) /\ Tail(parses[t].letters) = <<>>
                            THEN Tail(parses[t].words) ELSE parses[t].words),
         Calls(t, r, <<"option", i>>, parser.options[i].does, value)
  PROVE  TaskWell(parser, parses'[t])
<1> DEFINE p == parser
           q == parses[t]
           x == LetterCall(p, q)
           s == [r EXCEPT !.calls = Append(@, x)]
<1>1. /\ Accepts(p.options[i].does, value) =>
           /\ x = [who |-> <<"option", i>>, value |-> value]
           /\ x # Unknown
      /\ ~Accepts(p.options[i].does, value) => x = Unknown
      /\ x \in CallSet /\ \A k : x.who # <<"argument", k>>
  BY LetterMade
<1>2. /\ Accepts(p.options[i].does, value) => parses'[t] = [r EXCEPT !.calls = Append(@, [who |-> <<"option", i>>, value |-> value])]
      /\ ~Accepts(p.options[i].does, value) => parses'[t] = [q EXCEPT !.pc = "failed"]
  BY DEF Calls, Fails
<1>3. CASE ~Accepts(p.options[i].does, value)
  <2>1. LetterCall(p, q) = Unknown
    BY <1>1, <1>3
  <2>2. TaskWell(p, [q EXCEPT !.pc = "failed"])
    BY <2>1, LetterFails
  <2> QED
    BY <1>2, <1>3, <2>2
<1>4. CASE Accepts(p.options[i].does, value)
  <2>1. x = [who |-> <<"option", i>>, value |-> value] /\ x # Unknown /\ x \in CallSet /\ \A k : x.who # <<"argument", k>>
    BY <1>1, <1>4
  <2>2. parses'[t] = s
    BY <1>2, <1>4, <2>1
  <2>3. /\ s \in ParseSet /\ s.pc = r.pc /\ s.line = r.line /\ s.words = r.words /\ s.letters = r.letters
        /\ s.only <=> r.only
        /\ s.current = r.current /\ s.last = r.last /\ s.given = r.given
        /\ s.calls = Append(r.calls, x) /\ s.began = r.began
    BY <2>1, CalledFields
  <2>4. x = LetterCall(p, q)
    OBVIOUS
  <2> HIDE DEF s, x
  <2>5. /\ s \in ParseSet /\ s.line = q.line /\ (s.only <=> q.only)
        /\ s.current = q.current /\ s.last = q.last /\ s.given = q.given /\ s.began = q.began
        /\ s.calls = Append(q.calls, x)
    BY <2>3
  <2>6. IF Flag(p, Head(q.letters)) /\ Tail(q.letters) # <<>>
        THEN s.pc = "letters" /\ s.letters = Tail(q.letters) /\ s.words = q.words
        ELSE s.pc = "words" /\ s.letters = <<>>
             /\ s.words = (IF ~Flag(p, Head(q.letters)) /\ Tail(q.letters) = <<>> THEN Tail(q.words) ELSE q.words)
    BY <2>3
  <2>7. p \in OptionParsers /\ TaskWell(p, q) /\ q.pc = "letters"
    OBVIOUS
  <2> HIDE DEF p, q
  <2>8. TaskWell(p, s)
    BY <2>1, <2>4, <2>5, <2>6, <2>7, LetterKeeps
  <2> QED
    BY <2>2, <2>8 DEF p
<1> QED
  BY <1>3, <1>4

(* An option of one letter.                                                *)
LEMMA ShortOptionWell ==
  ASSUME parser \in OptionParsers, NEW t \in DOMAIN parses, TaskWell(parser, parses[t]), ShortOption(t)
  PROVE  TaskWell(parser, parses'[t])
<1> DEFINE p == parser
           q == parses[t]
           i == FindShort(p, Head(q.letters))
           rest == Tail(q.letters)
           done == [q EXCEPT !.pc = "words", !.letters = <<>>]
<1>1. /\ q.pc = "letters"
      /\ IF i = 0 THEN Fails(t)
         ELSE IF ~p.options[i].takes
           THEN Calls(t, IF rest = <<>> THEN done ELSE [q EXCEPT !.letters = rest], <<"option", i>>, p.options[i].does, NoValue)
         ELSE IF rest # <<>> THEN Calls(t, done, <<"option", i>>, p.options[i].does, Plain(rest))
         ELSE CallsWithNext(t, done, i)
  BY DEF ShortOption
<1>2. /\ q \in ParseSet /\ q.letters \in Seq(STRING) /\ q.letters # <<>> /\ q.words \in Seq(ParsedWords)
      /\ rest \in Seq(STRING)
      /\ q.words # <<>> => Head(q.words) \in ParsedWords /\ Tail(q.words) \in Seq(ParsedWords)
  BY <1>1, InLettersFacts
<1>3. Flag(p, Head(q.letters)) <=> i # 0 /\ ~p.options[i].takes
  BY DEF Flag
<1>4. ASSUME LetterCall(p, q) = Unknown, parses'[t] = [q EXCEPT !.pc = "failed"] PROVE TaskWell(p, parses'[t])
  <2>1. TaskWell(p, [q EXCEPT !.pc = "failed"])
    BY <1>1, <1>4, LetterFails
  <2> QED
    BY <1>4, <2>1
<1>5. CASE i = 0
  <2>1. parses'[t] = [q EXCEPT !.pc = "failed"]
    BY <1>1, <1>5 DEF Fails
  <2>2. LetterCall(p, q) = Unknown
    BY <1>5, NoCall DEF LetterCall
  <2> QED
    BY <1>4, <2>1, <2>2
<1>6. done \in ParseSet /\ done.pc = "words" /\ done.line = q.line /\ done.words = q.words /\ done.letters = <<>>
      /\ (done.only <=> q.only) /\ done.current = q.current /\ done.last = q.last /\ done.given = q.given
      /\ done.calls = q.calls /\ done.began = q.began
  <2>1. <<>> \in Seq(STRING)
    OBVIOUS
  <2>2. done = [q EXCEPT !.pc = "words", !.letters = <<>>]
    OBVIOUS
  <2>3. q \in ParseSet
    BY <1>2
  <2> HIDE DEF q
  <2> QED
    BY <2>1, <2>3 DEF ParseSet
<1>7. NoValue \in ValueSet /\ NoValue # NotString /\ Plain(rest) \in ValueSet /\ Plain(rest) # NotString /\ Plain(rest) # NoValue
  <2>1. Plain(rest) \in ParsedWords /\ Plain(rest) # NotString /\ Plain(rest) # NoValue
    BY <1>2, PlainWord
  <2>2. NoValue # NotString
    BY DEF NoValue, NotString
  <2> QED
    BY <2>1, <2>2 DEF ValueSet
<1>8. CASE i # 0 /\ ~p.options[i].takes /\ rest = <<>>
  <2>1. Calls(t, done, <<"option", i>>, p.options[i].does, NoValue)
    BY <1>1, <1>8
  <2>2. NoValue = LetterGets(p, q) /\ Flag(p, Head(q.letters))
    BY <1>3, <1>8 DEF LetterGets
  <2> HIDE DEF done, i
  <2>3. i = FindShort(p, Head(q.letters))
    BY DEF i
  <2> QED
    BY <1>1, <1>6, <1>7, <1>8, <2>1, <2>2, <2>3, LetterGoes
<1>9. CASE i # 0 /\ ~p.options[i].takes /\ rest # <<>>
  <2> DEFINE r == [q EXCEPT !.letters = rest]
  <2>1. Calls(t, r, <<"option", i>>, p.options[i].does, NoValue)
    BY <1>1, <1>9
  <2>2. NoValue = LetterGets(p, q) /\ Flag(p, Head(q.letters))
    BY <1>3, <1>9 DEF LetterGets
  <2>3. r \in ParseSet /\ r.pc = "letters" /\ r.line = q.line /\ r.words = q.words /\ r.letters = rest
        /\ (r.only <=> q.only) /\ r.current = q.current /\ r.last = q.last /\ r.given = q.given
        /\ r.calls = q.calls /\ r.began = q.began
    <3> HIDE DEF rest
    <3> QED
      BY <1>1, <1>2 DEF ParseSet
  <2> HIDE DEF r, i
  <2>4. i = FindShort(p, Head(q.letters))
    BY DEF i
  <2> QED
    BY <1>1, <1>7, <1>9, <2>1, <2>2, <2>3, <2>4, LetterGoes
<1>10. CASE i # 0 /\ p.options[i].takes /\ rest # <<>>
  <2>1. Calls(t, done, <<"option", i>>, p.options[i].does, Plain(rest))
    BY <1>1, <1>10
  <2>2. Plain(rest) = LetterGets(p, q) /\ ~Flag(p, Head(q.letters))
    BY <1>3, <1>10 DEF LetterGets
  <2> DEFINE value == Plain(rest)
  <2>3. i = FindShort(p, Head(q.letters)) /\ value \in ValueSet /\ value # NotString /\ value # NoValue
        /\ value = LetterGets(p, q) /\ Calls(t, done, <<"option", i>>, p.options[i].does, value)
    BY <1>7, <2>1, <2>2
  <2> HIDE DEF done, i, value
  <2> QED
    BY <1>1, <1>6, <1>10, <2>2, <2>3, LetterGoes
<1>11. CASE i # 0 /\ p.options[i].takes /\ rest = <<>>
  <2>1. CallsWithNext(t, done, i)
    BY <1>1, <1>11
  <2>2. LetterGets(p, q) = (IF q.words = <<>> THEN NotString ELSE Head(q.words)) /\ ~Flag(p, Head(q.letters))
    BY <1>3, <1>11 DEF LetterGets
  <2>3. CASE q.words = <<>> \/ Head(q.words) = NotString
    <3>1. Broken(done) \/ done.words = <<>>
      BY <1>6, <2>3 DEF Broken
    <3>2. parses'[t] = [q EXCEPT !.pc = "failed"]
      BY <2>1, <3>1 DEF CallsWithNext, Fails
    <3>3. LetterGets(p, q) = NotString
      BY <2>2, <2>3
    <3>4. LetterCall(p, q) = Unknown
      BY <3>3, NoStringFails DEF LetterCall
    <3> QED
      BY <1>4, <3>2, <3>4
  <2>4. CASE q.words # <<>> /\ Head(q.words) # NotString
    <3> DEFINE r == [done EXCEPT !.words = Tail(@)]
               value == Head(q.words)
    <3>1. ~(Broken(done) \/ done.words = <<>>)
      BY <1>6, <2>4 DEF Broken
    <3>2. Calls(t, r, <<"option", i>>, p.options[i].does, Head(done.words))
      BY <2>1, <3>1 DEF CallsWithNext
    <3>3. Head(done.words) = value /\ Tail(done.words) = Tail(q.words)
      BY <1>6
    <3>4. Calls(t, r, <<"option", i>>, p.options[i].does, value)
      BY <3>2, <3>3
    <3>5. value \in ValueSet /\ value # NoValue /\ value # NotString /\ value = LetterGets(p, q)
      BY <1>2, <2>2, <2>4, WordFacts DEF ValueSet
    <3>6. r \in ParseSet /\ r.pc = "words" /\ r.line = q.line /\ r.words = Tail(q.words) /\ r.letters = <<>>
          /\ (r.only <=> q.only) /\ r.current = q.current /\ r.last = q.last /\ r.given = q.given
          /\ r.calls = q.calls /\ r.began = q.began
      <4> HIDE DEF done
      <4> QED
        BY <1>2, <1>6, <2>4, <3>3 DEF ParseSet
    <3>7. i = FindShort(p, Head(q.letters))
      OBVIOUS
    <3> HIDE DEF r, i, value, done
    <3> QED
      BY <1>1, <1>11, <2>2, <3>4, <3>5, <3>6, <3>7, LetterGoes
  <2> QED
    BY <2>3, <2>4
<1> QED
  BY <1>5, <1>8, <1>9, <1>10, <1>11

(* The words left of a line.                                               *)
LEMMA ParsedLeft ==
  ASSUME NEW W \in Seq(ParsedWords), NEW c \in Nat, c <= Len(W), NEW rest, rest = SubSeq(W, c + 1, Len(W))
  PROVE  /\ rest = <<>> => NextWord(W, c) = NotString
         /\ rest # <<>> => /\ c + 1 <= Len(W) /\ Head(rest) = W[c + 1] /\ Tail(rest) = SubSeq(W, (c + 1) + 1, Len(W))
                           /\ Tail(rest) \in Seq(ParsedWords) /\ NextWord(W, c) = W[c + 1] /\ W[c + 1] \in ParsedWords
<1> DEFINE E == ParsedWords
<1>1. W \in Seq(E)
  OBVIOUS
<1> HIDE DEF E
<1>2. IsLeft(E, W, c, rest)
  BY <1>1, WordsLeft
<1> QED
  BY <1>2 DEF E, IsLeft

(* What the option of a word that names one gets, and its call.            *)
LongGets(p, q) ==
  IF Head(q.words).is = "valued" THEN Plain(Head(q.words).text)
  ELSE IF ~WantsNext(p, Head(q.words)) THEN NoValue
  ELSE IF Tail(q.words) = <<>> THEN NotString ELSE Head(Tail(q.words))
LongCall(p, q) == CallOf(p, FindLong(p, Head(q.words).name), LongGets(p, q))

(* The word is an option's, and makes that call.                           *)
LEMMA LongRead ==
  ASSUME NEW p \in OptionParsers, NEW q, TaskWell(p, q), q.pc = "words", q.words # <<>>, ~q.only,
         Head(q.words).is \in {"long", "valued"}
  PROVE  \E c \in Nat :
           LET W == q.line.words
               w == W[c]
           IN /\ W \in Seq(ParsedWords) /\ c # 0 /\ c <= Len(W) /\ c \in 1..Len(W)
              /\ w \in ParsedWords /\ w = Head(q.words) /\ q.calls \in Seq(CallSet)
              /\ Roles(p, W)[c] = "option" /\ CallsAt(p, W, c) = <<LongCall(p, q)>>
              /\ LongCall(p, q) \in CallSet => Said(p, W, c) = Append(q.calls, LongCall(p, q))
              /\ q.only <=> Closed(p, W, c)
              /\ TurnWell(p, q, c)
              /\ Wants(p, W, c) <=> WantsNext(p, w)
              /\ Tail(q.words) = SubSeq(W, c + 1, Len(W)) /\ Tail(q.words) \in Seq(ParsedWords)
              /\ Tail(q.words) # <<>> =>
                   /\ c + 1 <= Len(W) /\ Tail(Tail(q.words)) = SubSeq(W, (c + 1) + 1, Len(W))
                   /\ Tail(Tail(q.words)) \in Seq(ParsedWords) /\ Head(Tail(q.words)) \in ParsedWords
<1> DEFINE W == q.line.words
<1>1. PICK d \in Nat :
           LET w == W[d + 1] IN
              /\ W \in Seq(ParsedWords) /\ q.letters = <<>> /\ ReadWell(p, q, d) /\ TurnWell(p, q, d)
              /\ q.calls = Said(p, W, d) /\ Unknown \notin ToSet(q.calls)
              /\ d + 1 <= Len(W) /\ d + 1 \in 1..Len(W) /\ w \in ParsedWords
              /\ Head(q.words) = w /\ Tail(q.words) = SubSeq(W, (d + 1) + 1, Len(W))
              /\ Tail(q.words) \in Seq(ParsedWords)
              /\ Roles(p, W)[d + 1] = (IF q.only THEN "argument" ELSE OwnRole(w))
              /\ q.only <=> Closed(p, W, d)
              /\ Said(p, W, d + 1) = Said(p, W, d) \o CallsAt(p, W, d + 1)
              /\ Said(p, W, d) \in Seq(CallSet) /\ CallsAt(p, W, d + 1) \in Seq(CallSet)
              /\ Closed(p, W, d + 1) <=> (q.only \/ Roles(p, W)[d + 1] = "mark"
                                          \/ (p.strict /\ Roles(p, W)[d + 1] = "argument"))
              /\ Positionals(p, W, d + 1) = Positionals(p, W, d) + (IF Roles(p, W)[d + 1] = "argument" THEN 1 ELSE 0)
              /\ Positionals(p, W, d) \in Nat
  BY NextWordRead
<1> DEFINE c == d + 1
           w == W[c]
<1>2. /\ W \in Seq(ParsedWords) /\ c <= Len(W) /\ c \in 1..Len(W) /\ w \in ParsedWords /\ w = Head(q.words)
      /\ Roles(p, W)[c] = "option" /\ (q.only <=> Closed(p, W, c)) /\ Positionals(p, W, c) = Positionals(p, W, d)
      /\ Tail(q.words) = SubSeq(W, c + 1, Len(W)) /\ Tail(q.words) \in Seq(ParsedWords)
      /\ TurnWell(p, q, d) /\ q.calls \in Seq(CallSet) /\ Said(p, W, c) = q.calls \o CallsAt(p, W, c)
  <2>1. Roles(p, W)[c] = "option"
    BY <1>1 DEF OwnRole
  <2>2. (q.only <=> Closed(p, W, c)) /\ Positionals(p, W, c) = Positionals(p, W, d)
    BY <1>1, <2>1
  <2> QED
    BY <1>1, <2>1, <2>2
<1>3. c \in Nat /\ c # 0
  OBVIOUS
<1>4. TurnWell(p, q, c)
  BY <1>2 DEF TurnWell
<1>5. Wants(p, W, c) <=> WantsNext(p, w)
  BY <1>2 DEF Wants
<1> DEFINE rest == Tail(q.words)
<1> HIDE DEF c, w, W, rest
<1>6. /\ rest = <<>> => NextWord(W, c) = NotString
      /\ rest # <<>> => /\ c + 1 <= Len(W) /\ Head(rest) = W[c + 1] /\ Tail(rest) = SubSeq(W, (c + 1) + 1, Len(W))
                        /\ Tail(rest) \in Seq(ParsedWords) /\ NextWord(W, c) = W[c + 1] /\ W[c + 1] \in ParsedWords
  <2>1. W \in Seq(ParsedWords) /\ c \in Nat /\ c <= Len(W) /\ rest = SubSeq(W, c + 1, Len(W))
    BY <1>2, <1>3 DEF rest
  <2> QED
    BY <2>1, ParsedLeft
<1> DEFINE next == NextWord(W, c)
           x == LongCall(p, q)
<1>7. next = (IF rest = <<>> THEN NotString ELSE Head(rest)) /\ next \in ParsedWords
  <2>1. next \in ParsedWords
    BY <1>2, CallsTyped
  <2> QED
    BY <1>6, <2>1
<1>8. CallsAt(p, W, c) = <<x>>
  <2>1. CallsAt(p, W, c) = OptionCalls(p, w, next)
    BY <1>2, CallsByRole DEF w
  <2>2. w.is \in {"long", "valued"}
    BY <1>2
  <2>3. OptionCalls(p, w, next) =
              <<CASE w.is = "long" -> CallOf(p, FindLong(p, w.name), IF WantsNext(p, w) THEN next ELSE NoValue)
                  [] w.is = "valued" -> CallOf(p, FindLong(p, w.name), Plain(w.text))
                  [] OTHER -> Unknown>>
    <3> HIDE DEF next
    <3> QED
      BY <1>2, <1>7, <2>2, WordOptionCalls
  <2>4. w.is = "long" => x = CallOf(p, FindLong(p, w.name), IF WantsNext(p, w) THEN next ELSE NoValue)
    BY <1>2, <1>7 DEF LongCall, LongGets, rest
  <2>5. w.is = "valued" => x = CallOf(p, FindLong(p, w.name), Plain(w.text))
    BY <1>2 DEF LongCall, LongGets
  <2> HIDE DEF x, next
  <2>6. OptionCalls(p, w, next) = <<x>>
    <3>1. CASE w.is = "long"
      BY <2>3, <2>4, <3>1
    <3>2. CASE w.is = "valued"
      BY <2>3, <2>5, <3>2
    <3> QED
      BY <2>2, <3>1, <3>2
  <2> QED
    BY <2>1, <2>6
<1>9. x \in CallSet => Said(p, W, c) = Append(q.calls, x)
  <2> HIDE DEF x
  <2> QED
    BY <1>2, <1>8, GivesMore
<1> USE DEF c, w, W, rest
<1> QED
  BY <1>2, <1>3, <1>4, <1>5, <1>6, <1>8, <1>9

(* A word whose option is not understood fails the parse.                  *)
LEMMA LongFails ==
  ASSUME NEW p \in OptionParsers, NEW q, TaskWell(p, q), q.pc = "words", q.words # <<>>, ~q.only,
         Head(q.words).is \in {"long", "valued"}, LongCall(p, q) = Unknown
  PROVE  TaskWell(p, [q EXCEPT !.pc = "failed"])
<1> DEFINE W == q.line.words
<1>1. PICK c \in Nat : c \in 1..Len(W) /\ CallsAt(p, W, c) = <<LongCall(p, q)>>
  BY LongRead
<1>2. Unknown \in ToSet(CallsAt(p, W, c))
  BY <1>1 DEF ToSet
<1> QED
  BY <1>1, <1>2, UnknownFails

(* One that is understood is called, and its value is read with it.        *)
LEMMA LongKeeps ==
  ASSUME NEW p \in OptionParsers, NEW q, TaskWell(p, q), q.pc = "words", q.words # <<>>, ~q.only,
         Head(q.words).is \in {"long", "valued"},
         NEW x, x = LongCall(p, q), x # Unknown, x \in CallSet, \A i : x.who # <<"argument", i>>,
         NEW r \in ParseSet, r.line = q.line, r.only <=> q.only, r.pc = "words", r.letters = <<>>,
         r.current = q.current, r.last = q.last, r.given = q.given, r.began = q.began,
         r.calls = Append(q.calls, x),
         IF WantsNext(p, Head(q.words)) THEN Tail(q.words) # <<>> /\ r.words = Tail(Tail(q.words))
         ELSE r.words = Tail(q.words)
  PROVE  TaskWell(p, r)
<1> DEFINE W == q.line.words
<1>1. PICK c \in Nat :
           LET w == W[c]
           IN /\ W \in Seq(ParsedWords) /\ c # 0 /\ c <= Len(W) /\ c \in 1..Len(W)
              /\ w \in ParsedWords /\ w = Head(q.words) /\ q.calls \in Seq(CallSet)
              /\ Roles(p, W)[c] = "option" /\ CallsAt(p, W, c) = <<LongCall(p, q)>>
              /\ LongCall(p, q) \in CallSet => Said(p, W, c) = Append(q.calls, LongCall(p, q))
              /\ q.only <=> Closed(p, W, c)
              /\ TurnWell(p, q, c)
              /\ Wants(p, W, c) <=> WantsNext(p, w)
              /\ Tail(q.words) = SubSeq(W, c + 1, Len(W)) /\ Tail(q.words) \in Seq(ParsedWords)
              /\ Tail(q.words) # <<>> =>
                   /\ c + 1 <= Len(W) /\ Tail(Tail(q.words)) = SubSeq(W, (c + 1) + 1, Len(W))
                   /\ Tail(Tail(q.words)) \in Seq(ParsedWords) /\ Head(Tail(q.words)) \in ParsedWords
  BY LongRead
<1>2. /\ W \in Seq(ParsedWords) /\ W = q.line.words /\ c # 0 /\ c <= Len(W) /\ Roles(p, W)[c] = "option"
      /\ Said(p, W, c) = Append(q.calls, x) /\ (q.only <=> Closed(p, W, c)) /\ TurnWell(p, q, c)
  BY <1>1
<1>3. Wants(p, W, c) <=> WantsNext(p, Head(q.words))
  BY <1>1
<1>4. \/ ~Wants(p, W, c) /\ r.words = SubSeq(W, c + 1, Len(W))
      \/ Wants(p, W, c) /\ c + 1 <= Len(W) /\ r.words = SubSeq(W, (c + 1) + 1, Len(W))
  BY <1>1, <1>3
<1> HIDE DEF W
<1> QED
  BY <1>2, <1>4, OptionRead

(* The parse that goes on from a word whose option is called.              *)
LEMMA LongGoes ==
  ASSUME parser \in OptionParsers, NEW t \in DOMAIN parses, TaskWell(parser, parses[t]), parses[t].pc = "words",
         parses[t].words # <<>>, ~parses[t].only, Head(parses[t].words).is \in {"long", "valued"},
         NEW i, i = FindLong(parser, Head(parses[t].words).name), i # 0,
         NEW value \in ValueSet, value = LongGets(parser, parses[t]), value # NotString,
         parser.options[i].takes <=> value # NoValue,
         NEW r \in ParseSet, r.line = parses[t].line, r.only <=> parses[t].only, r.pc = "words", r.letters = <<>>,
         r.current = parses[t].current, r.last = parses[t].last, r.given = parses[t].given,
         r.began = parses[t].began, r.calls = parses[t].calls,
         IF WantsNext(parser, Head(parses[t].words))
         THEN Tail(parses[t].words) # <<>> /\ r.words = Tail(Tail(parses[t].words))
         ELSE r.words = Tail(parses[t].words),
         Calls(t, r, <<"option", i>>, parser.options[i].does, value)
  PROVE  TaskWell(parser, parses'[t])
<1> DEFINE p == parser
           q == parses[t]
           x == LongCall(p, q)
           s == [r EXCEPT !.calls = Append(@, x)]
<1>1. i \in 1..Len(p.options) /\ i \in Nat
  <2> DEFINE n == Len(p.options)
  <2>1. i \in 0..n /\ n \in Nat
    BY FindRange, ParserFields
  <2> HIDE DEF n
  <2>2. i \in 1..n /\ i \in Nat
    BY <2>1
  <2> QED
    BY <2>2 DEF n
<1>2. x = CallOf(p, i, value)
  BY DEF LongCall
<1>3. /\ Accepts(p.options[i].does, value) =>
           /\ CallOf(p, i, value) = [who |-> <<"option", i>>, value |-> value]
           /\ CallOf(p, i, value) # Unknown
      /\ ~Accepts(p.options[i].does, value) => CallOf(p, i, value) = Unknown
      /\ CallOf(p, i, value) \in CallSet
  BY <1>1, CallMade
<1>4. \A k : CallOf(p, i, value).who # <<"argument", k>>
  BY <1>1, OptionCall
<1>5. /\ Accepts(p.options[i].does, value) => parses'[t] = [r EXCEPT !.calls = Append(@, [who |-> <<"option", i>>, value |-> value])]
      /\ ~Accepts(p.options[i].does, value) => parses'[t] = [q EXCEPT !.pc = "failed"]
  BY DEF Calls, Fails
<1>6. CASE ~Accepts(p.options[i].does, value)
  <2>1. LongCall(p, q) = Unknown
    BY <1>2, <1>3, <1>6
  <2>2. TaskWell(p, [q EXCEPT !.pc = "failed"])
    BY <2>1, LongFails
  <2> QED
    BY <1>5, <1>6, <2>2
<1>7. CASE Accepts(p.options[i].does, value)
  <2>1. x = [who |-> <<"option", i>>, value |-> value] /\ x # Unknown /\ x \in CallSet /\ \A k : x.who # <<"argument", k>>
    BY <1>2, <1>3, <1>4, <1>7
  <2>2. parses'[t] = s
    BY <1>5, <1>7, <2>1
  <2>3. /\ s \in ParseSet /\ s.pc = r.pc /\ s.line = r.line /\ s.words = r.words /\ s.letters = r.letters
        /\ s.only <=> r.only
        /\ s.current = r.current /\ s.last = r.last /\ s.given = r.given
        /\ s.calls = Append(r.calls, x) /\ s.began = r.began
    BY <2>1, CalledFields
  <2>4. x = LongCall(p, q)
    OBVIOUS
  <2> HIDE DEF s, x
  <2>5. /\ s \in ParseSet /\ s.line = q.line /\ (s.only <=> q.only) /\ s.pc = "words" /\ s.letters = <<>>
        /\ s.current = q.current /\ s.last = q.last /\ s.given = q.given /\ s.began = q.began
        /\ s.calls = Append(q.calls, x)
    BY <2>3
  <2>6. IF WantsNext(p, Head(q.words)) THEN Tail(q.words) # <<>> /\ s.words = Tail(Tail(q.words))
        ELSE s.words = Tail(q.words)
    BY <2>3
  <2>7. p \in OptionParsers /\ TaskWell(p, q) /\ q.pc = "words" /\ q.words # <<>> /\ ~q.only
        /\ Head(q.words).is \in {"long", "valued"}
    OBVIOUS
  <2> HIDE DEF p, q
  <2>8. TaskWell(p, s)
    BY <2>1, <2>4, <2>5, <2>6, <2>7, LongKeeps
  <2> QED
    BY <2>2, <2>8 DEF p
<1> QED
  BY <1>6, <1>7

(* An option named in a word.                                              *)
LEMMA LongOptionWell ==
  ASSUME parser \in OptionParsers, NEW t \in DOMAIN parses, TaskWell(parser, parses[t]), LongOption(t)
  PROVE  TaskWell(parser, parses'[t])
<1> DEFINE p == parser
           q == parses[t]
           w == Head(q.words)
           i == FindLong(p, w.name)
           rest == Tail(q.words)
           past == [q EXCEPT !.words = Tail(@)]
<1>1. /\ q.pc = "words" /\ q.words # <<>> /\ ~q.only /\ w.is \in {"long", "valued"}
      /\ IF i = 0 THEN Fails(t)
         ELSE IF p.options[i].takes
           THEN IF w.is = "long" THEN CallsWithNext(t, past, i)
                ELSE Calls(t, past, <<"option", i>>, p.options[i].does, Plain(w.text))
         ELSE IF w.is = "long" THEN Calls(t, past, <<"option", i>>, p.options[i].does, NoValue)
         ELSE Fails(t)
  BY DEF LongOption, AtWord
<1>2. /\ q \in ParseSet /\ q.letters = <<>> /\ w \in ParsedWords /\ rest \in Seq(ParsedWords)
      /\ rest # <<>> => Head(rest) \in ParsedWords /\ Tail(rest) \in Seq(ParsedWords)
  <2>1. \E c \in Nat :
           LET W == q.line.words
               v == W[c]
           IN /\ W \in Seq(ParsedWords) /\ c # 0 /\ c <= Len(W) /\ c \in 1..Len(W)
              /\ v \in ParsedWords /\ v = Head(q.words) /\ q.calls \in Seq(CallSet)
              /\ Roles(p, W)[c] = "option" /\ CallsAt(p, W, c) = <<LongCall(p, q)>>
              /\ LongCall(p, q) \in CallSet => Said(p, W, c) = Append(q.calls, LongCall(p, q))
              /\ q.only <=> Closed(p, W, c)
              /\ TurnWell(p, q, c)
              /\ Wants(p, W, c) <=> WantsNext(p, v)
              /\ Tail(q.words) = SubSeq(W, c + 1, Len(W)) /\ Tail(q.words) \in Seq(ParsedWords)
              /\ Tail(q.words) # <<>> =>
                   /\ c + 1 <= Len(W) /\ Tail(Tail(q.words)) = SubSeq(W, (c + 1) + 1, Len(W))
                   /\ Tail(Tail(q.words)) \in Seq(ParsedWords) /\ Head(Tail(q.words)) \in ParsedWords
    BY <1>1, LongRead
  <2>2. q \in ParseSet /\ q.letters = <<>>
    BY <1>1 DEF TaskWell
  <2> QED
    BY <2>1, <2>2
<1>3. WantsNext(p, w) <=> w.is = "long" /\ i # 0 /\ p.options[i].takes
  BY <1>1 DEF WantsNext
<1>4. ASSUME LongCall(p, q) = Unknown, parses'[t] = [q EXCEPT !.pc = "failed"] PROVE TaskWell(p, parses'[t])
  <2>1. TaskWell(p, [q EXCEPT !.pc = "failed"])
    BY <1>1, <1>4, LongFails
  <2> QED
    BY <1>4, <2>1
<1>5. CASE i = 0
  <2>1. parses'[t] = [q EXCEPT !.pc = "failed"]
    BY <1>1, <1>5 DEF Fails
  <2>2. LongCall(p, q) = Unknown
    BY <1>5, NoCall DEF LongCall
  <2> QED
    BY <1>4, <2>1, <2>2
<1>6. past \in ParseSet /\ past.pc = "words" /\ past.line = q.line /\ past.words = rest /\ past.letters = <<>>
      /\ (past.only <=> q.only) /\ past.current = q.current /\ past.last = q.last /\ past.given = q.given
      /\ past.calls = q.calls /\ past.began = q.began
  <2>1. q \in ParseSet /\ rest \in Seq(ParsedWords) /\ rest = Tail(q.words) /\ q.letters = <<>> /\ q.pc = "words"
    BY <1>1, <1>2
  <2> HIDE DEF q, rest
  <2> QED
    BY <2>1 DEF ParseSet
<1>7. CASE i # 0 /\ ~p.options[i].takes /\ w.is = "long"
  <2>1. Calls(t, past, <<"option", i>>, p.options[i].does, NoValue)
    BY <1>1, <1>7
  <2>2. NoValue = LongGets(p, q) /\ NoValue \in ValueSet /\ NoValue # NotString
    BY <1>3, <1>7 DEF LongGets, ValueSet, NoValue, NotString
  <2>3. i = FindLong(p, Head(q.words).name)
    OBVIOUS
  <2> HIDE DEF past, i
  <2> QED
    BY <1>1, <1>3, <1>6, <1>7, <2>1, <2>2, <2>3, LongGoes
<1>8. CASE i # 0 /\ ~p.options[i].takes /\ w.is # "long"
  <2>1. parses'[t] = [q EXCEPT !.pc = "failed"] /\ w.is = "valued"
    BY <1>1, <1>8 DEF Fails
  <2>2. LongGets(p, q) = Plain(w.text) /\ Plain(w.text) # NoValue
    BY <2>1 DEF LongGets, Plain, NoValue
  <2>3. LongCall(p, q) = Unknown
    <3>1. LongCall(p, q) = CallOf(p, i, Plain(w.text))
      BY <2>2 DEF LongCall
    <3> DEFINE value == Plain(w.text)
    <3> HIDE DEF value
    <3>2. value # NoValue /\ LongCall(p, q) = CallOf(p, i, value)
      BY <2>2, <3>1 DEF value
    <3> DEFINE takes == p.options[i].takes
               some == value # NoValue
    <3>3. (takes # some) => CallOf(p, i, value) = Unknown
      BY DEF CallOf
    <3>4. some /\ ~takes
      BY <1>8, <3>2
    <3> HIDE DEF takes, some
    <3>5. takes # some
      BY <3>4
    <3> QED
      BY <3>2, <3>3, <3>5
  <2> QED
    BY <1>4, <2>1, <2>3
<1>9. CASE i # 0 /\ p.options[i].takes /\ w.is # "long"
  <2> DEFINE value == Plain(w.text)
  <2>1. Calls(t, past, <<"option", i>>, p.options[i].does, value) /\ w.is = "valued"
    BY <1>1, <1>9
  <2>2. value = LongGets(p, q) /\ value \in ValueSet /\ value # NotString /\ value # NoValue
    <3>1. w.text \in Seq(STRING)
      BY <1>2, <2>1, WordFacts
    <3> QED
      BY <2>1, <3>1, PlainWord DEF LongGets, ValueSet
  <2>3. i = FindLong(p, Head(q.words).name)
    OBVIOUS
  <2> HIDE DEF past, i, value
  <2> QED
    BY <1>1, <1>3, <1>6, <1>9, <2>1, <2>2, <2>3, LongGoes
<1>10. CASE i # 0 /\ p.options[i].takes /\ w.is = "long"
  <2>1. CallsWithNext(t, past, i)
    BY <1>1, <1>10
  <2>2. LongGets(p, q) = (IF rest = <<>> THEN NotString ELSE Head(rest)) /\ WantsNext(p, w)
    BY <1>3, <1>10 DEF LongGets
  <2>3. CASE rest = <<>> \/ Head(rest) = NotString
    <3>1. Broken(past) \/ past.words = <<>>
      BY <1>6, <2>3 DEF Broken
    <3>2. parses'[t] = [q EXCEPT !.pc = "failed"]
      BY <2>1, <3>1 DEF CallsWithNext, Fails
    <3>3. LongGets(p, q) = NotString
      BY <2>2, <2>3
    <3>4. LongCall(p, q) = Unknown
      BY <3>3, NoStringFails DEF LongCall
    <3> QED
      BY <1>4, <3>2, <3>4
  <2>4. CASE rest # <<>> /\ Head(rest) # NotString
    <3> DEFINE r == [past EXCEPT !.words = Tail(@)]
               value == Head(rest)
    <3>1. ~(Broken(past) \/ past.words = <<>>)
      BY <1>6, <2>4 DEF Broken
    <3>2. Calls(t, r, <<"option", i>>, p.options[i].does, Head(past.words))
      BY <2>1, <3>1 DEF CallsWithNext
    <3>3. Head(past.words) = value /\ Tail(past.words) = Tail(rest)
      BY <1>6
    <3>4. Calls(t, r, <<"option", i>>, p.options[i].does, value)
      BY <3>2, <3>3
    <3>5. value \in ValueSet /\ value # NoValue /\ value # NotString /\ value = LongGets(p, q)
      BY <1>2, <2>2, <2>4, WordFacts DEF ValueSet
    <3>6. r \in ParseSet /\ r.pc = "words" /\ r.line = q.line /\ r.words = Tail(rest) /\ r.letters = <<>>
          /\ (r.only <=> q.only) /\ r.current = q.current /\ r.last = q.last /\ r.given = q.given
          /\ r.calls = q.calls /\ r.began = q.began
      <4> HIDE DEF past
      <4> QED
        BY <1>2, <1>6, <2>4, <3>3 DEF ParseSet
    <3>7. i = FindLong(p, Head(q.words).name)
      OBVIOUS
    <3>8. IF WantsNext(p, Head(q.words)) THEN Tail(q.words) # <<>> /\ r.words = Tail(Tail(q.words))
          ELSE r.words = Tail(q.words)
      BY <2>2, <2>4, <3>6
    <3> HIDE DEF r, i, value, past
    <3> QED
      BY <1>1, <1>10, <3>4, <3>5, <3>6, <3>7, <3>8, LongGoes
  <2> QED
    BY <2>3, <2>4
<1> QED
  BY <1>5, <1>7, <1>8, <1>9, <1>10

-----------------------------------------------------------------------------
(* The steps that read another word.                                       *)

(* A parse past the mark that ends the options, as EndMark has it, and one *)
(* past an argument.                                                       *)
PastMark(q) == [q EXCEPT !.only = TRUE, !.words = Tail(@)]
PastArgument(q, only, said) ==
  [q EXCEPT !.pc = "advance", !.only = only, !.given = @ \cup {q.current}, !.words = Tail(@), !.calls = Append(@, said)]

(* It reads no options any more.                                           *)
LEMMA MarkFields ==
  ASSUME NEW q \in ParseSet, Tail(q.words) \in Seq(ParsedWords)
  PROVE  LET r == PastMark(q) IN
         /\ r \in ParseSet /\ r.pc = q.pc /\ r.line = q.line /\ r.words = Tail(q.words) /\ r.letters = q.letters
         /\ r.only
         /\ r.current = q.current /\ r.last = q.last /\ r.given = q.given
         /\ r.calls = q.calls /\ r.began = q.began
<1> DEFINE only == TRUE
           words == Tail(q.words)
<1>1. only \in BOOLEAN /\ only /\ words \in Seq(ParsedWords) /\ PastMark(q) = [q EXCEPT !.only = only, !.words = words]
  BY DEF PastMark
<1> HIDE DEF only, words
<1>2. LET r == [q EXCEPT !.only = only, !.words = words] IN
         /\ r \in ParseSet /\ r.pc = q.pc /\ r.line = q.line /\ r.words = words /\ r.letters = q.letters
         /\ r.only = only /\ r.current = q.current /\ r.last = q.last /\ r.given = q.given
         /\ r.calls = q.calls /\ r.began = q.began
  BY <1>1 DEF ParseSet
<1> QED
  BY <1>1, <1>2 DEF words

(* The mark is read.                                                       *)
LEMMA EndMarkWell ==
  ASSUME parser \in OptionParsers, NEW t \in DOMAIN parses, TaskWell(parser, parses[t]), EndMark(t)
  PROVE  TaskWell(parser, parses'[t])
<1> DEFINE p == parser
           q == parses[t]
           r == PastMark(q)
<1>1. q.pc = "words" /\ q.words # <<>> /\ ~q.only /\ Head(q.words).is = "dashes"
  BY DEF EndMark, AtWord
<1>2. parses'[t] = r
  BY DEF EndMark, PastMark
<1>3. q \in ParseSet /\ q.letters = <<>>
  BY <1>1 DEF TaskWell
<1>4. Tail(q.words) \in Seq(ParsedWords)
  BY <1>1, NextWordRead
<1> HIDE DEF p, q
<1>5. /\ r \in ParseSet /\ r.pc = q.pc /\ r.line = q.line /\ r.words = Tail(q.words) /\ r.letters = q.letters
      /\ r.only
      /\ r.current = q.current /\ r.last = q.last /\ r.given = q.given
      /\ r.calls = q.calls /\ r.began = q.began
  BY <1>3, <1>4, MarkFields
<1> HIDE DEF r
<1>6. TaskWell(p, q) /\ p \in OptionParsers /\ r.pc = "words" /\ r.letters = <<>>
  BY <1>1, <1>3, <1>5 DEF p, q
<1>7. TaskWell(p, r)
  BY <1>1, <1>5, <1>6, EndMarkKeeps
<1> QED
  BY <1>2, <1>7 DEF p

(* A word of letters begins.                                               *)
LEMMA ShortWordWell ==
  ASSUME parser \in OptionParsers, NEW t \in DOMAIN parses, TaskWell(parser, parses[t]), ShortWord(t)
  PROVE  TaskWell(parser, parses'[t])
<1> DEFINE p == parser
           q == parses[t]
           r == [q EXCEPT !.pc = "letters", !.letters = Head(q.words).text, !.words = Tail(q.words)]
<1>1. q.pc = "words" /\ q.words # <<>> /\ ~q.only /\ Head(q.words).is = "short"
  BY DEF ShortWord, AtWord
<1>2. parses'[t] = r
  BY DEF ShortWord
<1>3. q \in ParseSet
  BY DEF TaskWell
<1>4. Tail(q.words) \in Seq(ParsedWords) /\ Head(q.words) \in ParsedWords
  BY <1>1, NextWordRead
<1>5. Head(q.words).text \in Seq(STRING)
  BY <1>1, <1>4, WordFacts
<1>6. TaskWell(p, q) /\ p \in OptionParsers
  OBVIOUS
<1> HIDE DEF p, q
<1>7. /\ r \in ParseSet /\ r.pc = "letters" /\ r.line = q.line /\ r.words = Tail(q.words) /\ r.letters = Head(q.words).text
      /\ r.only <=> q.only
      /\ r.current = q.current /\ r.last = q.last /\ r.given = q.given
      /\ r.calls = q.calls /\ r.began = q.began
  BY <1>3, <1>4, <1>5 DEF ParseSet
<1> HIDE DEF r
<1>8. TaskWell(p, r)
  BY <1>1, <1>6, <1>7, ShortWordKeeps
<1> QED
  BY <1>2, <1>8 DEF p

(* An argument was read.                                                   *)
LEMMA ArgumentFields ==
  ASSUME NEW q \in ParseSet, Tail(q.words) \in Seq(ParsedWords), NEW only \in BOOLEAN, NEW said \in CallSet
  PROVE  LET r == PastArgument(q, only, said) IN
         /\ r \in ParseSet /\ r.pc = "advance" /\ r.line = q.line /\ r.words = Tail(q.words) /\ r.letters = q.letters
         /\ r.only = only
         /\ r.current = q.current /\ r.last = q.last /\ r.given = q.given \cup {q.current}
         /\ r.calls = Append(q.calls, said) /\ r.began = q.began
<1> DEFINE words == Tail(q.words)
           calls_ == Append(q.calls, said)
           given == q.given \cup {q.current}
<1>1. words \in Seq(ParsedWords) /\ calls_ \in Seq(CallSet) /\ given \in SUBSET Nat
  <2>1. q.calls \in Seq(CallSet) /\ q.given \in SUBSET Nat /\ q.current \in Nat
    BY DEF ParseSet
  <2> QED
    BY <2>1, AppendProperties
<1>2. PastArgument(q, only, said) = [q EXCEPT !.pc = "advance", !.only = only, !.given = given, !.words = words, !.calls = calls_]
  BY DEF PastArgument
<1> HIDE DEF words, calls_, given
<1>3. LET r == [q EXCEPT !.pc = "advance", !.only = only, !.given = given, !.words = words, !.calls = calls_] IN
         /\ r \in ParseSet /\ r.pc = "advance" /\ r.line = q.line /\ r.words = words /\ r.letters = q.letters
         /\ r.only = only
         /\ r.current = q.current /\ r.last = q.last /\ r.given = given
         /\ r.calls = calls_ /\ r.began = q.began
  BY <1>1 DEF ParseSet
<1> QED
  BY <1>2, <1>3 DEF words, calls_, given

(* The call of an argument, made or not.                                   *)
LEMMA ArgumentMade ==
  ASSUME NEW p \in OptionParsers, NEW i \in 1..Len(p.arguments), NEW w \in ParsedWords, w # NotString
  PROVE  /\ Accepts(p.arguments[i].does, w) =>
              /\ ArgumentCall(p, i, w) = [who |-> <<"argument", i>>, value |-> w]
              /\ ArgumentCall(p, i, w) # Unknown
         /\ ~Accepts(p.arguments[i].does, w) => ArgumentCall(p, i, w) = Unknown
         /\ ArgumentCall(p, i, w) \in CallSet
<1>1. i \in Nat /\ ~(i > Len(p.arguments))
  <2> DEFINE n == Len(p.arguments)
  <2>1. n \in Nat /\ i \in 1..n
    BY ParserFields
  <2> HIDE DEF n
  <2>2. i \in Nat /\ ~(i > n)
    BY <2>1
  <2> QED
    BY <2>2 DEF n
<1>2. ArgumentCall(p, i, w) \in CallSet
  BY <1>1, CallTyped
<1>3. ArgumentCall(p, i, w) = IF ~Accepts(p.arguments[i].does, w) THEN Unknown ELSE [who |-> <<"argument", i>>, value |-> w]
  BY <1>1 DEF ArgumentCall
<1>4. [who |-> <<"argument", i>>, value |-> w] # Unknown
  BY DEF Unknown
<1> QED
  BY <1>2, <1>3, <1>4

(* A word that is an argument is called with, as the one whose turn it is. *)
LEMMA ArgumentKeeps ==
  ASSUME NEW p \in OptionParsers, NEW q, TaskWell(p, q), q.pc = "words", q.words # <<>>,
         Head(q.words).is = "plain" \/ q.only, q.current # 0,
         NEW x, x = ArgumentCall(p, q.current, Head(q.words)), x # Unknown, x.who = <<"argument", q.current>>, x \in CallSet,
         NEW r \in ParseSet, r.pc = "advance", r.line = q.line, r.words = Tail(q.words), r.letters = q.letters,
         r.only <=> q.only \/ p.strict, r.current = q.current, r.last = q.last, r.given = q.given \cup {q.current},
         r.calls = Append(q.calls, x), r.began = q.began
  PROVE  TaskWell(p, r)
<1> DEFINE W == q.line.words
<1>1. PICK d \in Nat :
           LET w == W[d + 1] IN
              /\ W \in Seq(ParsedWords) /\ q.letters = <<>> /\ ReadWell(p, q, d) /\ TurnWell(p, q, d)
              /\ q.calls = Said(p, W, d) /\ Unknown \notin ToSet(q.calls)
              /\ d + 1 <= Len(W) /\ d + 1 \in 1..Len(W) /\ w \in ParsedWords
              /\ Head(q.words) = w /\ Tail(q.words) = SubSeq(W, (d + 1) + 1, Len(W))
              /\ Tail(q.words) \in Seq(ParsedWords)
              /\ Roles(p, W)[d + 1] = (IF q.only THEN "argument" ELSE OwnRole(w))
              /\ q.only <=> Closed(p, W, d)
              /\ Said(p, W, d + 1) = Said(p, W, d) \o CallsAt(p, W, d + 1)
              /\ Said(p, W, d) \in Seq(CallSet) /\ CallsAt(p, W, d + 1) \in Seq(CallSet)
              /\ Closed(p, W, d + 1) <=> (q.only \/ Roles(p, W)[d + 1] = "mark"
                                          \/ (p.strict /\ Roles(p, W)[d + 1] = "argument"))
              /\ Positionals(p, W, d + 1) = Positionals(p, W, d) + (IF Roles(p, W)[d + 1] = "argument" THEN 1 ELSE 0)
              /\ Positionals(p, W, d) \in Nat
  BY NextWordRead
<1> DEFINE c == d + 1
           n == Positionals(p, W, d)
<1>2. Roles(p, W)[c] = "argument"
  BY <1>1 DEF OwnRole
<1>3. /\ W \in Seq(ParsedWords) /\ c <= Len(W) /\ Head(q.words) = W[c] /\ r.words = SubSeq(W, c + 1, Len(W))
      /\ (r.only <=> Closed(p, W, c)) /\ Positionals(p, W, c) = n + 1 /\ n \in Nat
      /\ q.calls \in Seq(CallSet) /\ Unknown \notin ToSet(q.calls)
      /\ Said(p, W, c) = q.calls \o CallsAt(p, W, c) /\ r.letters = <<>>
  BY <1>1, <1>2
<1>4. q.current = ArgumentFor(p, n + 1) /\ q.current \in 1..Len(p.arguments)
  <2>1. TurnWell(p, q, d)
    BY <1>1
  <2> QED
    BY <2>1 DEF TurnWell
<1> HIDE DEF c, n, W
<1>5. CallsAt(p, W, c) = <<x>>
  <2>1. CallsAt(p, W, c) = <<ArgumentCall(p, ArgumentFor(p, Positionals(p, W, c)), W[c])>>
    BY <1>2, CallsByRole
  <2> QED
    BY <1>3, <1>4, <2>1
<1>6. /\ Append(q.calls, x) = q.calls \o <<x>>
      /\ \A i : Gives(Append(q.calls, x), i) <=> Gives(q.calls, i) \/ x.who = <<"argument", i>>
      /\ Unknown \in ToSet(Append(q.calls, x)) <=> Unknown \in ToSet(q.calls) \/ x = Unknown
  BY <1>3, GivesMore
<1>7. r.calls = Said(p, W, c) /\ Unknown \notin ToSet(r.calls)
  BY <1>3, <1>5, <1>6
<1>8. c \in Nat
  BY DEF c
<1>9. ReadWell(p, r, c)
  <2>1. r.line.words = W
    BY DEF W
  <2>2. ~Wants(p, W, c)
    BY <1>2 DEF Wants
  <2>3. Between(p, r, c)
    BY <1>7, <2>1, <2>2 DEF Between
  <2> QED
    BY <1>3, <1>7, <2>1, <2>3 DEF ReadWell
<1>10. TurnWell(p, r, c)
  <2>1. r.line.words = W
    BY DEF W
  <2> QED
    BY <1>3, <1>4, <2>1 DEF TurnWell
<1>11. \A i \in Nat : i \in r.given <=> Gives(r.calls, i)
  <2>1. \A i \in Nat : i \in q.given <=> Gives(q.calls, i)
    BY DEF TaskWell
  <2>2. \A i : x.who = <<"argument", i>> <=> i = q.current
    OBVIOUS
  <2> QED
    BY <1>6, <2>1, <2>2
<1>12. (r.pc = "letters" <=> r.letters # <<>>) /\ r.pc \in {"words", "letters", "advance", "check"}
  BY <1>3
<1> QED
  BY <1>8, <1>9, <1>10, <1>11, <1>12, GoesOnWell

(* A word that is an argument no more is wanted of, or that its callback   *)
(* does not take, fails the parse.                                         *)
LEMMA ArgumentFails ==
  ASSUME NEW p \in OptionParsers, NEW q, TaskWell(p, q), q.pc = "words", q.words # <<>>,
         Head(q.words).is = "plain" \/ q.only,
         q.current = 0 \/ ArgumentCall(p, q.current, Head(q.words)) = Unknown
  PROVE  TaskWell(p, [q EXCEPT !.pc = "failed"])
<1> DEFINE W == q.line.words
           b == q.began[1]
<1>1. PICK d \in Nat :
           LET w == W[d + 1] IN
              /\ W \in Seq(ParsedWords) /\ q.letters = <<>> /\ ReadWell(p, q, d) /\ TurnWell(p, q, d)
              /\ q.calls = Said(p, W, d) /\ Unknown \notin ToSet(q.calls)
              /\ d + 1 <= Len(W) /\ d + 1 \in 1..Len(W) /\ w \in ParsedWords
              /\ Head(q.words) = w /\ Tail(q.words) = SubSeq(W, (d + 1) + 1, Len(W))
              /\ Tail(q.words) \in Seq(ParsedWords)
              /\ Roles(p, W)[d + 1] = (IF q.only THEN "argument" ELSE OwnRole(w))
              /\ q.only <=> Closed(p, W, d)
              /\ Said(p, W, d + 1) = Said(p, W, d) \o CallsAt(p, W, d + 1)
              /\ Said(p, W, d) \in Seq(CallSet) /\ CallsAt(p, W, d + 1) \in Seq(CallSet)
              /\ Closed(p, W, d + 1) <=> (q.only \/ Roles(p, W)[d + 1] = "mark"
                                          \/ (p.strict /\ Roles(p, W)[d + 1] = "argument"))
              /\ Positionals(p, W, d + 1) = Positionals(p, W, d) + (IF Roles(p, W)[d + 1] = "argument" THEN 1 ELSE 0)
              /\ Positionals(p, W, d) \in Nat
  BY NextWordRead
<1>2. Roles(p, W)[d + 1] = "argument"
  BY <1>1 DEF OwnRole
<1>3. /\ q \in ParseSet /\ q.line \in CommandLines /\ b \in OptionParsers /\ OptionsGrown(b, p)
  BY BegunParse
<1>4. d + 1 \in 1..Len(W) /\ d + 1 <= Len(W) /\ Head(q.words) = W[d + 1] /\ TurnWell(p, q, d)
      /\ Positionals(p, W, d + 1) = Positionals(p, W, d) + 1
  BY <1>1, <1>2
<1>5. CASE q.current = 0
  <2>1. Len(b.arguments) <= Positionals(p, W, d) /\ Fixed(b.arguments)
    BY <1>4, <1>5 DEF TurnWell
  <2>2. ~Understood(b, q.line)
    <3> HIDE DEF b
    <3> QED
      BY <1>2, <1>3, <1>4, <2>1, TooManyArguments
  <2>3. FailedRightly(p, q)
    BY <2>2 DEF FailedRightly
  <2> QED
    BY <2>3, FailsWell
<1>6. CASE q.current # 0
  <2>1. q.current = ArgumentFor(p, Positionals(p, W, d) + 1)
    BY <1>4, <1>6 DEF TurnWell
  <2>2. CallsAt(p, W, d + 1) = <<ArgumentCall(p, ArgumentFor(p, Positionals(p, W, d + 1)), W[d + 1])>>
    BY <1>2, CallsByRole
  <2>3. CallsAt(p, W, d + 1) = <<Unknown>>
    BY <1>4, <1>6, <2>1, <2>2
  <2>4. Unknown \in ToSet(CallsAt(p, W, d + 1))
    BY <2>3 DEF ToSet
  <2> QED
    BY <1>4, <2>4, UnknownFails
<1> QED
  BY <1>5, <1>6

(* An argument is read.                                                    *)
LEMMA PositionalWell ==
  ASSUME parser \in OptionParsers, NEW t \in DOMAIN parses, TaskWell(parser, parses[t]), Positional(t)
  PROVE  TaskWell(parser, parses'[t])
<1> DEFINE p == parser
           q == parses[t]
           w == Head(q.words)
           i == q.current
           only == q.only \/ p.strict
           said == [who |-> <<"argument", i>>, value |-> w]
           r == PastArgument(q, only, said)
<1>1. q.pc = "words" /\ q.words # <<>> /\ (w.is = "plain" \/ q.only) /\ (w.is = "plain" \/ w # NotString)
  BY DEF Positional, AtWord, Broken
<1>2. q \in ParseSet /\ q.letters = <<>> /\ w \in ParsedWords /\ Tail(q.words) \in Seq(ParsedWords)
      /\ (q.current # 0 => q.current \in 1..Len(p.arguments))
  <2>1. q \in ParseSet /\ q.letters = <<>>
    BY <1>1 DEF TaskWell
  <2>2. w \in ParsedWords /\ Tail(q.words) \in Seq(ParsedWords)
    BY <1>1, NextWordRead
  <2>3. \E c \in Nat : TurnWell(p, q, c)
    BY <1>1 DEF TaskWell
  <2>4. q.current # 0 => q.current \in 1..Len(p.arguments)
    BY <1>1, <2>3 DEF TurnWell
  <2> QED
    BY <2>1, <2>2, <2>4
<1>3. w # NotString
  BY <1>1 DEF NotString
<1>4. ASSUME i = 0 \/ ArgumentCall(p, i, w) = Unknown, parses'[t] = [q EXCEPT !.pc = "failed"] PROVE TaskWell(p, parses'[t])
  <2>1. TaskWell(p, [q EXCEPT !.pc = "failed"])
    BY <1>1, <1>4, ArgumentFails
  <2> QED
    BY <1>4, <2>1
<1>5. CASE i = 0
  <2>1. parses'[t] = [q EXCEPT !.pc = "failed"]
    BY <1>5 DEF Positional, Fails
  <2> QED
    BY <1>4, <1>5, <2>1
<1>6. CASE i # 0
  <2>1. /\ Accepts(p.arguments[i].does, w) => ArgumentCall(p, i, w) = said /\ ArgumentCall(p, i, w) # Unknown
        /\ ~Accepts(p.arguments[i].does, w) => ArgumentCall(p, i, w) = Unknown
        /\ ArgumentCall(p, i, w) \in CallSet
    <3>1. i \in 1..Len(p.arguments)
      BY <1>2, <1>6
    <3>2. /\ Accepts(p.arguments[i].does, w) =>
                /\ ArgumentCall(p, i, w) = [who |-> <<"argument", i>>, value |-> w]
                /\ ArgumentCall(p, i, w) # Unknown
          /\ ~Accepts(p.arguments[i].does, w) => ArgumentCall(p, i, w) = Unknown
          /\ ArgumentCall(p, i, w) \in CallSet
      <4>1. p \in OptionParsers /\ w \in ParsedWords
        BY <1>2
      <4> HIDE DEF w, i, p
      <4> QED
        BY <1>3, <3>1, <4>1, ArgumentMade
    <3> QED
      BY <3>2
  <2>2. CASE ~Accepts(p.arguments[i].does, w)
    <3>1. parses'[t] = [q EXCEPT !.pc = "failed"]
      BY <1>6, <2>2 DEF Positional, Calls, Fails
    <3> QED
      BY <1>4, <2>1, <2>2, <3>1
  <2>3. CASE Accepts(p.arguments[i].does, w)
    <3>1. parses'[t] = r
      BY <1>6, <2>3 DEF Positional, Calls, PastArgument
    <3>2. said \in CallSet /\ said # Unknown /\ said = ArgumentCall(p, i, w) /\ said.who = <<"argument", i>>
      BY <2>1, <2>3
    <3>3. only \in BOOLEAN /\ (only <=> q.only \/ p.strict)
      OBVIOUS
    <3> HIDE DEF only, said, r
    <3>4. /\ r \in ParseSet /\ r.pc = "advance" /\ r.line = q.line /\ r.words = Tail(q.words) /\ r.letters = q.letters
          /\ r.only = only
          /\ r.current = q.current /\ r.last = q.last /\ r.given = q.given \cup {q.current}
          /\ r.calls = Append(q.calls, said) /\ r.began = q.began
      <4>1. q \in ParseSet /\ Tail(q.words) \in Seq(ParsedWords)
        BY <1>2
      <4> HIDE DEF q
      <4> QED
        BY <3>2, <3>3, <4>1, ArgumentFields DEF r
    <3>5. TaskWell(p, q) /\ p \in OptionParsers
      OBVIOUS
    <3>6. r.only <=> q.only \/ p.strict
      BY <3>3, <3>4
    <3>7. w = Head(q.words) /\ i = q.current
      OBVIOUS
    <3> HIDE DEF p, q, w, i
    <3>8. TaskWell(p, r)
      BY <1>1, <1>6, <3>2, <3>4, <3>5, <3>6, <3>7, ArgumentKeeps
    <3> QED
      BY <3>1, <3>8 DEF p
  <2> QED
    BY <2>2, <2>3
<1> QED
  BY <1>5, <1>6

(* The turn passes to the next argument, unless this one takes all that    *)
(* follow.                                                                 *)
LEMMA TurnPasses ==
  ASSUME NEW p \in OptionParsers, NEW n \in Nat, NEW i, i = ArgumentFor(p, n), i \in 1..Len(p.arguments)
  PROVE  /\ p.arguments[i].multiple => ArgumentFor(p, n + 1) = i
         /\ ~p.arguments[i].multiple /\ i # Len(p.arguments) =>
              ArgumentFor(p, n + 1) = i + 1 /\ i + 1 \in 1..Len(p.arguments)
         /\ ~p.arguments[i].multiple /\ i = Len(p.arguments) => n = i /\ Fixed(p.arguments)
<1> DEFINE open == OpenPlace(p)
           m == Len(p.arguments)
<1>1. /\ ArgumentFor(p, n) = IF open # 0 /\ n > open THEN open ELSE n
      /\ ArgumentFor(p, n + 1) = IF open # 0 /\ n + 1 > open THEN open ELSE n + 1
      /\ open \in 0..m /\ m \in Nat
      /\ open # 0 => p.arguments[open].multiple
      /\ \A j \in 1..m : p.arguments[j].multiple => open # 0 /\ open <= j
  BY ArgumentForIs, ParserFields
<1> HIDE DEF open
<1>2. ASSUME ~p.arguments[i].multiple, i = m PROVE n = i /\ Fixed(p.arguments)
  <2>1. open # 0 => open # i
    BY <1>1, <1>2
  <2>2. i \in 1..m
    OBVIOUS
  <2> HIDE DEF m
  <2>3. n = i /\ open = 0
    BY <1>1, <1>2, <2>1, <2>2
  <2>4. \A j \in 1..m : ~p.arguments[j].multiple
    BY <1>1, <2>3
  <2> QED
    BY <2>3, <2>4 DEF Fixed, m
<1>3. ASSUME ~p.arguments[i].multiple, i # m PROVE ArgumentFor(p, n + 1) = i + 1 /\ i + 1 \in 1..m
  <2>1. open # 0 => open # i
    BY <1>1, <1>3
  <2>2. i \in 1..m
    OBVIOUS
  <2> HIDE DEF m
  <2> QED
    BY <1>1, <1>3, <2>1, <2>2
<1>4. ASSUME p.arguments[i].multiple PROVE ArgumentFor(p, n + 1) = i
  <2>1. open # 0 /\ open <= i
    BY <1>1, <1>4
  <2>2. i \in 1..m
    OBVIOUS
  <2> HIDE DEF m
  <2> QED
    BY <1>1, <2>1, <2>2
<1> QED
  BY <1>2, <1>3, <1>4

(* The argument next in turn is looked up.                                 *)
LEMMA NextInTurnWell ==
  ASSUME parser \in OptionParsers, NEW t \in DOMAIN parses, TaskWell(parser, parses[t]), NextInTurn(t)
  PROVE  TaskWell(parser, parses'[t])
<1> DEFINE p == parser
           q == parses[t]
           b == q.began[1]
           i == q.current
           m == Len(p.arguments)
           next == IF p.arguments[i].multiple THEN i ELSE IF i = m THEN 0 ELSE i + 1
           r == [q EXCEPT !.pc = "words", !.current = next]
           W == q.line.words
<1>1. q.pc = "advance" /\ parses'[t] = r
  BY DEF NextInTurn
<1>2. q \in ParseSet /\ q.letters = <<>> /\ b \in OptionParsers /\ OptionsGrown(b, p) /\ i \in Nat
  <2>1. q \in ParseSet /\ q.letters = <<>>
    BY <1>1 DEF TaskWell
  <2>2. b \in OptionParsers /\ OptionsGrown(b, p)
    BY <1>1, BegunParse
  <2> QED
    BY <2>1, <2>2 DEF ParseSet
<1>3. PICK c \in Nat : ReadWell(p, q, c) /\ TurnWell(p, q, c)
  BY <1>1 DEF TaskWell
<1> DEFINE n == Positionals(p, W, c)
<1>4. i = ArgumentFor(p, n) /\ i \in 1..m /\ n \in Nat
  BY <1>1, <1>3, PositionalsCount DEF TurnWell
<1>5. /\ p.arguments[i].multiple => ArgumentFor(p, n + 1) = i
      /\ ~p.arguments[i].multiple /\ i # m => ArgumentFor(p, n + 1) = i + 1 /\ i + 1 \in 1..m
      /\ ~p.arguments[i].multiple /\ i = m => n = i /\ Fixed(p.arguments)
  <2>1. p \in OptionParsers
    OBVIOUS
  <2> HIDE DEF p, n, i
  <2> QED
    BY <1>4, <2>1, TurnPasses
<1>6. next \in Nat
  BY <1>2
<1> HIDE DEF next
<1>7. /\ r \in ParseSet /\ r.pc = "words" /\ r.line = q.line /\ r.words = q.words /\ r.letters = <<>>
      /\ r.only <=> q.only
      /\ r.current = next /\ r.last = q.last /\ r.given = q.given
      /\ r.calls = q.calls /\ r.began = q.began
  <2>1. q \in ParseSet /\ q.letters = <<>>
    BY <1>2
  <2> HIDE DEF q
  <2> QED
    BY <1>6, <2>1 DEF ParseSet
<1> HIDE DEF r
<1>8. ReadWell(p, r, c)
  BY <1>2, <1>3, <1>7 DEF ReadWell, Between
<1>9. TurnWell(p, r, c)
  <2>1. r.line.words = W /\ r.pc = "words"
    BY <1>7
  <2>2. CASE ~p.arguments[i].multiple /\ i = m
    <3>1. next = 0 /\ n = m /\ Fixed(p.arguments)
      BY <1>5, <2>2 DEF next
    <3>2. Len(b.arguments) <= n
      BY <1>2, <3>1 DEF OptionsGrown, Longer
    <3>3. Fixed(b.arguments)
      <4> DEFINE x == Len(b.arguments)
      <4>1. x \in Nat /\ m \in Nat /\ x <= m /\ \A j \in 1..x : p.arguments[j] = b.arguments[j]
        BY <1>2, ParserFields DEF OptionsGrown, Longer
      <4>2. \A j \in 1..x : j \in 1..m
        <5> HIDE DEF x, m
        <5> QED
          BY <4>1
      <4> QED
        BY <3>1, <4>1, <4>2 DEF Fixed
    <3>4. r.began[1] = b
      BY <1>7
    <3> HIDE DEF b, W
    <3> QED
      BY <1>7, <2>1, <3>1, <3>2, <3>3, <3>4 DEF TurnWell
  <2>3. CASE ~(~p.arguments[i].multiple /\ i = m)
    <3>1. next = ArgumentFor(p, n + 1) /\ next \in 1..m
      BY <1>4, <1>5, <2>3 DEF next
    <3>2. next # 0
      BY <3>1
    <3>3. r.current = ArgumentFor(p, Positionals(p, r.line.words, c) + 1) /\ r.current \in 1..Len(p.arguments)
      BY <1>7, <2>1, <3>1
    <3> HIDE DEF W, p
    <3> QED
      BY <1>7, <2>1, <3>2, <3>3 DEF TurnWell
  <2> QED
    BY <2>2, <2>3
<1>10. \A j \in Nat : j \in r.given <=> Gives(r.calls, j)
  BY <1>1, <1>7 DEF TaskWell
<1>11. TaskWell(p, q) /\ p \in OptionParsers /\ q.pc # "waiting"
  BY <1>1
<1>12. r.pc \in {"words", "letters", "advance", "check"} /\ (r.pc = "letters" <=> r.letters # <<>>)
  BY <1>7
<1> HIDE DEF p, q
<1>13. TaskWell(p, r)
  BY <1>7, <1>8, <1>9, <1>10, <1>11, <1>12, GoesOnWell
<1> QED
  BY <1>1, <1>13 DEF p

(* The line ends: what is required was given, or not.                      *)
LEMMA CheckRequiredWell ==
  ASSUME parser \in OptionParsers, NEW t \in DOMAIN parses, TaskWell(parser, parses[t]), CheckRequired(t)
  PROVE  TaskWell(parser, parses'[t])
<1> DEFINE p == parser
           q == parses[t]
           b == q.began[1]
           W == q.line.words
           Missing == \E i \in DOMAIN p.arguments : (q.last # 0 => i <= q.last) /\ p.arguments[i].required /\ i \notin q.given
<1>1. /\ q.pc = "check"
      /\ Missing => parses'[t] = [q EXCEPT !.pc = "failed"]
      /\ ~Missing => parses'[t] = [q EXCEPT !.pc = "done"]
  BY DEF CheckRequired
<1>2. /\ q \in ParseSet /\ q.line \in CommandLines /\ b \in OptionParsers /\ OptionsGrown(b, p)
  BY <1>1, BegunParse
<1>3. /\ q.letters = <<>> /\ q.words = <<>> /\ q.line.tail = "nil" /\ q.last = Len(b.arguments) /\ Len(q.began) = 1
      /\ \A i \in Nat : i \in q.given <=> Gives(q.calls, i)
  BY <1>1 DEF TaskWell
<1>4. PICK c \in Nat : ReadWell(p, q, c) /\ TurnWell(p, q, c)
  BY <1>1 DEF TaskWell
<1>5. c = Len(W) /\ q.calls = Said(p, W, Len(W))
  BY <1>2, <1>3, <1>4, AtNextWord
<1> DEFINE x == Len(b.arguments)
           m == Len(p.arguments)
<1>6. /\ x \in Nat /\ m \in Nat /\ x <= m /\ \A j \in 1..x : p.arguments[j] = b.arguments[j] /\ j \in 1..m
      /\ DOMAIN p.arguments = 1..m /\ (x = 0 <=> b.arguments = <<>>) /\ (m = 0 <=> p.arguments = <<>>)
  <2>1. x \in Nat /\ m \in Nat /\ x <= m /\ \A j \in 1..x : p.arguments[j] = b.arguments[j]
    BY <1>2, ParserFields DEF OptionsGrown, Longer
  <2>2. \A j \in 1..x : j \in 1..m
    <3> HIDE DEF x, m
    <3> QED
      BY <2>1
  <2>3. p.arguments \in Seq(ParserArguments) /\ b.arguments \in Seq(ParserArguments)
    BY <1>2, ParserFields
  <2>4. DOMAIN p.arguments = 1..m
    BY <2>3, LenProperties
  <2>5. (x = 0 <=> b.arguments = <<>>) /\ (m = 0 <=> p.arguments = <<>>)
    BY <2>3, EmptySeq
  <2> QED
    BY <2>1, <2>2, <2>4, <2>5
<1>7. CASE Missing
  <2>1. PICK i \in 1..m : (q.last # 0 => i <= q.last) /\ p.arguments[i].required /\ i \notin q.given
    BY <1>6, <1>7
  <2>2. FailedRightly(p, q)
    <3>1. CASE x = 0
      <4>1. b.arguments = <<>>
        BY <1>6, <3>1
      <4>2. m # 0
        <5>1. m \in Nat /\ i \in 1..m
          BY <1>6
        <5> HIDE DEF m
        <5> QED
          BY <5>1
      <4>3. p.arguments # <<>>
        BY <1>6, <4>2
      <4> QED
        BY <4>1, <4>3 DEF FailedRightly
    <3>2. CASE x # 0
      <4>1. i \in 1..x /\ i \in Nat
        <5>1. m \in Nat /\ i \in 1..m /\ x \in Nat /\ i <= x
          BY <1>3, <1>6, <2>1, <3>2
        <5> HIDE DEF m, x
        <5> QED
          BY <5>1
      <4>2. b.arguments[i].required /\ ~Gives(Said(p, W, Len(W)), i)
        BY <1>3, <1>5, <1>6, <2>1, <4>1
      <4>3. ~Understood(b, q.line)
        <5> HIDE DEF b
        <5> QED
          BY <1>2, <4>1, <4>2, MissingArgument DEF x
      <4> QED
        BY <4>3 DEF FailedRightly
    <3> QED
      BY <3>1, <3>2
  <2>3. TaskWell(p, [q EXCEPT !.pc = "failed"])
    BY <1>1, <2>2, FailsWell
  <2> QED
    BY <1>1, <1>7, <2>3
<1>8. CASE ~Missing
  <2> DEFINE r == [q EXCEPT !.pc = "done"]
  <2>1. /\ r \in ParseSet /\ r.pc = "done" /\ r.line = q.line /\ r.words = q.words /\ r.letters = q.letters
        /\ r.only <=> q.only
        /\ r.current = q.current /\ r.last = q.last /\ r.given = q.given
        /\ r.calls = q.calls /\ r.began = q.began
    <3>1. q \in ParseSet
      BY <1>2
    <3> HIDE DEF q
    <3> QED
      BY <3>1 DEF ParseSet
  <2> HIDE DEF r
  <2>2. ReadWell(p, r, c)
    BY <1>4, <2>1 DEF ReadWell, Between, InWord
  <2>3. TurnWell(p, r, c)
    BY <1>1, <1>4, <2>1 DEF TurnWell
  <2>4. AllGiven(r)
    <3>1. ASSUME NEW i \in 1..x, b.arguments[i].required PROVE Gives(q.calls, i)
      <4>1. i \in 1..m /\ p.arguments[i].required
        BY <1>6, <3>1
      <4>2. i <= x /\ i \in Nat
        <5>1. x \in Nat /\ i \in 1..x
          BY <1>6
        <5> HIDE DEF x
        <5> QED
          BY <5>1
      <4>3. i \in q.given
        BY <1>3, <1>6, <1>8, <4>1, <4>2
      <4> QED
        BY <1>3, <4>2, <4>3
    <3>2. r.began[1] = b /\ r.calls = q.calls
      BY <2>1
    <3> HIDE DEF b
    <3> QED
      BY <3>1, <3>2 DEF AllGiven, x
  <2>5. Len(r.began) = 1 /\ r.began[1] = b /\ r.last = Len(b.arguments) /\ r.words = <<>> /\ r.letters = <<>> /\ r.line.tail = "nil"
    BY <1>3, <2>1
  <2>6. \A i \in Nat : i \in r.given <=> Gives(r.calls, i)
    BY <1>3, <2>1
  <2>7. \E d \in Nat : ReadWell(p, r, d) /\ (r.pc # "failed" => TurnWell(p, r, d))
    BY <2>2, <2>3
  <2>8. OptionsGrown(r.began[1], p) /\ r.last = Len(r.began[1].arguments)
    BY <1>2, <2>5
  <2>9. TaskWell(p, r)
    BY <2>1, <2>4, <2>5, <2>6, <2>7, <2>8 DEF TaskWell
  <2> QED
    BY <1>1, <1>8, <2>9 DEF r
<1> QED
  BY <1>7, <1>8

-----------------------------------------------------------------------------
(* What is well read is a prefix of what the line means.                   *)

(* A sequence goes on after one it begins with.                            *)
LEMMA GoesOnAfter ==
  ASSUME NEW E, NEW s \in Seq(E), NEW u \in Seq(E), Len(s) <= Len(u), \A i \in 1..Len(s) : u[i] = s[i]
  PROVE  \E x \in Seq(E) : u = s \o x
<1> DEFINE k == Len(s)
           n == Len(u)
           x == SubSeq(u, k + 1, n)
<1>1. k \in Nat /\ n \in Nat /\ k <= n
  BY LenProperties
<1>2. x \in Seq(E) /\ Len(x) = n - k /\ \A i \in 1..(n - k) : x[i] = u[k + i]
  BY <1>1, RestFacts
<1> HIDE DEF x
<1> DEFINE v == s \o x
<1>3. v \in Seq(E) /\ Len(v) = k + Len(x) /\ \A i \in 1..Len(v) : v[i] = IF i <= k THEN s[i] ELSE x[i - k]
  BY <1>2, ConcatProperties
<1> HIDE DEF v
<1>4. \A i \in 1..k : u[i] = s[i]
  OBVIOUS
<1> HIDE DEF k, n
<1>5. Len(v) = n /\ \A i \in 1..n : (i <= k => i \in 1..k) /\ (~(i <= k) => i - k \in 1..(n - k) /\ k + (i - k) = i)
  BY <1>1, <1>2, <1>3
<1>6. \A i \in 1..n : u[i] = v[i]
  BY <1>2, <1>3, <1>4, <1>5
<1>7. u = v
  BY <1>3, <1>5, <1>6, SeqEqual DEF n
<1> QED
  BY <1>2, <1>7 DEF v

(* Flags come first among the calls of a word of letters.                  *)
LEMMA FlagsFirst ==
  ASSUME NEW p \in OptionParsers, NEW w \in ParsedWords, w.is = "short", NEW next \in ParsedWords,
         NEW k \in Nat, k < Len(w.text), \A i \in 1..k : Flag(p, w.text[i])
  PROVE  \E x \in Seq(CallSet) : OptionCalls(p, w, next) = FlagCalls(p, w.text, k) \o x
<1> DEFINE O == OptionCalls(p, w, next)
           F == FlagCalls(p, w.text, k)
           j == FirstSpecial(p, w)
           m == Len(w.text)
           n == CallingLetters(p, w)
<1>1. w.text \in Seq(STRING) /\ m \in Nat
  BY WordFacts, LenProperties
<1>2. O \in Seq(CallSet) /\ Len(O) = n /\ \A i \in 1..n : O[i] = CallOf(p, FindShort(p, w.text[i]), LetterValue(p, w, next, i))
  BY LetterCalls
<1>3. F \in Seq(CallSet) /\ Len(F) = k /\ \A i \in 1..k : F[i] = CallOf(p, FindShort(p, w.text[i]), NoValue)
  BY <1>1, FlagsCall
<1>4. j \in 0..m /\ (j # 0 => ~Flag(p, w.text[j]))
  BY <1>1, SpecialPlace
<1>5. n = IF j = 0 THEN m ELSE j
  BY DEF CallingLetters
<1>6. \A i \in 1..k : i # j
  BY <1>4
<1> HIDE DEF j, m
<1>7. k <= n /\ \A i \in 1..k : i \in 1..n
  BY <1>1, <1>4, <1>5, <1>6 DEF m
<1>8. \A i \in 1..k : LetterValue(p, w, next, i) = NoValue
  BY <1>6 DEF LetterValue, j
<1> HIDE DEF O, F, n
<1>9. Len(F) <= Len(O) /\ \A i \in 1..Len(F) : O[i] = F[i]
  BY <1>2, <1>3, <1>7, <1>8
<1>10. \E x \in Seq(CallSet) : O = F \o x
  BY <1>2, <1>3, <1>9, GoesOnAfter
<1> QED
  BY <1>10 DEF O, F

(* What a parse called back for begins what its line means.                *)
LEMMA CallsBegin ==
  ASSUME NEW p \in OptionParsers, NEW q \in ParseSet, NEW c \in Nat, ReadWell(p, q, c)
  PROVE  \E x \in Seq(CallSet) : Meaning(p, q.line) = q.calls \o x
<1> DEFINE W == q.line.words
           S == Said(p, W, Len(W))
           e == IF q.line.tail = "nil" THEN <<>> ELSE <<Unknown>>
<1>1. q.line \in CommandLines /\ q.calls \in Seq(CallSet)
  BY DEF ParseSet
<1>2. W \in Seq(ParsedWords) /\ Len(W) \in Nat /\ c <= Len(W)
  BY <1>1, LineFields DEF ReadWell
<1>3. Meaning(p, q.line) = S \o e /\ S \in Seq(CallSet)
  BY <1>1, MeaningIs
<1>4. e \in Seq(CallSet)
  BY CallTyped
<1>5. \E y \in Seq(CallSet) : Said(p, W, c) = q.calls \o y
  <2>1. CASE q.letters = <<>>
    <3>1. Said(p, W, c) = q.calls
      BY <2>1 DEF ReadWell, Between
    <3>2. q.calls \o <<>> = q.calls
      BY <1>1, ConcatEmptySeq
    <3>3. <<>> \in Seq(CallSet)
      OBVIOUS
    <3> QED
      BY <3>1, <3>2, <3>3
  <2>2. CASE q.letters # <<>>
    <3>1. PICK k \in Nat : InWord(p, q, c, k)
      BY <2>2 DEF ReadWell
    <3> DEFINE w == W[c]
               F == FlagCalls(p, w.text, k)
               next == NextWord(W, c)
               O == OptionCalls(p, w, next)
               R == Said(p, W, c - 1)
    <3>2. c > 0 /\ Roles(p, W)[c] = "option" /\ w.is = "short" /\ k < Len(w.text) /\ (\A i \in 1..k : Flag(p, w.text[i]))
          /\ q.calls = R \o F
      BY <3>1 DEF InWord
    <3> HIDE DEF W
    <3>3. c \in 1..Len(W)
      <4> DEFINE n == Len(W)
      <4>1. n \in Nat /\ c <= n /\ c > 0
        BY <1>2, <3>2
      <4> HIDE DEF n
      <4>2. c \in 1..n
        BY <4>1
      <4> QED
        BY <4>2 DEF n
    <3>4. w \in ParsedWords /\ next \in ParsedWords /\ CallsAt(p, W, c) = O
      BY <1>2, <3>2, <3>3, CallsTyped, CallsByRole
    <3>5. Said(p, W, c) = R \o CallsAt(p, W, c) /\ R \in Seq(CallSet)
      <4> DEFINE d == c - 1
      <4>1. d \in Nat /\ d + 1 <= Len(W) /\ d + 1 = c
        BY <1>2, <3>2
      <4>2. Said(p, W, d + 1) = Said(p, W, d) \o CallsAt(p, W, d + 1) /\ Said(p, W, d) \in Seq(CallSet)
        <5> HIDE DEF d
        <5> QED
          BY <1>2, <4>1, OneWordMore
      <4> QED
        BY <4>1, <4>2
    <3>6. F \in Seq(CallSet)
      <4>1. w.text \in Seq(STRING)
        BY <3>2, <3>4, WordFacts
      <4> QED
        BY <4>1, FlagsCall
    <3>7. PICK y \in Seq(CallSet) : O = F \o y
      <4> HIDE DEF w, next
      <4> QED
        BY <3>2, <3>4, FlagsFirst
    <3> HIDE DEF O, F, R
    <3>8. R \o (F \o y) = (R \o F) \o y
      <4> DEFINE E == CallSet
      <4>1. R \in Seq(E) /\ F \in Seq(E) /\ y \in Seq(E)
        BY <3>5, <3>6
      <4> HIDE DEF E
      <4> QED
        BY <4>1, ConcatAssociative
    <3> QED
      BY <3>2, <3>4, <3>5, <3>7, <3>8
  <2> QED
    BY <2>1, <2>2
<1>6. PICK y \in Seq(CallSet) : Said(p, W, c) = q.calls \o y
  BY <1>5
<1>7. \E z \in Seq(CallSet) : S = Said(p, W, c) \o z
  <2> DEFINE n == Len(W)
  <2>1. n \in Nat /\ c <= n /\ n <= Len(W) /\ W \in Seq(ParsedWords)
    BY <1>2
  <2>2. \E z \in Seq(CallSet) : Said(p, W, n) = Said(p, W, c) \o z
    <3> HIDE DEF n, W
    <3> QED
      BY <2>1, SaidGoesOn
  <2> QED
    BY <2>2
<1>8. PICK z \in Seq(CallSet) : S = Said(p, W, c) \o z
  BY <1>7
<1> HIDE DEF S, e
<1>9. ((q.calls \o y) \o z) \o e = q.calls \o (y \o (z \o e)) /\ y \o (z \o e) \in Seq(CallSet)
  <2> DEFINE E == CallSet
             a == q.calls
  <2>1. a \in Seq(E) /\ y \in Seq(E) /\ z \in Seq(E) /\ e \in Seq(E)
    BY <1>1, <1>4
  <2> HIDE DEF E, a
  <2>2. a \o y \in Seq(E) /\ z \o e \in Seq(E)
    BY <2>1, ConcatProperties
  <2>3. y \o (z \o e) \in Seq(E)
    BY <2>1, <2>2, ConcatProperties
  <2>4. ((a \o y) \o z) \o e = (a \o y) \o (z \o e)
    BY <2>1, <2>2, ConcatAssociative
  <2>5. (a \o y) \o (z \o e) = a \o (y \o (z \o e))
    BY <2>1, <2>2, ConcatAssociative
  <2> QED
    BY <2>3, <2>4, <2>5 DEF E, a
<1> QED
  BY <1>3, <1>6, <1>8, <1>9

(* The elements of a sequence from the first on.                           *)
LEMMA FirstElements ==
  ASSUME NEW E, NEW s \in Seq(E), NEW k \in Nat, k <= Len(s)
  PROVE  /\ SubSeq(s, 1, k) \in Seq(E) /\ Len(SubSeq(s, 1, k)) = k
         /\ \A i \in 1..k : SubSeq(s, 1, k)[i] = s[i]
<1> DEFINE n == Len(s)
<1>1. n \in Nat /\ k <= n /\ \A i \in 1..k : i \in 1..n
  BY LenProperties
<1>2. SubSeq(s, 1, k) = [i \in 1..k |-> s[i]]
  BY <1>1
<1> DEFINE f == [i \in 1..k |-> s[i]]
<1>3. f \in [1..k -> E] /\ \A i \in 1..k : f[i] = s[i]
  BY <1>1, ElementOfSeq
<1> HIDE DEF f
<1>4. f \in Seq(E) /\ Len(f) = k
  BY <1>3, SeqDef, LenProperties
<1> QED
  BY <1>2, <1>3, <1>4 DEF f

(* Where a sequence of calls that is understood begins another, it begins  *)
(* what comes before the first that is not.                                *)
LEMMA KnownBegin ==
  ASSUME NEW s \in Seq(CallSet), NEW x \in Seq(CallSet), Unknown \notin ToSet(s), NEW m, m = s \o x
  PROVE  LET known == SelectInSeq(m, LAMBDA c : c = Unknown)
         IN IsPrefix(s, IF known = 0 THEN m ELSE SubSeq(m, 1, known - 1))
<1> DEFINE k == Len(s)
           n == Len(m)
           known == Least({i \in 1..Len(m) : m[i] = Unknown})
<1>1. SelectInSeq(m, LAMBDA c : c = Unknown) = known
  BY DEF SelectInSeq, Least
<1>2. m \in Seq(CallSet) /\ k \in Nat /\ n \in Nat /\ k <= n /\ \A i \in 1..k : m[i] = s[i]
  <2> DEFINE E == CallSet
  <2>1. s \in Seq(E) /\ x \in Seq(E)
    OBVIOUS
  <2> HIDE DEF E
  <2>2. m \in Seq(E) /\ n = k + Len(x) /\ k \in Nat /\ Len(x) \in Nat
        /\ \A i \in 1..n : m[i] = IF i <= k THEN s[i] ELSE x[i - k]
    BY <2>1, ConcatProperties, LenProperties
  <2> HIDE DEF k, n
  <2>3. k <= n /\ n \in Nat /\ \A i \in 1..k : i \in 1..n /\ i <= k
    BY <2>2
  <2> QED
    BY <2>2, <2>3 DEF E
<1>3. known \in 0..n /\ (known # 0 => known \in 1..n /\ m[known] = Unknown)
  <2> DEFINE I == {i \in 1..n : m[i] = Unknown}
  <2>1. I \subseteq 1..n
    OBVIOUS
  <2>2. Least(I) \in 0..n /\ (Least(I) # 0 => Least(I) \in I)
    <3> HIDE DEF I, n
    <3> QED
      BY <1>2, <2>1, LeastFacts
  <2> QED
    BY <2>2
<1> HIDE DEF known
<1>4. \A i \in 1..k : m[i] # Unknown
  <2>1. \A i \in 1..k : s[i] \in ToSet(s)
    BY DEF ToSet
  <2> QED
    BY <1>2, <2>1
<1>5. known # 0 => known - 1 \in Nat /\ known - 1 <= n /\ k <= known - 1
  <2> HIDE DEF k, n
  <2>1. known \in 1..k => m[known] # Unknown
    BY <1>4
  <2>2. known # 0 => known \notin 1..k
    BY <1>3, <2>1
  <2>3. known \in 0..n /\ n \in Nat /\ k \in Nat
    BY <1>2, <1>3
  <2> QED
    BY <2>2, <2>3
<1> DEFINE E == CallSet
<1>6. s \in Seq(E) /\ m \in Seq(E)
  BY <1>2
<1> HIDE DEF E
<1>7. /\ SubSeq(s, 1, k) \in Seq(E) /\ Len(SubSeq(s, 1, k)) = k /\ \A i \in 1..k : SubSeq(s, 1, k)[i] = s[i]
  BY <1>2, <1>6, FirstElements
<1>8. ASSUME NEW u \in Seq(E), k <= Len(u), \A i \in 1..k : u[i] = s[i] PROVE IsPrefix(s, u)
  <2>1. SubSeq(u, 1, k) \in Seq(E) /\ Len(SubSeq(u, 1, k)) = k /\ \A i \in 1..k : SubSeq(u, 1, k)[i] = u[i]
    BY <1>2, <1>8, FirstElements
  <2>2. SubSeq(s, 1, k) = SubSeq(u, 1, k)
    <3> DEFINE a == SubSeq(s, 1, k)
               b == SubSeq(u, 1, k)
    <3>1. a \in Seq(E) /\ b \in Seq(E) /\ Len(a) = k /\ Len(b) = k /\ \A i \in 1..k : a[i] = b[i]
      BY <1>7, <1>8, <2>1
    <3> HIDE DEF a, b
    <3>2. a = b
      BY <3>1, SeqEqual
    <3> QED
      BY <3>2 DEF a, b
  <2> QED
    BY <1>8, <2>2 DEF IsPrefix
<1>9. CASE known = 0
  <2>1. IsPrefix(s, m)
    BY <1>2, <1>6, <1>8
  <2> QED
    BY <1>1, <1>9, <2>1
<1>10. CASE known # 0
  <2> DEFINE j == known - 1
             u == SubSeq(m, 1, j)
  <2>1. j \in Nat /\ j <= n /\ k <= j
    BY <1>5, <1>10
  <2> HIDE DEF j
  <2>2. u \in Seq(E) /\ Len(u) = j /\ \A i \in 1..j : u[i] = m[i]
    BY <1>6, <2>1, FirstElements
  <2> HIDE DEF u
  <2>3. \A i \in 1..k : i \in 1..j
    <3> HIDE DEF k
    <3> QED
      BY <1>2, <2>1
  <2>4. k <= Len(u) /\ \A i \in 1..k : u[i] = s[i]
    BY <1>2, <2>1, <2>2, <2>3
  <2>5. IsPrefix(s, u)
    BY <1>8, <2>2, <2>4
  <2> QED
    BY <1>1, <1>10, <2>5 DEF j, u
<1> QED
  BY <1>9, <1>10

(* What holds of one parse, of ParsedAsMeant.                              *)
MeantSo(p, q) ==
  LET began == q.began[1]
      m == Meaning(p, q.line)
      known == SelectInSeq(m, LAMBDA c : c = Unknown)
  IN /\ IsPrefix(q.calls, IF known = 0 THEN m ELSE SubSeq(m, 1, known - 1))
     /\ q.pc = "done" =>
          /\ q.calls = m
          /\ \A i \in DOMAIN began.arguments : began.arguments[i].required => \E c \in ToSet(m) : c.who = <<"argument", i>>
     /\ q.pc = "failed" => ~Understood(began, q.line) \/ (began.arguments = <<>> /\ p.arguments # <<>>)

(* A good parse means so.                                                  *)
LEMMA WellIsMeant ==
  ASSUME NEW p \in OptionParsers, NEW q, TaskWell(p, q), q.pc # "waiting"
  PROVE  MeantSo(p, q)
<1> DEFINE b == q.began[1]
           m == Meaning(p, q.line)
           known == SelectInSeq(m, LAMBDA c : c = Unknown)
<1>1. /\ q \in ParseSet /\ q.line \in CommandLines /\ b \in OptionParsers /\ OptionsGrown(b, p)
  BY BegunParse
<1>2. PICK c \in Nat : ReadWell(p, q, c)
  BY DEF TaskWell
<1>3. q.calls \in Seq(CallSet) /\ Unknown \notin ToSet(q.calls)
  BY <1>1, <1>2 DEF ParseSet, ReadWell
<1>4. IsPrefix(q.calls, IF known = 0 THEN m ELSE SubSeq(m, 1, known - 1))
  <2>1. PICK x \in Seq(CallSet) : m = q.calls \o x
    BY <1>1, <1>2, CallsBegin
  <2> DEFINE s == q.calls
  <2>2. s \in Seq(CallSet) /\ Unknown \notin ToSet(s) /\ m = s \o x
    BY <1>3, <2>1
  <2> HIDE DEF s, m
  <2>3. IsPrefix(s, IF known = 0 THEN m ELSE SubSeq(m, 1, known - 1))
    BY <2>2, KnownBegin
  <2> QED
    BY <2>3 DEF s
<1>5. ASSUME q.pc = "done"
      PROVE  /\ q.calls = m
             /\ \A i \in DOMAIN b.arguments : b.arguments[i].required => \E a \in ToSet(m) : a.who = <<"argument", i>>
  <2>1. q.letters = <<>> /\ q.words = <<>> /\ q.line.tail = "nil" /\ AllGiven(q)
    BY <1>5 DEF TaskWell
  <2>2. c = Len(q.line.words) /\ q.calls = Said(p, q.line.words, Len(q.line.words))
    BY <1>1, <1>2, <2>1, AtNextWord
  <2>3. q.calls = m
    BY <1>1, <2>1, <2>2, MeaningIs
  <2>4. DOMAIN b.arguments = 1..Len(b.arguments)
    BY <1>1, ParserFields, LenProperties
  <2>5. \A i \in 1..Len(b.arguments) : b.arguments[i].required => \E a \in ToSet(q.calls) : a.who = <<"argument", i>>
    BY <2>1 DEF AllGiven, Gives
  <2> HIDE DEF m, b
  <2> QED
    BY <2>3, <2>4, <2>5
<1>6. q.pc = "failed" => FailedRightly(p, q)
  BY DEF TaskWell
<1> QED
  BY <1>4, <1>5, <1>6 DEF MeantSo, FailedRightly

-----------------------------------------------------------------------------
(* The invariant of all parses.                                            *)

(* A step of one task changes its parse only.                              *)
LEMMA OnlyTask ==
  ASSUME NEW t \in DOMAIN parses, ParseStep(t)
  PROVE  /\ parser' = parser /\ DOMAIN parses' = DOMAIN parses
         /\ \A s \in DOMAIN parses : s # t => parses'[s] = parses[s]
<1>1. ASSUME Fails(t) PROVE parser' = parser /\ \E x : parses' = [parses EXCEPT ![t] = x]
  BY <1>1 DEF Fails
<1>2. ASSUME NEW q, NEW who, NEW does, NEW value, Calls(t, q, who, does, value)
      PROVE  parser' = parser /\ \E x : parses' = [parses EXCEPT ![t] = x]
  BY <1>1, <1>2 DEF Calls
<1>3. ASSUME NEW q, NEW i, CallsWithNext(t, q, i)
      PROVE  parser' = parser /\ \E x : parses' = [parses EXCEPT ![t] = x]
  BY <1>1, <1>2, <1>3 DEF CallsWithNext
<1>4. parser' = parser /\ \E x : parses' = [parses EXCEPT ![t] = x]
  <2>1. CASE Start(t)
    BY <2>1 DEF Start
  <2>2. CASE EndOfWords(t)
    BY <2>2 DEF EndOfWords
  <2>3. CASE BrokenList(t)
    BY <1>1, <2>3 DEF BrokenList
  <2>4. CASE EndMark(t)
    <3> DEFINE r == PastMark(parses[t])
    <3>1. parser' = parser /\ parses' = [parses EXCEPT ![t] = r]
      BY <2>4 DEF EndMark, PastMark
    <3> HIDE DEF r
    <3> QED
      BY <3>1
  <2>5. CASE ShortWord(t)
    BY <2>5 DEF ShortWord
  <2>6. CASE ShortOption(t)
    BY <1>1, <1>2, <1>3, <2>6 DEF ShortOption
  <2>7. CASE LongOption(t)
    BY <1>1, <1>2, <1>3, <2>7 DEF LongOption
  <2>8. CASE Positional(t)
    <3> DEFINE q == [parses[t] EXCEPT !.pc = "advance", !.only = @ \/ parser.strict,
                                      !.given = @ \cup {parses[t].current}, !.words = Tail(@)]
    <3>1. Fails(t) \/ \E who, does, value : Calls(t, q, who, does, value)
      BY <2>8 DEF Positional
    <3> HIDE DEF q
    <3> QED
      BY <1>1, <1>2, <3>1
  <2>9. CASE NextInTurn(t)
    BY <2>9 DEF NextInTurn
  <2>10. CASE CheckRequired(t)
    BY <2>10 DEF CheckRequired
  <2> QED
    BY <2>1, <2>2, <2>3, <2>4, <2>5, <2>6, <2>7, <2>8, <2>9, <2>10 DEF ParseStep
<1>5. PICK x : parses' = [parses EXCEPT ![t] = x]
  BY <1>4
<1> QED
  BY <1>4, <1>5

(* Each step of a task keeps its parse good.                               *)
LEMMA StepWell ==
  ASSUME parser \in OptionParsers, NEW t \in DOMAIN parses, TaskWell(parser, parses[t]), ParseStep(t)
  PROVE  TaskWell(parser, parses'[t])
<1>1. CASE Start(t)
  BY <1>1, StartWell
<1>2. CASE EndOfWords(t)
  BY <1>2, EndOfWordsWell
<1>3. CASE BrokenList(t)
  BY <1>3, BrokenListWell
<1>4. CASE EndMark(t)
  BY <1>4, EndMarkWell
<1>5. CASE ShortWord(t)
  BY <1>5, ShortWordWell
<1>6. CASE ShortOption(t)
  BY <1>6, ShortOptionWell
<1>7. CASE LongOption(t)
  BY <1>7, LongOptionWell
<1>8. CASE Positional(t)
  BY <1>8, PositionalWell
<1>9. CASE NextInTurn(t)
  BY <1>9, NextInTurnWell
<1>10. CASE CheckRequired(t)
  BY <1>10, CheckRequiredWell
<1> QED
  BY <1>1, <1>2, <1>3, <1>4, <1>5, <1>6, <1>7, <1>8, <1>9, <1>10 DEF ParseStep

(* So all parses stay good.                                                *)
LEMMA ParseKeepsInv ==
  ASSUME OptionsInv, NEW t \in DOMAIN parses, ParseStep(t)
  PROVE  OptionsInv'
<1>1. parser \in OptionParsers /\ \A s \in DOMAIN parses : TaskWell(parser, parses[s])
  BY DEF OptionsInv
<1>2. parser' = parser /\ DOMAIN parses' = DOMAIN parses /\ \A s \in DOMAIN parses : s # t => parses'[s] = parses[s]
  BY OnlyTask
<1>3. TaskWell(parser, parses'[t])
  BY <1>1, StepWell
<1>4. \A s \in DOMAIN parses' : TaskWell(parser', parses'[s])
  BY <1>1, <1>2, <1>3
<1> QED
  BY <1>1, <1>2, <1>4 DEF OptionsInv

(* A parser with one option or argument more.                              *)
LEMMA LongerByOne ==
  ASSUME NEW E, NEW s \in Seq(E), NEW x \in E
  PROVE  Append(s, x) \in Seq(E) /\ Longer(s, Append(s, x)) /\ Longer(s, s)
<1> DEFINE u == Append(s, x)
           n == Len(s)
<1>1. u \in Seq(E) /\ Len(u) = n + 1 /\ n \in Nat /\ \A i \in 1..n : u[i] = s[i]
  BY AppendProperties, LenProperties
<1> HIDE DEF u, n
<1>2. n <= n + 1 /\ n <= n
  BY <1>1
<1> QED
  BY <1>1, <1>2 DEF Longer, u, n

(* What is added to a parser leaves what it had.                           *)
LEMMA AddedGrows ==
  ASSUME parser \in OptionParsers
  PROVE  /\ \A d \in LateOptions, takes \in BOOLEAN :
              AddOption(d, takes) => parser' \in OptionParsers /\ OptionsGrown(parser, parser') /\ parses' = parses
         /\ \A keywords \in LateArguments :
              AddArgument(keywords) => parser' \in OptionParsers /\ OptionsGrown(parser, parser') /\ parses' = parses
<1>0. /\ parser.options \in Seq(ParserOptions) /\ parser.arguments \in Seq(ParserArguments)
      /\ parser.strict \in BOOLEAN /\ parser.room \in Nat
  BY ParserFields
<1>1. ASSUME NEW d \in LateOptions, NEW takes \in BOOLEAN, AddOption(d, takes)
      PROVE  parser' \in OptionParsers /\ OptionsGrown(parser, parser') /\ parses' = parses
  <2> DEFINE x == LateOption(d, takes)
             s == Append(parser.options, x)
             room == parser.room - 1
  <2>2. x \in ParserOptions
    BY <1>1, OptionsAssumption DEF AddOption
  <2>3. parser' = [parser EXCEPT !.options = s, !.room = room] /\ parses' = parses /\ room \in Nat
    BY <1>0, <1>1 DEF AddOption
  <2>4. s \in Seq(ParserOptions) /\ Longer(parser.options, s)
    <3> DEFINE E == ParserOptions
    <3>1. parser.options \in Seq(E) /\ x \in E
      BY <1>0, <2>2
    <3> HIDE DEF E, x
    <3> QED
      BY <3>1, LongerByOne DEF E
  <2>5. Longer(parser.arguments, parser.arguments)
    BY <1>0 DEF Longer
  <2> HIDE DEF s, room
  <2>6. parser' \in OptionParsers /\ parser'.strict = parser.strict /\ parser'.options = s /\ parser'.arguments = parser.arguments
    BY <2>3, <2>4 DEF OptionParsers
  <2> QED
    BY <2>3, <2>4, <2>5, <2>6 DEF OptionsGrown
<1>2. ASSUME NEW keywords \in LateArguments, AddArgument(keywords)
      PROVE  parser' \in OptionParsers /\ OptionsGrown(parser, parser') /\ parses' = parses
  <2> DEFINE x == LateArgument(keywords)
             s == Append(parser.arguments, x)
             room == parser.room - 1
  <2>2. x \in ParserArguments
    BY <1>2, OptionsAssumption DEF AddArgument
  <2>3. parser' = [parser EXCEPT !.arguments = s, !.room = room] /\ parses' = parses /\ parser.room > 0
    BY <1>2 DEF AddArgument
  <2>4. room \in Nat
    BY <1>0, <2>3
  <2>5. s \in Seq(ParserArguments) /\ Longer(parser.arguments, s)
    <3> DEFINE E == ParserArguments
    <3>1. parser.arguments \in Seq(E) /\ x \in E
      BY <1>0, <2>2
    <3> HIDE DEF E, x
    <3> QED
      BY <3>1, LongerByOne DEF E
  <2>6. Longer(parser.options, parser.options)
    BY <1>0 DEF Longer
  <2> HIDE DEF s, room, x
  <2>7. parser' \in OptionParsers /\ parser'.strict = parser.strict /\ parser'.options = parser.options /\ parser'.arguments = s
    BY <2>3, <2>4, <2>5 DEF OptionParsers
  <2> QED
    BY <2>3, <2>5, <2>6, <2>7 DEF OptionsGrown
<1> QED
  BY <1>1, <1>2

(* A parser that grows keeps all parses good.                              *)
LEMMA GrowthKeepsInv ==
  ASSUME OptionsInv, parser' \in OptionParsers, OptionsGrown(parser, parser'), parses' = parses
  PROVE  OptionsInv'
<1>1. parser \in OptionParsers /\ \A s \in DOMAIN parses : TaskWell(parser, parses[s])
  BY DEF OptionsInv
<1>2. \A s \in DOMAIN parses : TaskWell(parser', parses[s])
  BY <1>1, ParseGrows
<1> QED
  BY <1>2 DEF OptionsInv

(* Every step of the parses keeps the invariant.                           *)
LEMMA OptionsKeepInv == ASSUME OptionsInv, OptionsNext PROVE OptionsInv'
<1>1. CASE \E t \in DOMAIN parses : ParseStep(t)
  BY <1>1, ParseKeepsInv
<1>2. parser \in OptionParsers
  BY DEF OptionsInv
<1>3. CASE \E d \in LateOptions, takes \in BOOLEAN : AddOption(d, takes)
  <2>1. parser' \in OptionParsers /\ OptionsGrown(parser, parser') /\ parses' = parses
    BY <1>2, <1>3, AddedGrows
  <2> QED
    BY <2>1, GrowthKeepsInv
<1>4. CASE \E keywords \in LateArguments : AddArgument(keywords)
  <2>1. parser' \in OptionParsers /\ OptionsGrown(parser, parser') /\ parses' = parses
    BY <1>2, <1>4, AddedGrows
  <2> QED
    BY <2>1, GrowthKeepsInv
<1> QED
  BY <1>1, <1>3, <1>4 DEF OptionsNext

(* A parse that waits is good.                                             *)
LEMMA WaitingWell ==
  ASSUME NEW p \in OptionParsers, NEW line \in CommandLines
  PROVE  TaskWell(p, Waiting(line))
<1> DEFINE q == Waiting(line)
<1>1. line.words \in Seq(ParsedWords)
  BY LineFields
<1>2. q \in ParseSet /\ q.pc = "waiting" /\ q.line = line
  BY <1>1 DEF Waiting, ParseSet
<1> QED
  BY <1>2 DEF TaskWell

(* So are all parses that begin.                                           *)
LEMMA WordsMakeLine ==
  ASSUME NEW n \in Nat, NEW X, X \subseteq ParsedWords, NEW words \in [1..n -> X], NEW tail \in {"nil", "atom"}
  PROVE  [words |-> words, tail |-> tail] \in CommandLines
<1> DEFINE E == ParsedWords
<1>1. words \in [1..n -> E]
  OBVIOUS
<1> HIDE DEF E
<1>2. words \in Seq(E)
  BY <1>1, SeqDef
<1> QED
  BY <1>2 DEF CommandLines, E

(* The invariant holds where the parses begin.                             *)
LEMMA OptionsInitInv == ASSUME OptionsInit PROVE OptionsInv
<1>1. CASE /\ parser \in Parsers
           /\ \E n \in 0..MaxWords : \E words \in [1..n -> Words], tail \in {"nil", "atom"} :
                /\ tail = "nil" \/ n < MaxWords
                /\ parses = [t1 |-> Waiting([words |-> words, tail |-> tail])]
  <2>1. PICK n \in 0..MaxWords : \E words \in [1..n -> Words], tail \in {"nil", "atom"} :
                /\ tail = "nil" \/ n < MaxWords
                /\ parses = [t1 |-> Waiting([words |-> words, tail |-> tail])]
    BY <1>1
  <2>2. PICK words \in [1..n -> Words], tail \in {"nil", "atom"} :
                parses = [t1 |-> Waiting([words |-> words, tail |-> tail])]
    BY <2>1
  <2> DEFINE line == [words |-> words, tail |-> tail]
  <2>3. parser \in OptionParsers /\ n \in Nat /\ Words \subseteq ParsedWords
    BY <1>1, OptionsAssumption
  <2>4. line \in CommandLines
    BY <2>3, WordsMakeLine
  <2> HIDE DEF line
  <2>5. TaskWell(parser, Waiting(line))
    BY <2>3, <2>4, WaitingWell
  <2> DEFINE q == Waiting(line)
  <2>6. parses = [t1 |-> q]
    BY <2>2 DEF line
  <2> HIDE DEF q
  <2>7. DOMAIN parses = {"t1"} /\ parses["t1"] = q
    BY <2>6
  <2> QED
    BY <2>3, <2>5, <2>7 DEF OptionsInv, q
<1>2. CASE \E setup \in SharedParses :
             /\ parser = setup.parser
             /\ parses = [t \in DOMAIN setup.lines |-> Waiting(setup.lines[t])]
  <2>1. PICK setup \in SharedParses :
             /\ parser = setup.parser
             /\ parses = [t \in DOMAIN setup.lines |-> Waiting(setup.lines[t])]
    BY <1>2
  <2>2. parser \in OptionParsers /\ \A t \in DOMAIN setup.lines : setup.lines[t] \in CommandLines
    BY <2>1, OptionsAssumption
  <2>3. DOMAIN parses = DOMAIN setup.lines /\ \A t \in DOMAIN setup.lines : parses[t] = Waiting(setup.lines[t])
    BY <2>1
  <2>4. \A t \in DOMAIN setup.lines : TaskWell(parser, Waiting(setup.lines[t]))
    BY <2>2, WaitingWell
  <2> QED
    BY <2>2, <2>3, <2>4 DEF OptionsInv
<1> QED
  BY <1>1, <1>2 DEF OptionsInit

(* It says that every line is parsed as it is meant.                       *)
LEMMA InvIsMeant == ASSUME OptionsInv PROVE ParsedAsMeant
<1>1. \A t \in DOMAIN parses : parses[t].pc # "waiting" => MeantSo(parser, parses[t])
  BY WellIsMeant DEF OptionsInv
<1> QED
  BY <1>1 DEF MeantSo, ParsedAsMeant

(* The parsers of options by themselves.                                   *)
OptionsSpec == OptionsInit /\ [][OptionsNext]_optionVars

(* However many tasks parse and whatever is added meanwhile, a parse calls *)
(* back for what its line means, in the order of its words, and fails only *)
(* on a line that had no meaning (cmdopts.c:291, :398).                    *)
THEOREM LinesParseAsMeant == OptionsSpec => []ParsedAsMeant
<1>1. OptionsInit => OptionsInv
  BY OptionsInitInv
<1>2. OptionsInv /\ [OptionsNext]_optionVars => OptionsInv'
  <2>1. ASSUME OptionsInv, UNCHANGED optionVars PROVE OptionsInv'
    BY <2>1 DEF OptionsInv, optionVars
  <2> QED
    BY <2>1, OptionsKeepInv
<1>3. OptionsInv => ParsedAsMeant
  BY InvIsMeant
<1> QED
  BY <1>1, <1>2, <1>3, PTL DEF OptionsSpec


-----------------------------------------------------------------------------
(* Driver: the calls of some kinds.                                        *)

OnlyParts(s, K) == [i \in DOMAIN s |-> IF Does(s[i]) \in K THEN <<s[i]>> ELSE <<>>]

(* Each call is a part, or none.                                           *)
LEMMA OnlyPartsTyped ==
  ASSUME NEW s \in Seq(CallSet), NEW K
  PROVE  /\ OnlyParts(s, K) \in Seq(Seq(CallSet)) /\ Len(OnlyParts(s, K)) = Len(s) /\ Len(s) \in Nat
         /\ \A i \in 1..Len(s) : OnlyParts(s, K)[i] = IF Does(s[i]) \in K THEN <<s[i]>> ELSE <<>>
<1> DEFINE E == CallSet
           n == Len(s)
           part_(i) == IF Does(s[i]) \in K THEN <<s[i]>> ELSE <<>>
<1>1. n \in Nat /\ DOMAIN s = 1..n /\ \A i \in 1..n : s[i] \in E
  BY LenProperties, ElementOfSeq
<1> HIDE DEF E, n
<1>2. \A i \in 1..n : <<s[i]>> \in Seq(E) /\ <<>> \in Seq(E)
  BY <1>1
<1>3. \A i \in 1..n : part_(i) \in Seq(E)
  BY <1>2
<1> HIDE DEF part_
<1>4. [i \in 1..n |-> part_(i)] \in [1..n -> Seq(E)]
  BY <1>3
<1>5. OnlyParts(s, K) = [i \in 1..n |-> part_(i)]
  BY <1>1 DEF OnlyParts, part_
<1> DEFINE f == [i \in 1..n |-> part_(i)]
           X == Seq(E)
<1>6. f \in [1..n -> X] /\ \A i \in 1..n : f[i] = part_(i)
  BY <1>4
<1> HIDE DEF f, X
<1>7. f \in Seq(X) /\ Len(f) = n
  BY <1>1, <1>6, SeqDef, LenProperties
<1> QED
  BY <1>1, <1>5, <1>6, <1>7 DEF f, X, E, n, part_

(* No calls are of no kind.                                                *)
LEMMA OnlyOfNothing == ASSUME NEW K PROVE Only(<<>>, K) = <<>>
<1>1. <<>> \in Seq(CallSet) /\ Len(<<>>) = 0
  BY EmptySeq
<1>2. OnlyParts(<<>>, K) = <<>>
  <2>1. OnlyParts(<<>>, K) \in Seq(Seq(CallSet)) /\ Len(OnlyParts(<<>>, K)) = 0
    BY <1>1, OnlyPartsTyped
  <2> QED
    BY <2>1, EmptySeq
<1> QED
  BY <1>2, FlattenNone DEF Only, OnlyParts

(* They are calls; and those of one call more.                             *)
LEMMA OnlyTyped == ASSUME NEW s \in Seq(CallSet), NEW K PROVE Only(s, K) \in Seq(CallSet)
<1>1. OnlyParts(s, K) \in Seq(Seq(CallSet))
  BY OnlyPartsTyped
<1>2. FlattenSeq(OnlyParts(s, K)) \in Seq(CallSet)
  BY <1>1, FlattenType
<1> QED
  BY <1>2 DEF Only, OnlyParts

(* One call more is behind the others, or is none of them.                 *)
LEMMA OnlyGrows ==
  ASSUME NEW s \in Seq(CallSet), NEW x \in CallSet, NEW K
  PROVE  Only(Append(s, x), K) = IF Does(x) \in K THEN Append(Only(s, K), x) ELSE Only(s, K)
<1> DEFINE t == Append(s, x)
           n == Len(s)
           a == OnlyParts(s, K)
           b == OnlyParts(t, K)
           E == CallSet
<1>1. t \in Seq(CallSet) /\ Len(t) = n + 1 /\ t[n + 1] = x /\ n \in Nat /\ \A i \in 1..n : t[i] = s[i]
  BY AppendProperties, LenProperties
<1>2. /\ a \in Seq(Seq(E)) /\ Len(a) = n
      /\ \A i \in 1..n : a[i] = IF Does(s[i]) \in K THEN <<s[i]>> ELSE <<>>
  BY OnlyPartsTyped
<1> HIDE DEF t
<1>3. /\ b \in Seq(Seq(E)) /\ Len(b) = Len(t)
      /\ \A i \in 1..Len(t) : b[i] = IF Does(t[i]) \in K THEN <<t[i]>> ELSE <<>>
  BY <1>1, OnlyPartsTyped
<1>4. Only(s, K) = FlattenSeq(a) /\ Only(t, K) = FlattenSeq(b)
  BY DEF Only, OnlyParts
<1> HIDE DEF n, a, b
<1>5. b # <<>>
  <2>1. Len(b) # 0
    BY <1>1, <1>3
  <2> QED
    BY <2>1, EmptySeq
<1> HIDE DEF E
<1>6. /\ Front(b) \in Seq(Seq(E)) /\ Len(Front(b)) = Len(b) - 1
      /\ \A i \in 1..(Len(b) - 1) : Front(b)[i] = b[i]
      /\ FlattenSeq(Front(b)) \in Seq(E)
      /\ FlattenSeq(b) = FlattenSeq(Front(b)) \o b[Len(b)]
  BY <1>3, <1>5, FlattenLast
<1>7. Len(b) = n + 1 /\ Len(b) - 1 = n
  BY <1>1, <1>3
<1>8. Front(b) = a
  <2>1. \A i \in 1..n : i \in 1..(n + 1)
    BY <1>1
  <2>2. \A i \in 1..n : Front(b)[i] = a[i]
    BY <1>1, <1>2, <1>3, <1>6, <1>7, <2>1
  <2> DEFINE X == Seq(E)
  <2>3. Front(b) \in Seq(X) /\ a \in Seq(X) /\ Len(Front(b)) = Len(a) /\ \A i \in 1..Len(Front(b)) : Front(b)[i] = a[i]
    BY <1>2, <1>6, <1>7, <2>2
  <2> HIDE DEF X
  <2> QED
    BY <2>3, SeqEqual
<1>9. b[Len(b)] = IF Does(x) \in K THEN <<x>> ELSE <<>>
  <2>1. n + 1 \in 1..(n + 1)
    BY <1>1
  <2> QED
    BY <1>1, <1>3, <1>7, <2>1
<1>10. FlattenSeq(a) \in Seq(E) /\ FlattenSeq(b) = FlattenSeq(a) \o b[Len(b)] /\ x \in E
  BY <1>6, <1>8 DEF E
<1> DEFINE u == FlattenSeq(a)
<1>11. u \in Seq(E) /\ FlattenSeq(b) = u \o (IF Does(x) \in K THEN <<x>> ELSE <<>>)
  BY <1>9, <1>10
<1> HIDE DEF u
<1>12. u \o <<>> = u /\ u \o <<x>> = Append(u, x)
  BY <1>10, <1>11
<1>13. FlattenSeq(b) = IF Does(x) \in K THEN Append(u, x) ELSE u
  BY <1>11, <1>12
<1> QED
  BY <1>4, <1>13 DEF u, t

(* A call is one of them if it is of a kind.                               *)
LEMMA OnlyElements ==
  ASSUME NEW s \in Seq(CallSet), NEW K, NEW x
  PROVE  x \in ToSet(Only(s, K)) <=> x \in ToSet(s) /\ Does(x) \in K
<1> DEFINE a == OnlyParts(s, K)
           n == Len(s)
<1>1. /\ a \in Seq(Seq(CallSet)) /\ Len(a) = n /\ n \in Nat
      /\ \A i \in 1..n : a[i] = IF Does(s[i]) \in K THEN <<s[i]>> ELSE <<>>
  BY OnlyPartsTyped
<1>2. Only(s, K) = FlattenSeq(a)
  BY DEF Only, OnlyParts
<1> HIDE DEF a, n
<1>3. x \in ToSet(FlattenSeq(a)) <=> \E i \in 1..Len(a) : x \in ToSet(a[i])
  BY <1>1, FlattenElements
<1>4. \A e : (x \in ToSet(<<e>>) <=> x = e) /\ x \notin ToSet(<<>>)
  BY DEF ToSet
<1>5. \A i \in 1..n : x \in ToSet(a[i]) <=> x = s[i] /\ Does(s[i]) \in K
  BY <1>1, <1>4
<1>6. x \in ToSet(s) <=> \E i \in 1..n : x = s[i]
  BY DEF ToSet, n
<1> QED
  BY <1>1, <1>2, <1>3, <1>5, <1>6

-----------------------------------------------------------------------------
(* Driver: what is before a call, and the values of calls.                 *)

Places(s, c) == {i \in 1..Len(s) : s[i] = c}

(* The calls up to the first like this.                                    *)
LEMMA BeforeIs == \A s, c : Before(s, c) = SubSeq(s, 1, Least(Places(s, c)))
BY DEF Before, SelectInSeq, Least, Places

(* Where there is such a call, one call more is not before it.             *)
LEMMA BeforeStays ==
  ASSUME NEW s \in Seq(CallSet), NEW x \in CallSet, NEW c \in ToSet(s)
  PROVE  Before(Append(s, x), c) = Before(s, c)
<1> DEFINE t == Append(s, x)
           n == Len(s)
           k == Least(Places(s, c))
           E == CallSet
<1>1. t \in Seq(E) /\ Len(t) = n + 1 /\ n \in Nat /\ s \in Seq(E) /\ \A i \in 1..n : t[i] = s[i]
  BY AppendProperties, LenProperties
<1>2. Places(s, c) \subseteq 1..n /\ Places(s, c) # {}
  BY DEF ToSet, Places
<1>3. k \in 1..n /\ k \in Places(s, c) /\ \A j \in Places(s, c) : k <= j
  <2>1. /\ Least(Places(s, c)) \in 0..n
        /\ Least(Places(s, c)) # 0 => Least(Places(s, c)) \in Places(s, c)
        /\ \A j \in Places(s, c) : Least(Places(s, c)) # 0 /\ Least(Places(s, c)) <= j
    BY <1>1, <1>2, LeastFacts
  <2> QED
    BY <1>2, <2>1
<1> HIDE DEF t, n, k, E
<1>4. Least(Places(t, c)) = k
  <2>1. Places(t, c) \subseteq 1..(n + 1) /\ n + 1 \in Nat
    BY <1>1 DEF Places
  <2>2. k \in Places(t, c)
    BY <1>1, <1>3 DEF Places
  <2>3. \A j \in 1..(n + 1) : j < k => j \in 1..n /\ j \notin Places(s, c)
    BY <1>1, <1>3
  <2>4. \A j \in 1..n : j \in Places(t, c) => j \in Places(s, c)
    BY <1>1 DEF Places, n
  <2>5. \A j \in 1..(n + 1) : j < k => j \notin Places(t, c)
    BY <2>3, <2>4
  <2> QED
    BY <2>1, <2>2, <2>5, LeastIs
<1>5. k \in Nat /\ k <= Len(s) /\ k <= Len(t)
  BY <1>1, <1>3 DEF n
<1>6. /\ SubSeq(s, 1, k) \in Seq(E) /\ Len(SubSeq(s, 1, k)) = k /\ \A i \in 1..k : SubSeq(s, 1, k)[i] = s[i]
      /\ SubSeq(t, 1, k) \in Seq(E) /\ Len(SubSeq(t, 1, k)) = k /\ \A i \in 1..k : SubSeq(t, 1, k)[i] = t[i]
  BY <1>1, <1>5, FirstElements
<1>7. \A i \in 1..k : SubSeq(t, 1, k)[i] = SubSeq(s, 1, k)[i]
  <2>1. \A i \in 1..k : i \in 1..n
    BY <1>1, <1>3
  <2> QED
    BY <1>1, <1>6, <2>1
<1>8. SubSeq(t, 1, k) = SubSeq(s, 1, k)
  <2> DEFINE u == SubSeq(t, 1, k)
             v == SubSeq(s, 1, k)
  <2>1. u \in Seq(E) /\ v \in Seq(E) /\ Len(u) = Len(v) /\ \A i \in 1..Len(u) : u[i] = v[i]
    BY <1>6, <1>7
  <2> HIDE DEF u, v
  <2> QED
    BY <2>1, SeqEqual DEF u, v
<1> QED
  BY <1>4, <1>8, BeforeIs DEF t, k

(* All are up to the last where that is the first like it.                 *)
LEMMA BeforeLast ==
  ASSUME NEW s \in Seq(CallSet), NEW x \in CallSet, x \notin ToSet(s)
  PROVE  Before(Append(s, x), x) = Append(s, x)
<1> DEFINE t == Append(s, x)
           n == Len(s)
           E == CallSet
<1>1. t \in Seq(E) /\ Len(t) = n + 1 /\ t[n + 1] = x /\ n \in Nat /\ \A i \in 1..n : t[i] = s[i]
  BY AppendProperties, LenProperties
<1>2. \A i \in 1..n : s[i] # x
  BY DEF ToSet
<1> HIDE DEF t, n, E
<1>3. Least(Places(t, x)) = n + 1
  <2>1. Places(t, x) \subseteq 1..(n + 1) /\ n + 1 \in Nat
    BY <1>1 DEF Places
  <2>2. n + 1 \in Places(t, x)
    BY <1>1 DEF Places
  <2>3. \A j \in 1..(n + 1) : j < n + 1 => j \in 1..n
    BY <1>1
  <2>4. \A j \in 1..(n + 1) : j < n + 1 => j \notin Places(t, x)
    BY <1>1, <1>2, <2>3 DEF Places
  <2> QED
    BY <2>1, <2>2, <2>4, LeastIs
<1>4. t = SubSeq(t, 0 + 1, Len(t))
  BY <1>1, WholeRest
<1>5. 0 + 1 = 1
  OBVIOUS
<1> QED
  BY <1>1, <1>3, <1>4, <1>5, BeforeIs DEF t

WordsAndNone == ParsedWords \cup {NoValue}
ResolverSet == WordsAndNone \cup {"native", "source"}

(* The value of one call more is behind the others.                        *)
LEMMA ValuesGrow ==
  ASSUME NEW s \in Seq(CallSet), NEW x \in CallSet
  PROVE  /\ ValuesOf(s) \in Seq(WordsAndNone) /\ x.value \in WordsAndNone
         /\ ValuesOf(Append(s, x)) = Append(ValuesOf(s), x.value)
<1> DEFINE t == Append(s, x)
           n == Len(s)
           E == WordsAndNone
<1>1. t \in Seq(CallSet) /\ Len(t) = n + 1 /\ t[n + 1] = x /\ n \in Nat /\ \A i \in 1..n : t[i] = s[i]
  BY AppendProperties, LenProperties
<1>2. \A y \in CallSet : y.value \in E
  BY DEF CallSet, WordsAndNone
<1>3. ASSUME NEW u \in Seq(CallSet)
      PROVE  ValuesOf(u) \in Seq(E) /\ Len(ValuesOf(u)) = Len(u) /\ \A i \in 1..Len(u) : ValuesOf(u)[i] = u[i].value
  <2> DEFINE m == Len(u)
             X == CallSet
             f == [i \in 1..m |-> u[i].value]
  <2>1. m \in Nat /\ DOMAIN u = 1..m /\ \A i \in 1..m : u[i] \in X
    BY LenProperties, ElementOfSeq
  <2>2. ValuesOf(u) = f
    BY <2>1 DEF ValuesOf
  <2> HIDE DEF m, E
  <2>3. f \in [1..m -> E] /\ \A i \in 1..m : f[i] = u[i].value
    BY <1>2, <2>1
  <2> HIDE DEF f
  <2>4. f \in Seq(E) /\ Len(f) = m
    BY <2>1, <2>3, SeqDef, LenProperties
  <2> QED
    BY <2>2, <2>3, <2>4 DEF m
<1>4. ValuesOf(s) \in Seq(E) /\ Len(ValuesOf(s)) = n /\ \A i \in 1..n : ValuesOf(s)[i] = s[i].value
  BY <1>3
<1> HIDE DEF t
<1>5. ValuesOf(t) \in Seq(E) /\ Len(ValuesOf(t)) = Len(t) /\ \A i \in 1..Len(t) : ValuesOf(t)[i] = t[i].value
  BY <1>1, <1>3
<1> DEFINE v == ValuesOf(s)
           w == ValuesOf(t)
           y == x.value
<1>6. v \in Seq(E) /\ Len(v) = n /\ (\A i \in 1..n : v[i] = s[i].value) /\ y \in E
  BY <1>2, <1>4
<1>7. w \in Seq(E) /\ Len(w) = n + 1 /\ \A i \in 1..(n + 1) : w[i] = t[i].value
  BY <1>1, <1>5
<1> HIDE DEF v, w, n, E
<1>8. /\ Append(v, y) \in Seq(E) /\ Len(Append(v, y)) = n + 1
      /\ (\A i \in 1..n : Append(v, y)[i] = v[i]) /\ Append(v, y)[n + 1] = y
  <2> HIDE DEF y
  <2> QED
    BY <1>6, AppendProperties
<1>9. \A i \in 1..(n + 1) : w[i] = Append(v, y)[i]
  <2>1. \A i \in 1..(n + 1) : i \in 1..n \/ i = n + 1
    BY <1>1
  <2> QED
    BY <1>1, <1>6, <1>7, <1>8, <2>1
<1>10. w = Append(v, y)
  <2> HIDE DEF y
  <2> QED
    BY <1>7, <1>8, <1>9, SeqEqual
<1> QED
  BY <1>6, <1>10 DEF v, w, t, E

-----------------------------------------------------------------------------
(* Driver: where a command looks, and what ran for which call.             *)

(* Turned round, the last is the first.                                    *)
LEMMA ReverseGrows ==
  ASSUME NEW E, NEW v \in Seq(E), NEW y \in E
  PROVE  /\ Reverse(v) \in Seq(E) /\ Reverse(Append(v, y)) = <<y>> \o Reverse(v)
<1> DEFINE n == Len(v)
           w == Append(v, y)
<1>1. w \in Seq(E) /\ Len(w) = n + 1 /\ w[n + 1] = y /\ n \in Nat /\ \A i \in 1..n : w[i] = v[i]
  BY AppendProperties, LenProperties
<1>2. ASSUME NEW u \in Seq(E)
      PROVE  Reverse(u) \in Seq(E) /\ Len(Reverse(u)) = Len(u) /\ \A i \in 1..Len(u) : Reverse(u)[i] = u[(Len(u) - i) + 1]
  <2> DEFINE m == Len(u)
             f == [i \in 1..m |-> u[(m - i) + 1]]
  <2>1. m \in Nat /\ \A i \in 1..m : u[i] \in E
    BY LenProperties, ElementOfSeq
  <2>2. Reverse(u) = f
    BY DEF Reverse
  <2> HIDE DEF m
  <2>3. \A i \in 1..m : (m - i) + 1 \in 1..m
    BY <2>1
  <2>4. f \in [1..m -> E] /\ \A i \in 1..m : f[i] = u[(m - i) + 1]
    BY <2>1, <2>3
  <2> HIDE DEF f
  <2>5. f \in Seq(E) /\ Len(f) = m
    BY <2>1, <2>4, SeqDef, LenProperties
  <2> QED
    BY <2>2, <2>4, <2>5 DEF m
<1>3. Reverse(v) \in Seq(E) /\ Len(Reverse(v)) = n /\ \A i \in 1..n : Reverse(v)[i] = v[(n - i) + 1]
  BY <1>2
<1> HIDE DEF w
<1>4. Reverse(w) \in Seq(E) /\ Len(Reverse(w)) = Len(w) /\ \A i \in 1..Len(w) : Reverse(w)[i] = w[(Len(w) - i) + 1]
  BY <1>1, <1>2
<1> DEFINE a == Reverse(v)
           b == Reverse(w)
           o == <<y>>
<1>5. /\ a \in Seq(E) /\ Len(a) = n /\ \A i \in 1..n : a[i] = v[(n - i) + 1]
      /\ b \in Seq(E) /\ Len(b) = n + 1 /\ \A i \in 1..(n + 1) : b[i] = w[((n + 1) - i) + 1]
  BY <1>1, <1>3, <1>4
<1>6. o \in Seq(E) /\ Len(o) = 1 /\ o[1] = y
  OBVIOUS
<1> HIDE DEF a, b, o, n
<1>7. /\ o \o a \in Seq(E) /\ Len(o \o a) = 1 + n
      /\ \A i \in 1..(1 + n) : (o \o a)[i] = IF i <= 1 THEN o[i] ELSE a[i - 1]
  <2>1. /\ o \o a \in Seq(E) /\ Len(o \o a) = Len(o) + Len(a)
        /\ \A i \in 1..(Len(o) + Len(a)) : (o \o a)[i] = IF i <= Len(o) THEN o[i] ELSE a[i - Len(o)]
    <3>1. o \in Seq(E) /\ a \in Seq(E)
      BY <1>5, <1>6
    <3> QED
      BY <3>1, ConcatProperties, Zenon
  <2> QED
    BY <1>5, <1>6, <2>1
<1>8. \A i \in 1..(n + 1) : b[i] = (o \o a)[i]
  <2> SUFFICES ASSUME NEW i \in 1..(n + 1) PROVE b[i] = (o \o a)[i]
    OBVIOUS
  <2>1. CASE i = 1
    <3>1. ((n + 1) - 1) + 1 = n + 1 /\ 1 \in 1..(n + 1) /\ 1 \in 1..(1 + n)
      BY <1>1
    <3> QED
      BY <1>1, <1>5, <1>6, <1>7, <2>1, <3>1
  <2>2. CASE i # 1
    <3>1. /\ i - 1 \in 1..n /\ i \in 1..(1 + n) /\ ~(i <= 1) /\ (n - (i - 1)) + 1 \in 1..n
          /\ ((n + 1) - i) + 1 = (n - (i - 1)) + 1
      BY <1>1, <2>2
    <3> QED
      BY <1>1, <1>5, <1>7, <3>1
  <2> QED
    BY <2>1, <2>2
<1>9. b = o \o a
  <2> DEFINE z == o \o a
  <2>1. z \in Seq(E) /\ b \in Seq(E) /\ Len(b) = Len(z) /\ \A i \in 1..Len(b) : b[i] = z[i]
    BY <1>1, <1>5, <1>7, <1>8
  <2> HIDE DEF z
  <2> QED
    BY <2>1, SeqEqual DEF z
<1> QED
  BY <1>5, <1>9 DEF a, b, o, w

(* The directories given by some calls, the latest first.                  *)
Directories(s) == Reverse(ValuesOf(Only(s, {"load-path"})))
Searched(s, none) == Directories(s) \o (IF none THEN <<>> ELSE StandardResolvers)

(* One call more gives one more, or none.                                  *)
LEMMA DirectoriesGrow ==
  ASSUME NEW s \in Seq(CallSet), NEW x \in CallSet
  PROVE  /\ Directories(s) \in Seq(WordsAndNone) /\ x.value \in WordsAndNone
         /\ Directories(Append(s, x)) = IF Does(x) = "load-path" THEN <<x.value>> \o Directories(s) ELSE Directories(s)
<1> DEFINE K == {"load-path"}
           a == Only(s, K)
           v == ValuesOf(a)
           y == x.value
           E == WordsAndNone
<1>1. Only(Append(s, x), K) = IF Does(x) \in K THEN Append(a, x) ELSE a
  BY OnlyGrows
<1>2. a \in Seq(CallSet)
  BY OnlyTyped
<1> HIDE DEF a
<1>3. v \in Seq(E) /\ y \in E /\ ValuesOf(Append(a, x)) = Append(v, y)
  BY <1>2, ValuesGrow
<1> HIDE DEF v, y, E
<1>4. Reverse(v) \in Seq(E) /\ Reverse(Append(v, y)) = <<y>> \o Reverse(v)
  BY <1>3, ReverseGrows
<1>5. Does(x) \in K <=> Does(x) = "load-path"
  OBVIOUS
<1> HIDE DEF K
<1> QED
  BY <1>1, <1>3, <1>4, <1>5 DEF Directories, a, v, y, E, K

(* No call, no directory.                                                  *)
LEMMA NoDirectories == Directories(<<>>) = <<>>
<1>1. Only(<<>>, {"load-path"}) = <<>>
  BY OnlyOfNothing
<1>2. ValuesOf(<<>>) = <<>>
  BY DEF ValuesOf
<1>3. Reverse(<<>>) = <<>>
  BY DEF Reverse
<1> QED
  BY <1>1, <1>2, <1>3 DEF Directories

(* What ran is what was asked for, up to the first failure, and found what *)
(* had been given till then.                                               *)
Kinds == {"eval", "load", "require"}
Actions(s) == Only(s, Kinds)
RanSet == [does : Kinds \cup {"script"}, value : WordsAndNone, resolvers : Seq(ResolverSet)]
OneOfAKind(s, n, k) == \A j \in 1..n : s[j] = s[k] => j = k
RanWell(s, ran, status, none) ==
  /\ ran \in Seq(RanSet) /\ Len(ran) <= Len(Actions(s))
  /\ \A k \in 1..Len(ran) :
       /\ ran[k].does = Does(Actions(s)[k]) /\ ran[k].value = Actions(s)[k].value
       /\ k < Len(ran) => Actions(s)[k].value \notin BadCode
       /\ OneOfAKind(Actions(s), Len(ran), k) => ran[k].resolvers = Searched(Before(s, Actions(s)[k]), none)
  /\ IF status = 0 THEN Len(ran) = Len(Actions(s)) /\ (Len(ran) > 0 => Actions(s)[Len(ran)].value \notin BadCode)
     ELSE Len(ran) > 0 /\ Actions(s)[Len(ran)].value \in BadCode

(* A call that runs nothing changes nothing of that.                       *)
LEMMA RanStays ==
  ASSUME NEW s \in Seq(CallSet), NEW x \in CallSet, NEW ran, NEW status, NEW none,
         RanWell(s, ran, status, none), Does(x) \notin Kinds \/ status # 0
  PROVE  RanWell(Append(s, x), ran, status, none)
<1> DEFINE a == Actions(s)
           t == Append(s, x)
           b == Actions(t)
           n == Len(ran)
<1>1. a \in Seq(CallSet) /\ (b = IF Does(x) \in Kinds THEN Append(a, x) ELSE a)
  BY OnlyTyped, OnlyGrows DEF Actions
<1>2. /\ ran \in Seq(RanSet) /\ n <= Len(a) /\ n \in Nat /\ Len(a) \in Nat
      /\ \A k \in 1..n :
           /\ ran[k].does = Does(a[k]) /\ ran[k].value = a[k].value
           /\ k < n => a[k].value \notin BadCode
           /\ OneOfAKind(a, n, k) => ran[k].resolvers = Searched(Before(s, a[k]), none)
      /\ IF status = 0 THEN n = Len(a) /\ (n > 0 => a[n].value \notin BadCode) ELSE n > 0 /\ a[n].value \in BadCode
  BY <1>1, LenProperties DEF RanWell
<1>3. \A k \in 1..Len(a) : a[k] \in ToSet(s)
  <2>1. \A k \in 1..Len(a) : a[k] \in ToSet(a)
    BY <1>1, LenProperties DEF ToSet
  <2> QED
    BY <2>1, OnlyElements DEF Actions
<1> HIDE DEF a, n
<1>4. Len(b) \in Nat /\ Len(a) <= Len(b) /\ \A k \in 1..n : b[k] = a[k]
  <2>1. CASE Does(x) \in Kinds
    <3>1. b = Append(a, x)
      BY <1>1, <2>1
    <3> HIDE DEF b
    <3>2. Len(b) = Len(a) + 1 /\ \A k \in 1..Len(a) : b[k] = a[k]
      BY <1>1, <3>1, AppendProperties
    <3> QED
      BY <1>2, <3>2
  <2>2. CASE Does(x) \notin Kinds
    BY <1>1, <1>2, <2>2
  <2> QED
    BY <2>1, <2>2
<1>5. status = 0 => b = a
  BY <1>1
<1>6. \A k \in 1..n : Before(t, a[k]) = Before(s, a[k])
  <2> SUFFICES ASSUME NEW k \in 1..n PROVE Before(t, a[k]) = Before(s, a[k])
    OBVIOUS
  <2>1. a[k] \in ToSet(s)
    BY <1>2, <1>3
  <2> QED
    BY <2>1, BeforeStays
<1> HIDE DEF t, b
<1>7. \A k \in 1..n : OneOfAKind(b, n, k) <=> OneOfAKind(a, n, k)
  BY <1>4 DEF OneOfAKind
<1>8. \A k \in 1..n :
        /\ ran[k].does = Does(b[k]) /\ ran[k].value = b[k].value
        /\ k < n => b[k].value \notin BadCode
        /\ OneOfAKind(b, n, k) => ran[k].resolvers = Searched(Before(t, b[k]), none)
  BY <1>2, <1>4, <1>6, <1>7
<1>9. n <= Len(b)
  BY <1>2, <1>4
<1>10. IF status = 0 THEN n = Len(b) /\ (n > 0 => b[n].value \notin BadCode) ELSE n > 0 /\ b[n].value \in BadCode
  <2>1. n > 0 => n \in 1..n
    BY <1>2
  <2> QED
    BY <1>2, <1>4, <1>5, <2>1
<1> QED
  BY <1>2, <1>8, <1>9, <1>10 DEF RanWell, t, b, n

(* A call that runs something, where nothing failed, is the next.          *)
LEMMA RanMore ==
  ASSUME NEW s \in Seq(CallSet), NEW x \in CallSet, NEW ran, NEW none, RanWell(s, ran, 0, none), Does(x) \in Kinds,
         NEW r \in RanSet, r.does = Does(x), r.value = x.value, r.resolvers = Searched(Append(s, x), none)
  PROVE  RanWell(Append(s, x), Append(ran, r), IF x.value \in BadCode THEN 1 ELSE 0, none)
<1> DEFINE a == Actions(s)
           t == Append(s, x)
           b == Actions(t)
           n == Len(ran)
           run == Append(ran, r)
<1>1. a \in Seq(CallSet) /\ b = Append(a, x)
  BY OnlyTyped, OnlyGrows DEF Actions
<1>2. /\ ran \in Seq(RanSet) /\ n = Len(a) /\ n \in Nat
      /\ \A k \in 1..n :
           /\ ran[k].does = Does(a[k]) /\ ran[k].value = a[k].value
           /\ k < n => a[k].value \notin BadCode
           /\ OneOfAKind(a, n, k) => ran[k].resolvers = Searched(Before(s, a[k]), none)
      /\ n > 0 => a[n].value \notin BadCode
  BY <1>1, LenProperties DEF RanWell
<1>3. \A y : y \in ToSet(a) <=> y \in ToSet(s) /\ Does(y) \in Kinds
  BY OnlyElements DEF Actions
<1>4. \A y : y \in ToSet(a) <=> \E k \in 1..n : y = a[k]
  BY <1>1, <1>2, LenProperties DEF ToSet
<1> HIDE DEF a, b
<1>5. /\ b \in Seq(CallSet) /\ Len(b) = n + 1 /\ b[n + 1] = x /\ \A k \in 1..n : b[k] = a[k]
  BY <1>1, <1>2, AppendProperties
<1>6. /\ run \in Seq(RanSet) /\ Len(run) = n + 1 /\ run[n + 1] = r /\ \A k \in 1..n : run[k] = ran[k]
  BY <1>2, AppendProperties
<1> HIDE DEF n, run
<1>7. ASSUME NEW k \in 1..n
      PROVE  /\ run[k].does = Does(b[k]) /\ run[k].value = b[k].value /\ b[k].value \notin BadCode
             /\ OneOfAKind(b, n + 1, k) => run[k].resolvers = Searched(Before(t, b[k]), none)
  <2>1. run[k].does = Does(b[k]) /\ run[k].value = b[k].value
    BY <1>2, <1>5, <1>6
  <2>2. b[k].value \notin BadCode
    <3>1. k = n \/ k < n
      BY <1>2
    <3>2. k = n => n > 0
      BY <1>2
    <3> QED
      BY <1>2, <1>5, <3>1, <3>2
  <2>3. a[k] \in ToSet(s)
    BY <1>3, <1>4
  <2>4. Before(t, a[k]) = Before(s, a[k])
    BY <2>3, BeforeStays
  <2>5. OneOfAKind(b, n + 1, k) => OneOfAKind(a, n, k)
    <3>1. \A j \in 1..n : j \in 1..(n + 1)
      BY <1>2
    <3> QED
      BY <1>5, <3>1 DEF OneOfAKind
  <2> HIDE DEF t
  <2> QED
    BY <1>2, <1>5, <1>6, <2>1, <2>2, <2>4, <2>5
<1>8. OneOfAKind(b, n + 1, n + 1) => run[n + 1].resolvers = Searched(Before(t, x), none)
  <2> SUFFICES ASSUME OneOfAKind(b, n + 1, n + 1) PROVE r.resolvers = Searched(Before(t, x), none)
    BY <1>6
  <2>1. \A k \in 1..n : k \in 1..(n + 1) /\ k # n + 1
    BY <1>2
  <2>2. \A k \in 1..n : a[k] # x
    BY <1>5, <2>1 DEF OneOfAKind
  <2>3. x \notin ToSet(s)
    BY <1>3, <1>4, <2>2
  <2>4. Before(t, x) = t
    BY <2>3, BeforeLast
  <2> QED
    BY <2>4
<1>9. \A k \in 1..(n + 1) :
        /\ run[k].does = Does(b[k]) /\ run[k].value = b[k].value
        /\ k < n + 1 => b[k].value \notin BadCode
        /\ OneOfAKind(b, n + 1, k) => run[k].resolvers = Searched(Before(t, b[k]), none)
  <2>1. \A k \in 1..(n + 1) : (k \in 1..n /\ k < n + 1) \/ (k = n + 1 /\ ~(k < n + 1))
    BY <1>2
  <2> HIDE DEF t
  <2> QED
    BY <1>5, <1>6, <1>7, <1>8, <2>1
<1> HIDE DEF t
<1> DEFINE status == IF x.value \in BadCode THEN 1 ELSE 0
<1>10. IF status = 0 THEN n + 1 = Len(b) /\ (n + 1 > 0 => b[n + 1].value \notin BadCode)
       ELSE n + 1 > 0 /\ b[n + 1].value \in BadCode
  BY <1>2, <1>5
<1>11. n + 1 <= Len(b)
  BY <1>2, <1>5
<1> HIDE DEF status
<1>12. RanWell(t, run, status, none)
  BY <1>6, <1>9, <1>10, <1>11 DEF RanWell, b
<1> QED
  BY <1>12 DEF t, run, status

-----------------------------------------------------------------------------
(* Driver: what a callback does.                                           *)

DriverSet ==
  [status : {0, 1}, actions : Nat, noStdLib : BOOLEAN, standard : BOOLEAN, debug : BOOLEAN,
   resolvers : Seq(ResolverSet), ran : Seq(RanSet), arguments : Seq(WordsAndNone),
   exit : {"no", "error", "failure", "success", "REPL"}]

(* The driver did what it was told by some calls.                          *)
Told(s, d) ==
  /\ d \in DriverSet /\ d.actions = Len(d.ran) /\ RanWell(s, d.ran, d.status, d.noStdLib)
  /\ d.noStdLib <=> Only(s, {"no-std-lib"}) # <<>>
  /\ d.noStdLib => ~d.standard
  /\ d.status = 0 =>
       /\ d.resolvers = Searched(s, d.noStdLib \/ ~d.standard)
       /\ ~d.noStdLib /\ ~d.standard => Directories(s) = <<>>

(* Where a driver that may need the standard resolvers looks.              *)
LEMMA WithStandardLooks ==
  ASSUME NEW s \in Seq(CallSet), NEW d, Told(s, d), d.status = 0
  PROVE  LET r == WithStandard(d) IN
         /\ r \in DriverSet /\ r.status = 0 /\ r.actions = d.actions /\ (r.noStdLib <=> d.noStdLib)
         /\ (r.standard <=> ~d.noStdLib) /\ r.resolvers = Searched(s, d.noStdLib) /\ r.ran = d.ran /\ r.exit = d.exit
         /\ Searched(s, d.noStdLib) \in Seq(ResolverSet)
<1> DEFINE E == ResolverSet
           std == StandardResolvers
           dirs == Directories(s)
           look == std \o d.resolvers
           yes == TRUE
<1>1. /\ d \in DriverSet /\ d.noStdLib \in BOOLEAN /\ d.standard \in BOOLEAN /\ (d.noStdLib => ~d.standard)
      /\ d.resolvers = Searched(s, d.noStdLib \/ ~d.standard) /\ (~d.noStdLib /\ ~d.standard => dirs = <<>>)
      /\ d.resolvers \in Seq(E)
  BY DEF Told, DriverSet
<1>2. std \in Seq(E)
  <2>1. "native" \in E /\ "source" \in E
    BY DEF ResolverSet
  <2> HIDE DEF E
  <2> QED
    BY <2>1 DEF StandardResolvers
<1>3. dirs \in Seq(E)
  <2>1. dirs \in Seq(WordsAndNone)
    <3>1. Only(s, {"load-path"}) \in Seq(CallSet)
      BY OnlyTyped
    <3>2. [who |-> <<"nothing", 0>>, value |-> NoValue] \in CallSet
      BY DEF CallSet
    <3> QED
      BY <3>2, DirectoriesGrow
  <2>2. WordsAndNone \subseteq E
    BY DEF ResolverSet
  <2> HIDE DEF E, dirs
  <2> QED
    BY <2>1, <2>2
<1> HIDE DEF E, std, dirs
<1>4. dirs \o std \in Seq(E) /\ dirs \o <<>> = dirs /\ <<>> \o std = std /\ std \o <<>> = std
  BY <1>2, <1>3, ConcatProperties
<1>5. Searched(s, TRUE) = dirs /\ Searched(s, FALSE) = dirs \o std
  BY <1>4 DEF Searched, std, dirs
<1>6. Searched(s, d.noStdLib) \in Seq(E)
  BY <1>1, <1>3, <1>4, <1>5
<1>7. CASE d.noStdLib \/ d.standard
  <2>1. WithStandard(d) = d
    BY <1>7 DEF WithStandard
  <2>2. Searched(s, d.noStdLib \/ ~d.standard) = Searched(s, d.noStdLib)
    BY <1>1, <1>7
  <2> QED
    BY <1>1, <1>6, <1>7, <2>1, <2>2 DEF E
<1>8. CASE ~d.noStdLib /\ ~d.standard
  <2>1. d.resolvers = <<>>
    BY <1>1, <1>5, <1>8
  <2>2. look = Searched(s, d.noStdLib) /\ look \in Seq(E)
    BY <1>1, <1>2, <1>4, <1>5, <1>8, <2>1
  <2>3. WithStandard(d) = [d EXCEPT !.resolvers = look, !.standard = yes]
    BY <1>8 DEF WithStandard, std
  <2>4. yes \in BOOLEAN /\ (yes <=> ~d.noStdLib)
    BY <1>8
  <2> HIDE DEF look, yes
  <2> DEFINE r == [d EXCEPT !.resolvers = look, !.standard = yes]
  <2>5. /\ r \in DriverSet /\ r.status = d.status /\ r.actions = d.actions /\ (r.noStdLib <=> d.noStdLib)
        /\ (r.standard <=> yes) /\ r.resolvers = look /\ r.ran = d.ran /\ r.exit = d.exit
    BY <1>1, <2>2, <2>4 DEF DriverSet, E
  <2> HIDE DEF r
  <2> QED
    BY <1>6, <2>2, <2>3, <2>4, <2>5 DEF E, r
<1> QED
  BY <1>1, <1>7, <1>8

(* What runs is behind what ran.                                           *)
LEMMA RunFields ==
  ASSUME NEW d \in DriverSet, NEW does \in Kinds \cup {"script"}, NEW value \in WordsAndNone
  PROVE  LET r == Runs(d, does, value)
             e == [does |-> does, value |-> value, resolvers |-> d.resolvers]
         IN /\ e \in RanSet /\ e.does = does /\ e.value = value /\ e.resolvers = d.resolvers
            /\ r \in DriverSet /\ r.actions = d.actions + 1 /\ r.status = (IF value \in BadCode THEN 1 ELSE 0)
            /\ r.ran = Append(d.ran, e) /\ (r.noStdLib <=> d.noStdLib) /\ (r.standard <=> d.standard)
            /\ r.resolvers = d.resolvers /\ r.exit = d.exit /\ Len(Append(d.ran, e)) = Len(d.ran) + 1
<1> DEFINE e == [does |-> does, value |-> value, resolvers |-> d.resolvers]
           n == d.actions + 1
           status == IF value \in BadCode THEN 1 ELSE 0
           run == Append(d.ran, e)
           E == RanSet
<1>1. d.actions \in Nat /\ d.ran \in Seq(E) /\ d.resolvers \in Seq(ResolverSet)
  BY DEF DriverSet
<1>2. e \in E /\ e.does = does /\ e.value = value /\ e.resolvers = d.resolvers
  BY <1>1 DEF RanSet
<1>3. n \in Nat /\ status \in {0, 1}
  BY <1>1
<1>4. Runs(d, does, value) = [d EXCEPT !.actions = n, !.status = status, !.ran = run]
  BY DEF Runs
<1> HIDE DEF e, E, n, status
<1>5. run \in Seq(E) /\ Len(run) = Len(d.ran) + 1
  BY <1>1, <1>2, AppendProperties
<1> HIDE DEF run
<1> DEFINE r == [d EXCEPT !.actions = n, !.status = status, !.ran = run]
<1>6. /\ r \in DriverSet /\ r.actions = n /\ r.status = status /\ r.ran = run /\ (r.noStdLib <=> d.noStdLib)
      /\ (r.standard <=> d.standard) /\ r.resolvers = d.resolvers /\ r.exit = d.exit
  BY <1>3, <1>5 DEF DriverSet, E
<1> HIDE DEF r
<1> QED
  BY <1>2, <1>4, <1>5, <1>6 DEF e, E, n, status, run, r

(* A call that gives no directory and turns nothing off leaves the lists   *)
(* of those as they are.                                                   *)
LEMMA ListsStay ==
  ASSUME NEW s \in Seq(CallSet), NEW x \in CallSet
  PROVE  /\ Does(x) # "load-path" => /\ Directories(Append(s, x)) = Directories(s)
                                     /\ \A none \in BOOLEAN : Searched(Append(s, x), none) = Searched(s, none)
         /\ Does(x) # "no-std-lib" => Only(Append(s, x), {"no-std-lib"}) = Only(s, {"no-std-lib"})
         /\ Does(x) = "no-std-lib" => Only(Append(s, x), {"no-std-lib"}) # <<>>
<1>1. Does(x) # "load-path" => Directories(Append(s, x)) = Directories(s)
  BY DirectoriesGrow
<1>2. Does(x) # "no-std-lib" => Only(Append(s, x), {"no-std-lib"}) = Only(s, {"no-std-lib"})
  BY OnlyGrows
<1>3. ASSUME Does(x) = "no-std-lib" PROVE Only(Append(s, x), {"no-std-lib"}) # <<>>
  <2> DEFINE a == Only(s, {"no-std-lib"})
  <2>1. a \in Seq(CallSet)
    BY OnlyTyped
  <2>2. Only(Append(s, x), {"no-std-lib"}) = Append(a, x)
    BY <1>3, OnlyGrows
  <2> HIDE DEF a
  <2> QED
    BY <2>1, <2>2, AppendProperties
<1> QED
  BY <1>1, <1>2, <1>3 DEF Searched

(* An argument is kept for the end.                                        *)
LEMMA ArgumentTold ==
  ASSUME NEW s \in Seq(CallSet), NEW x \in CallSet, NEW d, Told(s, d), Does(x) \in {"script", "argument"}
  PROVE  Told(Append(s, x), d)
<1> DEFINE t == Append(s, x)
<1>1. RanWell(t, d.ran, d.status, d.noStdLib)
  BY RanStays DEF Told, Kinds
<1>2. /\ Directories(t) = Directories(s) /\ \A none \in BOOLEAN : Searched(t, none) = Searched(s, none)
      /\ Only(t, {"no-std-lib"}) = Only(s, {"no-std-lib"})
  BY ListsStay
<1>3. d.noStdLib \in BOOLEAN /\ d.standard \in BOOLEAN
  BY DEF Told, DriverSet
<1> HIDE DEF t
<1> QED
  BY <1>1, <1>2, <1>3 DEF Told, t

Debugging(d) == [d EXCEPT !.debug = TRUE]
Refused(d) == [d EXCEPT !.exit = "error"]
Bare(d) == [d EXCEPT !.noStdLib = TRUE]
Led(d, value) == [WithStandard(d) EXCEPT !.resolvers = <<value>> \o @]

(* What a callback comes to, case by case.                                 *)
LEMMA Reactions ==
  ASSUME NEW d, NEW does, NEW value
  PROVE  /\ does = "debug" => React(d, does, value) = Debugging(d)
         /\ does = "no-std-lib" /\ (d.standard \/ d.actions # 0) => React(d, does, value) = Refused(d)
         /\ does = "no-std-lib" /\ ~(d.standard \/ d.actions # 0) => React(d, does, value) = Bare(d)
         /\ does \notin {"debug", "no-std-lib"} /\ d.status # 0 => React(d, does, value) = d
         /\ does = "load-path" /\ d.status = 0 => React(d, does, value) = Led(d, value)
         /\ does \notin {"debug", "no-std-lib", "load-path"} /\ d.status = 0 =>
              React(d, does, value) = Runs(WithStandard(d), does, value)
<1> DEFINE run == Runs(WithStandard(d), does, value)
           u == React(d, does, value)
<1>1. u = CASE does = "debug" -> Debugging(d)
            [] does = "no-std-lib" -> IF d.standard \/ d.actions # 0 THEN Refused(d) ELSE Bare(d)
            [] OTHER -> IF d.status # 0 THEN d ELSE IF does = "load-path" THEN Led(d, value) ELSE run
  BY DEF React, Debugging, Refused, Bare, Led
<1> HIDE DEF run, u
<1> QED
  BY <1>1 DEF run, u

(* The callback of an option does what it should, or ends the program.     *)
LEMMA ReactsWell ==
  ASSUME NEW s \in Seq(CallSet), NEW x \in CallSet, NEW d, Told(s, d), d.exit = "no",
         Does(x) \in Kinds \cup {"debug", "no-std-lib", "load-path"}
  PROVE  LET r == React(d, Does(x), x.value)
         IN r.exit = "error" \/ (r.exit = "no" /\ Told(Append(s, x), r))
<1> DEFINE t == Append(s, x)
           yes == TRUE
<1>1. /\ d \in DriverSet /\ d.noStdLib \in BOOLEAN /\ d.standard \in BOOLEAN /\ d.actions = Len(d.ran)
      /\ RanWell(s, d.ran, d.status, d.noStdLib) /\ d.status \in {0, 1}
      /\ (d.noStdLib <=> Only(s, {"no-std-lib"}) # <<>>) /\ (d.noStdLib => ~d.standard)
      /\ d.status = 0 => /\ d.resolvers = Searched(s, d.noStdLib \/ ~d.standard)
                         /\ ~d.noStdLib /\ ~d.standard => Directories(s) = <<>>
  BY DEF Told, DriverSet
<1>2. yes \in BOOLEAN /\ x.value \in WordsAndNone
  BY DirectoriesGrow
<1>3. /\ Does(x) # "load-path" => /\ Directories(t) = Directories(s)
                                  /\ \A none \in BOOLEAN : Searched(t, none) = Searched(s, none)
      /\ Does(x) # "no-std-lib" => Only(t, {"no-std-lib"}) = Only(s, {"no-std-lib"})
      /\ Does(x) = "no-std-lib" => Only(t, {"no-std-lib"}) # <<>>
  BY ListsStay
<1>4. Does(x) \notin Kinds \/ d.status # 0 => RanWell(t, d.ran, d.status, d.noStdLib)
  BY <1>1, RanStays
<1>5. CASE Does(x) = "debug"
  <2> DEFINE r == [d EXCEPT !.debug = yes]
  <2>1. React(d, Does(x), x.value) = r
    BY <1>5, Reactions DEF Debugging
  <2> HIDE DEF yes
  <2>2. /\ r \in DriverSet /\ r.status = d.status /\ r.actions = d.actions /\ (r.noStdLib <=> d.noStdLib)
        /\ (r.standard <=> d.standard) /\ r.resolvers = d.resolvers /\ r.ran = d.ran /\ r.exit = d.exit
    BY <1>1, <1>2 DEF DriverSet
  <2> HIDE DEF r, t
  <2>3. r.noStdLib = d.noStdLib /\ r.standard = d.standard
    BY <1>1, <2>2 DEF DriverSet
  <2>4. RanWell(t, d.ran, d.status, d.noStdLib)
    BY <1>4, <1>5 DEF Kinds
  <2>5. Told(t, r)
    BY <1>1, <1>3, <1>5, <2>2, <2>3, <2>4 DEF Told
  <2> QED
    BY <2>1, <2>2, <2>5 DEF t
<1>6. CASE Does(x) = "no-std-lib"
  <2>1. CASE d.standard \/ d.actions # 0
    <3> DEFINE r == [d EXCEPT !.exit = "error"]
    <3>1. React(d, Does(x), x.value) = r
      BY <1>6, <2>1, Reactions DEF Refused
    <3>2. r.exit = "error"
      BY <1>1 DEF DriverSet
    <3> HIDE DEF r
    <3> QED
      BY <3>1, <3>2
  <2>2. CASE ~(d.standard \/ d.actions # 0)
    <3> DEFINE r == [d EXCEPT !.noStdLib = yes]
    <3>1. React(d, Does(x), x.value) = r
      BY <1>6, <2>2, Reactions DEF Bare
    <3>2. yes
      OBVIOUS
    <3> HIDE DEF yes
    <3>3. /\ r \in DriverSet /\ r.status = d.status /\ r.actions = d.actions /\ (r.noStdLib <=> yes)
          /\ (r.standard <=> d.standard) /\ r.resolvers = d.resolvers /\ r.ran = d.ran /\ r.exit = d.exit
      BY <1>1, <1>2 DEF DriverSet
    <3> HIDE DEF r, t
    <3>4. RanWell(t, d.ran, d.status, d.noStdLib)
      BY <1>4, <1>6 DEF Kinds
    <3>5. Len(r.ran) = 0 /\ r.actions = Len(r.ran)
      BY <1>1, <2>2, <3>3
    <3>6. RanWell(t, r.ran, r.status, r.noStdLib)
      <4>1. RanWell(t, r.ran, r.status, d.noStdLib)
        BY <3>3, <3>4
      <4> QED
        BY <3>5, <4>1 DEF RanWell
    <3>7. r.status = 0 => r.resolvers = Searched(t, r.noStdLib \/ ~r.standard)
      <4>1. (r.noStdLib \/ ~r.standard) = TRUE /\ (d.noStdLib \/ ~d.standard) = TRUE
        BY <2>2, <3>2, <3>3
      <4> QED
        BY <1>1, <1>3, <1>6, <3>3, <4>1
    <3>8. Told(t, r)
      BY <1>3, <1>6, <2>2, <3>2, <3>3, <3>5, <3>6, <3>7 DEF Told
    <3> QED
      BY <1>1, <3>1, <3>3, <3>8 DEF t
  <2> QED
    BY <2>1, <2>2
<1>7. CASE d.status # 0 /\ Does(x) \notin {"debug", "no-std-lib"}
  <2>1. React(d, Does(x), x.value) = d
    BY <1>7, Reactions
  <2> HIDE DEF t
  <2>2. Told(t, d)
    BY <1>1, <1>3, <1>4, <1>7 DEF Told
  <2> QED
    BY <2>1, <2>2 DEF t
<1>8. CASE d.status = 0 /\ Does(x) \notin {"debug", "no-std-lib"}
  <2> DEFINE w == WithStandard(d)
             none == d.noStdLib
  <2>1. /\ w \in DriverSet /\ w.status = 0 /\ w.actions = d.actions /\ (w.noStdLib <=> none)
        /\ (w.standard <=> ~none) /\ w.resolvers = Searched(s, none) /\ w.ran = d.ran /\ w.exit = d.exit
        /\ Searched(s, none) \in Seq(ResolverSet)
    BY <1>8, WithStandardLooks
  <2>2. none \in BOOLEAN /\ Only(t, {"no-std-lib"}) = Only(s, {"no-std-lib"})
    BY <1>1, <1>3, <1>8
  <2>3. CASE Does(x) = "load-path"
    <3> DEFINE look == <<x.value>> \o w.resolvers
               r == [w EXCEPT !.resolvers = look]
               E == ResolverSet
    <3>1. React(d, Does(x), x.value) = r
      BY <1>8, <2>3, Reactions DEF Led
    <3>2. look = Searched(t, none) /\ look \in Seq(E)
      <4> DEFINE o == <<x.value>>
                 dirs == Directories(s)
                 std == IF none THEN <<>> ELSE StandardResolvers
      <4>1. Directories(t) = o \o dirs /\ dirs \in Seq(WordsAndNone)
        BY <2>3, DirectoriesGrow
      <4>2. WordsAndNone \subseteq E /\ x.value \in E
        BY <1>2 DEF ResolverSet
      <4>3. std \in Seq(E)
        <5>1. "native" \in E /\ "source" \in E
          BY DEF ResolverSet
        <5> HIDE DEF E
        <5> QED
          BY <5>1 DEF StandardResolvers
      <4> HIDE DEF dirs, std, E
      <4>4. o \in Seq(E) /\ dirs \in Seq(E)
        BY <4>1, <4>2
      <4> HIDE DEF o
      <4>5. o \o (dirs \o std) = (o \o dirs) \o std /\ dirs \o std \in Seq(E) /\ o \o (dirs \o std) \in Seq(E)
        <5>1. dirs \o std \in Seq(E)
          BY <4>3, <4>4, ConcatProperties
        <5> QED
          BY <4>3, <4>4, <5>1, ConcatProperties, ConcatAssociative
      <4>6. look = o \o (dirs \o std) /\ Searched(t, none) = (o \o dirs) \o std
        BY <2>1, <4>1 DEF Searched, o, dirs, std
      <4> HIDE DEF look
      <4> QED
        BY <4>5, <4>6
    <3> HIDE DEF w, look, t
    <3>3. /\ r \in DriverSet /\ r.status = 0 /\ r.actions = d.actions /\ (r.noStdLib <=> none)
          /\ (r.standard <=> ~none) /\ r.resolvers = look /\ r.ran = d.ran /\ r.exit = d.exit
      BY <2>1, <3>2 DEF DriverSet, E
    <3> HIDE DEF r
    <3>4. r.noStdLib = none /\ (r.noStdLib \/ ~r.standard) = none
      BY <2>2, <3>3 DEF DriverSet
    <3>5. RanWell(t, r.ran, r.status, r.noStdLib)
      BY <1>4, <1>8, <2>3, <3>3, <3>4 DEF Kinds
    <3>6. Told(t, r)
      BY <1>1, <2>2, <3>2, <3>3, <3>4, <3>5 DEF Told
    <3> QED
      BY <3>1, <3>3, <3>6 DEF t
  <2>4. CASE Does(x) \in Kinds
    <3> DEFINE does == Does(x)
               value == x.value
               r == Runs(w, does, value)
               e == [does |-> does, value |-> value, resolvers |-> w.resolvers]
    <3>1. React(d, Does(x), x.value) = r
      BY <1>8, <2>4, Reactions DEF Kinds
    <3> HIDE DEF w
    <3>2. /\ e \in RanSet /\ e.does = does /\ e.value = value /\ e.resolvers = w.resolvers
          /\ r \in DriverSet /\ r.actions = w.actions + 1 /\ r.status = (IF value \in BadCode THEN 1 ELSE 0)
          /\ r.ran = Append(w.ran, e) /\ (r.noStdLib <=> w.noStdLib) /\ (r.standard <=> w.standard)
          /\ r.resolvers = w.resolvers /\ r.exit = w.exit /\ Len(Append(w.ran, e)) = Len(w.ran) + 1
      BY <1>2, <2>1, <2>4, RunFields
    <3>3. Searched(t, none) = Searched(s, none)
      BY <1>1, <1>3, <2>4 DEF Kinds
    <3> HIDE DEF e, r, t
    <3>4. RanWell(t, Append(d.ran, e), IF value \in BadCode THEN 1 ELSE 0, none)
      BY <1>1, <1>8, <2>1, <2>4, <3>2, <3>3, RanMore DEF t
    <3>5. r.noStdLib = none /\ (r.noStdLib \/ ~r.standard) = none
      BY <2>1, <2>2, <3>2 DEF DriverSet
    <3>6. Told(t, r)
      BY <1>1, <2>1, <2>2, <3>2, <3>3, <3>4, <3>5 DEF Told
    <3> QED
      BY <1>1, <2>1, <3>1, <3>2, <3>6 DEF t
  <2> QED
    BY <1>8, <2>3, <2>4
<1> QED
  BY <1>1, <1>5, <1>6, <1>7, <1>8

-----------------------------------------------------------------------------
(* Driver: how the command line is read.                                   *)

Asked == Kinds \cup {"debug", "no-std-lib", "load-path"}
Said1(v) == [who |-> <<"argument", 1>>, value |-> v]
Said2(v) == [who |-> <<"argument", 2>>, value |-> v]
Told1(i, v) == [who |-> <<"option", i>>, value |-> v]

(* The options act, the first argument is the script, all after it are its *)
(* arguments.                                                              *)
LEMMA CommandFacts ==
  /\ CommandParser.strict /\ CommandParser.options = CommandOptions
  /\ Len(CommandParser.options) = 7 /\ Len(CommandParser.arguments) = 2
  /\ \A i \in 1..7 : CommandOptions[i].does \in Asked
  /\ ~CommandParser.arguments[1].multiple /\ CommandParser.arguments[1].does = "string"
  /\ CommandParser.arguments[2].multiple /\ CommandParser.arguments[2].does = "list"
<1>1. CommandParser.options = CommandOptions
  BY DEF CommandParser
<1>2. CommandParser.strict
  BY DEF CommandParser
<1>3. Len(CommandOptions) = 7
  BY DEF CommandOptions
<1>4. \A i \in 1..7 : CommandOptions[i].does \in Asked
  <2>1. \A i \in 1..7 : i = 1 \/ i = 2 \/ i = 3 \/ i = 4 \/ i = 5 \/ i = 6 \/ i = 7
    OBVIOUS
  <2>2. /\ CommandOptions[1].does = "debug" /\ CommandOptions[2].does = "eval" /\ CommandOptions[3].does = "eval"
        /\ CommandOptions[4].does = "load" /\ CommandOptions[5].does = "require"
        /\ CommandOptions[6].does = "load-path" /\ CommandOptions[7].does = "no-std-lib"
    BY DEF CommandOptions, Option
  <2> QED
    BY <2>1, <2>2 DEF Asked, Kinds
<1> DEFINE a == Argument(FALSE, FALSE, "string")
           b == Argument(FALSE, TRUE, "list")
<1>5. ~a.multiple /\ a.does = "string" /\ b.multiple /\ b.does = "list"
  BY DEF Argument
<1> HIDE DEF a, b
<1>6. CommandParser.arguments = <<a, b>>
  BY DEF CommandParser, a, b
<1>7. Len(<<a, b>>) = 2 /\ <<a, b>>[1] = a /\ <<a, b>>[2] = b
  OBVIOUS
<1> QED
  BY <1>1, <1>2, <1>3, <1>4, <1>5, <1>6, <1>7

(* What the calls of the line are.                                         *)
LEMMA CommandCalls ==
  /\ \A v : Does(Said1(v)) = "script" /\ Does(Said2(v)) = "argument"
  /\ \A v \in WordsAndNone : Said1(v) \in CallSet /\ Said2(v) \in CallSet
  /\ \A i \in 1..7 : \A v \in WordsAndNone :
       Told1(i, v) \in CallSet /\ Does(Told1(i, v)) = CommandOptions[i].does /\ Does(Told1(i, v)) \in Asked
<1>1. \A i \in 1..7 : CommandOptions[i].does \in Asked /\ i \in Nat
  BY CommandFacts
<1>2. \A v : Does(Said1(v)) = "script" /\ Does(Said2(v)) = "argument"
  BY DEF Does, Said1, Said2
<1>3. \A v \in WordsAndNone : Said1(v) \in CallSet /\ Said2(v) \in CallSet
  BY DEF CallSet, WordsAndNone, Said1, Said2
<1>4. \A i \in 1..7 : \A v \in WordsAndNone : Told1(i, v) \in CallSet
  BY <1>1 DEF CallSet, WordsAndNone, Told1
<1>5. \A i, v : Does(Told1(i, v)) = CommandOptions[i].does
  BY DEF Does, Told1
<1> QED
  BY <1>1, <1>2, <1>3, <1>4, <1>5

-----------------------------------------------------------------------------
(* Driver: what a step of the command line's parse calls.                  *)

(* The script is the first argument, and then all else is one; a step      *)
(* calls nothing, an option before the script, the script, or one more     *)
(* argument of it.                                                         *)
Turn(q, pl) ==
  IF pl.string = <<>> THEN q.pc # "waiting" => q.current = 1 /\ q.pc # "advance"
  ELSE /\ Len(pl.string) = 1 /\ q.only /\ q.pc \notin {"waiting", "letters"}
       /\ q.current = 2 \/ (q.pc = "advance" /\ q.current = 1)
Steps(q, pl, r, after) ==
  \/ r.calls = q.calls /\ after = pl
  \/ /\ pl.string = <<>> /\ after = pl
     /\ \E x \in CallSet : x.who[1] = "option" /\ Does(x) = CommandOptions[x.who[2]].does /\ Does(x) \in Asked
                           /\ r.calls = Append(q.calls, x)
  \/ /\ pl.string = <<>>
     /\ \E v \in WordsAndNone : r.calls = Append(q.calls, Said1(v)) /\ after = [pl EXCEPT !.string = <<v>>]
  \/ /\ pl.string # <<>>
     /\ \E v \in WordsAndNone : r.calls = Append(q.calls, Said2(v)) /\ after = [pl EXCEPT !.list = Append(@, v)]
Goes(r, after) == Turn(r, after) /\ Steps(parses[Script], places, r, after)
Reading == OptionsInv /\ parser = CommandParser /\ Script \in DOMAIN parses /\ Turn(parses[Script], places)
Alike(q, r) ==
  /\ "pc" \in DOMAIN r /\ "current" \in DOMAIN r /\ "calls" \in DOMAIN r
  /\ r.calls = q.calls /\ r.current = q.current /\ r.pc \in {"words", "letters"}

(* What the callbacks of the command line keep.                            *)
LEMMA CommandStores ==
  /\ \A does \in Asked : \A v : Stored(does, v) = places
  /\ \A v : Stored("string", v) = [places EXCEPT !.string = <<v>>]
  /\ \A v : Stored("list", v) = [places EXCEPT !.list = Append(@, v)]
  /\ \A does \in Asked \cup {"string", "list"} : \A v : Accepts(does, v)
<1>1. \A does \in Asked : \A v : Stored(does, v) = places
  <2> SUFFICES ASSUME NEW does \in Asked, NEW v PROVE Stored(does, v) = places
    OBVIOUS
  <2>1. does # "list" /\ does # "string" /\ does # "number" /\ does # "set" /\ does # "raise"
    BY DEF Asked, Kinds
  <2> QED
    BY <2>1 DEF Stored
<1>2. \A v : Stored("string", v) = [places EXCEPT !.string = <<v>>]
  BY DEF Stored
<1>3. \A v : Stored("list", v) = [places EXCEPT !.list = Append(@, v)]
  BY DEF Stored
<1>4. \A does \in Asked \cup {"string", "list"} : \A v : Accepts(does, v)
  BY DEF Accepts, Asked, Kinds
<1> QED
  BY <1>1, <1>2, <1>3, <1>4

(* What is added to calls is a call if they are calls then.                *)
LEMMA AddedCall ==
  ASSUME NEW s \in Seq(CallSet), NEW x, Append(s, x) \in Seq(CallSet)
  PROVE  x \in CallSet
<1> DEFINE E == CallSet
           X == E \cup {x}
           t == Append(s, x)
<1>1. s \in Seq(X) /\ t \in Seq(E) /\ x \in X
  <2>1. s \in Seq(E) /\ E \subseteq X
    OBVIOUS
  <2> HIDE DEF E, X
  <2>2. s \in Seq(X)
    BY <2>1
  <2> QED
    BY <2>2 DEF E, X
<1> HIDE DEF E, X
<1>2. Len(t) = Len(s) + 1 /\ t[Len(s) + 1] = x /\ Len(s) \in Nat
  BY <1>1, AppendProperties, LenProperties
<1> HIDE DEF t
<1>3. Len(s) + 1 \in 1..Len(t)
  BY <1>2
<1>4. t[Len(s) + 1] \in E
  BY <1>1, <1>3, ElementOfSeq
<1> QED
  BY <1>2, <1>4 DEF E

(* A step that fails calls nothing.                                        *)
LEMMA FailGoes ==
  ASSUME Reading, Fails(Script), parses[Script].pc \notin {"waiting", "advance"}
  PROVE  Goes(parses'[Script], places')
<1> DEFINE q == parses[Script]
           r == [q EXCEPT !.pc = "failed"]
<1>1. q \in ParseSet /\ Turn(q, places) /\ q.pc \notin {"waiting", "advance"}
  BY DEF Reading, OptionsInv, TaskWell
<1>2. parses'[Script] = r /\ places' = places
  BY DEF Fails, Reading
<1>3. r.pc = "failed" /\ r.current = q.current /\ (r.only <=> q.only) /\ r.calls = q.calls
  <2> HIDE DEF q
  <2> QED
    BY <1>1 DEF ParseSet
<1> HIDE DEF r, q
<1>4. Turn(r, places)
  BY <1>1, <1>3 DEF Turn
<1>5. Steps(q, places, r, places)
  BY <1>3 DEF Steps
<1> QED
  BY <1>2, <1>4, <1>5 DEF Goes, q

(* The call of an option, and of one that takes the next word.             *)
LEMMA OptionGoes ==
  ASSUME Reading, parses'[Script] \in ParseSet, parses[Script].pc # "waiting", places.string = <<>>,
         NEW r, Alike(parses[Script], r), NEW i \in 1..7
  PROVE  /\ \A v : Calls(Script, r, <<"option", i>>, parser.options[i].does, v) => Goes(parses'[Script], places')
         /\ CallsWithNext(Script, r, i) => Goes(parses'[Script], places')
<1> DEFINE q == parses[Script]
<1>1. /\ q \in ParseSet /\ Turn(q, places) /\ q.current = 1 /\ q.calls \in Seq(CallSet)
      /\ parser = CommandParser /\ Script \in DOMAIN parses
  <2>1. q \in ParseSet /\ Turn(q, places) /\ parser = CommandParser /\ Script \in DOMAIN parses
    BY DEF Reading, OptionsInv, TaskWell
  <2> QED
    BY <2>1 DEF Turn, ParseSet
<1>2. parser.options[i].does = CommandOptions[i].does /\ CommandOptions[i].does \in Asked
  BY <1>1, CommandFacts
<1>3. ASSUME NEW u, Alike(q, u), NEW v, Calls(Script, u, <<"option", i>>, parser.options[i].does, v)
      PROVE  Goes(parses'[Script], places')
  <2> DEFINE x == Told1(i, v)
             s == Append(q.calls, x)
             y == [u EXCEPT !.calls = s]
  <2>1. Accepts(parser.options[i].does, v) /\ Stored(parser.options[i].does, v) = places
    BY <1>2, CommandStores
  <2>2. parses'[Script] = y /\ places' = places
    <3>1. parses' = [parses EXCEPT ![Script] = [u EXCEPT !.calls = Append(@, [who |-> <<"option", i>>, value |-> v])]] /\ places' = places
      BY <1>3, <2>1 DEF Calls
    <3>2. u.calls = q.calls
      BY <1>3 DEF Alike
    <3> HIDE DEF q
    <3> QED
      BY <1>1, <3>1, <3>2 DEF Told1
  <2> HIDE DEF s
  <2>3. y.calls = s /\ y.current = q.current /\ y.pc \in {"words", "letters"}
    <3> HIDE DEF q
    <3> QED
      BY <1>3 DEF Alike
  <2> HIDE DEF y
  <2>4. x \in CallSet
    <3>1. s \in Seq(CallSet)
      BY <2>2, <2>3 DEF ParseSet
    <3> HIDE DEF x, q
    <3> QED
      BY <1>1, <3>1, AddedCall DEF s
  <2>5. x.who = <<"option", i>> /\ x.who[1] = "option" /\ x.who[2] = i /\ Does(x) = CommandOptions[i].does
    BY DEF Told1, Does
  <2> HIDE DEF q, x
  <2>6. Turn(y, places)
    BY <1>1, <2>3 DEF Turn
  <2>7. Steps(q, places, y, places)
    BY <1>2, <2>3, <2>4, <2>5 DEF Steps, s
  <2> QED
    BY <2>2, <2>6, <2>7 DEF Goes, q
<1>4. ASSUME CallsWithNext(Script, r, i) PROVE Goes(parses'[Script], places')
  <2>1. CASE Fails(Script)
    BY <1>1, <2>1, FailGoes DEF Turn
  <2>2. CASE ~Fails(Script)
    <3> DEFINE w == Tail(r.words)
               u == [r EXCEPT !.words = w]
               v == Head(r.words)
    <3>1. Calls(Script, u, <<"option", i>>, parser.options[i].does, v)
      BY <1>4, <2>2 DEF CallsWithNext
    <3> HIDE DEF w, v, q
    <3>2. Alike(q, u)
      BY DEF Alike, q
    <3> HIDE DEF u
    <3> QED
      BY <1>3, <3>1, <3>2 DEF q
  <2> QED
    BY <2>1, <2>2
<1> QED
  BY <1>3, <1>4

(* The first argument is the script, another one of its arguments.         *)
LEMMA ArgumentGoes ==
  ASSUME Reading, parses'[Script] \in ParseSet, Positional(Script)
  PROVE  Goes(parses'[Script], places')
<1> DEFINE q == parses[Script]
           i == q.current
           w == Head(q.words)
           only == q.only \/ parser.strict
           said == [who |-> <<"argument", i>>, value |-> w]
           r == PastArgument(q, only, said)
           does == parser.arguments[i].does
<1>1. q.pc = "words" /\ q \in ParseSet /\ Turn(q, places) /\ parser = CommandParser /\ Script \in DOMAIN parses
  BY DEF Positional, AtWord, Reading, OptionsInv, TaskWell
<1>2. IF places.string = <<>> THEN i = 1 ELSE i = 2 /\ Len(places.string) = 1
  BY <1>1 DEF Turn
<1>3. does = (IF places.string = <<>> THEN "string" ELSE "list") /\ parser.strict
  BY <1>1, <1>2, CommandFacts
<1>4. Accepts(does, w) /\ Stored(does, w) = (IF places.string = <<>> THEN [places EXCEPT !.string = <<w>>]
                                             ELSE [places EXCEPT !.list = Append(@, w)])
  BY <1>3, CommandStores
<1>5. parses'[Script] = r /\ places' = Stored(does, w)
  <2>1. i # 0
    BY <1>2
  <2> QED
    BY <1>1, <1>4, <2>1 DEF Positional, Calls, PastArgument
<1>6. only \in BOOLEAN /\ only
  BY <1>3
<1> DEFINE s == Append(q.calls, said)
<1>7. r.pc = "advance" /\ r.only = only /\ r.current = i /\ r.calls = s
  <2> DEFINE words == Tail(q.words)
             given == q.given \cup {q.current}
  <2>1. r = [q EXCEPT !.pc = "advance", !.only = only, !.given = given, !.words = words, !.calls = s]
    BY DEF PastArgument
  <2>2. i = q.current
    OBVIOUS
  <2> HIDE DEF words, given, s, only, q, r, i
  <2> QED
    BY <1>1, <1>6, <2>1, <2>2 DEF ParseSet
<1> HIDE DEF r
<1>8. said \in CallSet
  <2>1. s \in Seq(CallSet) /\ q.calls \in Seq(CallSet)
    BY <1>1, <1>5, <1>7 DEF ParseSet
  <2> HIDE DEF said, q
  <2> QED
    BY <2>1, AddedCall DEF s
<1>9. w \in WordsAndNone
  BY <1>8 DEF CallSet, WordsAndNone
<1>10. said = (IF places.string = <<>> THEN Said1(w) ELSE Said2(w))
  BY <1>2 DEF Said1, Said2
<1> HIDE DEF said, only, w, i
<1> DEFINE one == <<w>>
<1>11. CASE places.string = <<>>
  <2> DEFINE pl == [places EXCEPT !.string = one]
  <2>1. places' = pl /\ s = Append(q.calls, Said1(w))
    BY <1>4, <1>5, <1>10, <1>11
  <2>2. r.current = 1 /\ r.pc = "advance" /\ r.only
    BY <1>2, <1>6, <1>7, <1>11
  <2>3. Steps(q, places, r, pl)
    BY <1>7, <1>9, <1>11, <2>1 DEF Steps
  <2>4. one # <<>> /\ Len(one) = 1
    OBVIOUS
  <2> HIDE DEF one
  <2>5. pl.string = one
    BY DEF Reading
  <2> QED
    BY <1>5, <2>1, <2>2, <2>3, <2>4, <2>5 DEF Goes, Turn
<1>12. CASE places.string # <<>>
  <2> DEFINE list == Append(places.list, w)
             pl == [places EXCEPT !.list = list]
  <2>1. places' = pl /\ s = Append(q.calls, Said2(w))
    BY <1>4, <1>5, <1>10, <1>12
  <2>2. r.current = 2 /\ r.pc = "advance" /\ r.only
    BY <1>2, <1>6, <1>7, <1>12
  <2>3. Steps(q, places, r, pl)
    BY <1>7, <1>9, <1>12, <2>1 DEF Steps
  <2> HIDE DEF list
  <2>5. pl.string = places.string
    BY DEF Reading
  <2> QED
    BY <1>2, <1>5, <1>12, <2>1, <2>2, <2>3, <2>5 DEF Goes, Turn
<1> QED
  BY <1>11, <1>12

(* What each step of the command line's parse does.                        *)
LEMMA CommandGoes ==
  ASSUME Reading, ParseStep(Script)
  PROVE  Goes(parses'[Script], places')
<1> DEFINE q == parses[Script]
           Good(r) == r.calls = q.calls /\ places' = places
<1>1. /\ q \in ParseSet /\ Turn(q, places) /\ parser = CommandParser /\ Script \in DOMAIN parses
      /\ parser \in OptionParsers /\ TaskWell(parser, q)
  BY DEF Reading, OptionsInv, TaskWell
<1>2. parses'[Script] \in ParseSet
  BY <1>1, StepWell DEF TaskWell
<1>3. ASSUME NEW r, parses'[Script] = r, places' = places, r.calls = q.calls, Turn(r, places)
      PROVE  Goes(parses'[Script], places')
  BY <1>3 DEF Goes, Steps
<1>4. CASE Start(Script)
  <2> DEFINE began == <<parser>>
             last == Len(parser.arguments)
             r == [q EXCEPT !.pc = "words", !.began = began, !.last = last, !.current = 1]
  <2>1. parser.arguments # <<>> /\ q.pc = "waiting"
    BY <1>1, <1>4, CommandFacts DEF Start
  <2>2. parses'[Script] = r /\ places' = places
    BY <1>1, <1>4, <2>1 DEF Start
  <2> HIDE DEF began, last, q
  <2>3. r.calls = q.calls /\ r.current = 1 /\ r.pc = "words"
    BY <1>1 DEF ParseSet
  <2> HIDE DEF r
  <2>4. Turn(r, places)
    BY <1>1, <2>1, <2>3 DEF Turn
  <2> QED
    BY <1>3, <2>2, <2>3, <2>4 DEF q
<1>5. CASE EndOfWords(Script) \/ CheckRequired(Script)
  <2>1. PICK pc \in {"check", "failed", "done"} : parses'[Script] = [q EXCEPT !.pc = pc]
    BY <1>1, <1>5 DEF EndOfWords, CheckRequired
  <2>2. places' = places /\ q.pc \in {"words", "check"}
    BY <1>5 DEF EndOfWords, CheckRequired
  <2> DEFINE r == [q EXCEPT !.pc = pc]
  <2> HIDE DEF q
  <2>3. r.calls = q.calls /\ r.current = q.current /\ r.pc = pc /\ (r.only <=> q.only)
    BY <1>1 DEF ParseSet
  <2> HIDE DEF r
  <2>4. Turn(r, places)
    BY <1>1, <2>2, <2>3 DEF Turn
  <2> QED
    BY <1>3, <2>1, <2>2, <2>3, <2>4 DEF q, r
<1>6. CASE BrokenList(Script)
  BY <1>6, FailGoes DEF BrokenList
<1>7. CASE EndMark(Script)
  <2>1. q.pc = "words" /\ ~q.only /\ parses'[Script] = PastMark(q) /\ places' = places
    BY <1>1, <1>7 DEF EndMark, AtWord, PastMark
  <2> DEFINE r == PastMark(q)
             only == TRUE
             words == Tail(q.words)
  <2>2. r = [q EXCEPT !.only = only, !.words = words]
    BY DEF PastMark
  <2> HIDE DEF r, only, words, q
  <2>3. r.calls = q.calls /\ r.current = q.current /\ r.pc = q.pc
    BY <1>1, <2>2 DEF ParseSet
  <2>4. Turn(r, places)
    BY <1>1, <2>1, <2>3 DEF Turn
  <2> QED
    BY <1>3, <2>1, <2>3, <2>4 DEF q, r
<1>8. CASE ShortWord(Script)
  <2> DEFINE letters == Head(q.words).text
             words == Tail(q.words)
             r == [q EXCEPT !.pc = "letters", !.letters = letters, !.words = words]
  <2>1. q.pc = "words" /\ ~q.only /\ parses'[Script] = r /\ places' = places
    BY <1>1, <1>8 DEF ShortWord, AtWord
  <2> HIDE DEF letters, words, q
  <2>3. r.calls = q.calls /\ r.current = q.current /\ r.pc = "letters"
    BY <1>1 DEF ParseSet
  <2> HIDE DEF r
  <2>4. Turn(r, places)
    BY <1>1, <2>1, <2>3 DEF Turn
  <2> QED
    BY <1>3, <2>1, <2>3, <2>4 DEF q, r
<1>9. Len(parser.options) = 7 /\ \A c : FindShort(parser, c) \in 0..7 /\ FindLong(parser, c) \in 0..7
  BY <1>1, CommandFacts, FindRange
<1>10. CASE ShortOption(Script)
  <2> DEFINE i == FindShort(parser, Head(q.letters))
             rest == Tail(q.letters)
             done == [q EXCEPT !.pc = "words", !.letters = <<>>]
             some == [q EXCEPT !.letters = rest]
             does == parser.options[i].does
  <2>1. /\ q.pc = "letters"
        /\ \/ i = 0 /\ Fails(Script)
           \/ i # 0 /\ \E v : Calls(Script, done, <<"option", i>>, does, v) \/ Calls(Script, some, <<"option", i>>, does, v)
           \/ i # 0 /\ CallsWithNext(Script, done, i)
    BY <1>10 DEF ShortOption
  <2>2. places.string = <<>>
    BY <1>1, <2>1 DEF Turn
  <2>3. Alike(q, done) /\ Alike(q, some)
    <3> HIDE DEF rest, q
    <3> QED
      BY <1>1, <2>1 DEF Alike, ParseSet, q
  <2>4. i # 0 => i \in 1..7
    BY <1>9
  <2> HIDE DEF done, some
  <2> QED
    BY <1>2, <2>1, <2>2, <2>3, <2>4, FailGoes, OptionGoes
<1>11. CASE LongOption(Script)
  <2> DEFINE w == Head(q.words)
             i == FindLong(parser, w.name)
             rest == Tail(q.words)
             past == [q EXCEPT !.words = Tail(@)]
             does == parser.options[i].does
  <2>1. /\ q.pc = "words" /\ ~q.only
        /\ \/ Fails(Script)
           \/ i # 0 /\ \E v : Calls(Script, past, <<"option", i>>, does, v)
           \/ i # 0 /\ CallsWithNext(Script, past, i)
    BY <1>11 DEF LongOption, AtWord
  <2>2. places.string = <<>>
    BY <1>1, <2>1 DEF Turn
  <2>3. Alike(q, past)
    <3>1. past = [q EXCEPT !.words = rest]
      OBVIOUS
    <3> HIDE DEF rest, q
    <3> QED
      BY <1>1, <2>1, <3>1 DEF Alike, ParseSet, q
  <2>4. i # 0 => i \in 1..7
    BY <1>9
  <2> HIDE DEF past
  <2> QED
    BY <1>2, <2>1, <2>2, <2>3, <2>4, FailGoes, OptionGoes
<1>12. CASE Positional(Script)
  BY <1>2, <1>12, ArgumentGoes
<1>13. CASE NextInTurn(Script)
  <2> DEFINE next == IF parser.arguments[q.current].multiple THEN q.current
                     ELSE IF q.current = Len(parser.arguments) THEN 0 ELSE q.current + 1
             r == [q EXCEPT !.pc = "words", !.current = next]
  <2>1. q.pc = "advance" /\ parses'[Script] = r /\ places' = places
    BY <1>1, <1>13 DEF NextInTurn
  <2>2. (q.current = 1 \/ q.current = 2) /\ places.string # <<>>
    BY <1>1, <2>1 DEF Turn
  <2>3. next = 2
    BY <1>1, <2>2, CommandFacts
  <2> HIDE DEF next, q
  <2>4. r.calls = q.calls /\ r.current = next /\ r.pc = "words" /\ (r.only <=> q.only)
    BY <1>1 DEF ParseSet
  <2> HIDE DEF r
  <2>5. Turn(r, places)
    BY <1>1, <2>2, <2>3, <2>4 DEF Turn
  <2> QED
    BY <1>3, <2>1, <2>4, <2>5 DEF q, r
<1> QED
  BY <1>4, <1>5, <1>6, <1>7, <1>8, <1>10, <1>11, <1>12, <1>13 DEF ParseStep

-----------------------------------------------------------------------------
(* Driver: the script and its arguments.                                   *)

PlacesSet ==
  [string : Seq(WordsAndNone), number : Seq(WordsAndNone), list : Seq(WordsAndNone), set : Nat, raise : Nat]
Given == {"script", "argument"}
Done == {"eval", "load", "require", "script"}

(* What was kept is what was given, and the script comes after all that    *)
(* acts.                                                                   *)
ArgumentsWell(s, pl) ==
  /\ pl \in PlacesSet /\ ValuesOf(Only(s, Given)) = pl.string \o pl.list
  /\ IF pl.string = <<>> THEN pl.list = <<>> /\ Only(s, Done) = Actions(s)
     ELSE /\ Said1(pl.string[1]) \in CallSet /\ Said1(pl.string[1]) \in ToSet(s)
          /\ Only(s, Done) = Append(Actions(s), Said1(pl.string[1]))
          /\ Directories(Before(s, Said1(pl.string[1]))) = Directories(s)

(* An option gives no argument.                                            *)
LEMMA OptionGivesNone ==
  ASSUME NEW s \in Seq(CallSet), NEW pl, ArgumentsWell(s, pl), pl.string = <<>>, NEW x \in CallSet, Does(x) \in Asked
  PROVE  ArgumentsWell(Append(s, x), pl)
<1> DEFINE t == Append(s, x)
<1>1. Does(x) \notin Given /\ (Does(x) \in Done <=> Does(x) \in Kinds)
  BY DEF Asked, Kinds, Given, Done
<1>2. Only(t, Given) = Only(s, Given)
  BY <1>1, OnlyGrows
<1>3. Only(t, Done) = Actions(t)
  <2>1. Only(t, Done) = IF Does(x) \in Done THEN Append(Only(s, Done), x) ELSE Only(s, Done)
    BY OnlyGrows
  <2>2. Actions(t) = IF Does(x) \in Kinds THEN Append(Actions(s), x) ELSE Actions(s)
    BY OnlyGrows DEF Actions
  <2> QED
    BY <1>1, <2>1, <2>2 DEF ArgumentsWell
<1> HIDE DEF t
<1> QED
  BY <1>2, <1>3 DEF ArgumentsWell, t

(* The first is the script.                                                *)
LEMMA ScriptGiven ==
  ASSUME NEW s \in Seq(CallSet), NEW pl, ArgumentsWell(s, pl), pl.string = <<>>, NEW v \in WordsAndNone
  PROVE  ArgumentsWell(Append(s, Said1(v)), [pl EXCEPT !.string = <<v>>])
<1> DEFINE x == Said1(v)
           t == Append(s, x)
           one == <<v>>
           E == WordsAndNone
           r == [pl EXCEPT !.string = one]
<1>1. x \in CallSet /\ Does(x) = "script" /\ x.value = v
  BY CommandCalls DEF Said1
<1>2. one \in Seq(E) /\ one # <<>> /\ one[1] = v /\ one \o <<>> = one
  OBVIOUS
<1> HIDE DEF one
<1>3. r \in PlacesSet /\ r.string = one /\ r.list = pl.list
  BY <1>2 DEF ArgumentsWell, PlacesSet
<1> HIDE DEF r
<1>4. Only(s, Given) \in Seq(CallSet) /\ ValuesOf(Only(s, Given)) = <<>> \o <<>> /\ pl.list = <<>>
  BY OnlyTyped DEF ArgumentsWell
<1>5. Only(s, Given) = <<>>
  <2> DEFINE g == Only(s, Given)
  <2>1. g # <<>> => 1 \in DOMAIN g
    <3>1. g \in Seq(CallSet)
      BY <1>4
    <3> HIDE DEF g
    <3> QED
      BY <3>1, EmptySeq, LenProperties
  <2>2. DOMAIN ValuesOf(g) = DOMAIN g /\ ValuesOf(g) = <<>>
    BY <1>4 DEF ValuesOf
  <2>3. 1 \notin DOMAIN <<>>
    OBVIOUS
  <2> QED
    BY <2>1, <2>2, <2>3
<1>6. x \notin ToSet(s)
  <2>1. x \in ToSet(s) => x \in ToSet(<<>>)
    BY <1>1, <1>5, OnlyElements DEF Given
  <2> QED
    BY <2>1 DEF ToSet
<1>7. Before(t, x) = t
  BY <1>1, <1>6, BeforeLast
<1>8. x \in ToSet(t)
  BY <1>1, AppendProperties, LenProperties DEF ToSet
<1>9. ValuesOf(Only(t, Given)) = one
  <2>1. Only(t, Given) = Append(<<>>, x)
    BY <1>1, <1>5, OnlyGrows DEF Given
  <2>2. <<>> \in Seq(CallSet)
    OBVIOUS
  <2>3. ValuesOf(Append(<<>>, x)) = Append(ValuesOf(<<>>), v)
    BY <1>1, <2>2, ValuesGrow
  <2>4. ValuesOf(<<>>) = <<>>
    BY <1>4, <1>5
  <2> QED
    BY <2>1, <2>3, <2>4 DEF one
<1>10. Only(t, Done) = Append(Actions(t), x)
  <2>1. Only(t, Done) = Append(Only(s, Done), x)
    BY <1>1, OnlyGrows DEF Done
  <2>2. Actions(t) = Actions(s)
    BY <1>1, OnlyGrows DEF Actions, Kinds
  <2> QED
    BY <2>1, <2>2 DEF ArgumentsWell
<1> HIDE DEF t
<1> QED
  BY <1>1, <1>2, <1>3, <1>4, <1>7, <1>8, <1>9, <1>10 DEF ArgumentsWell, r, one, t

(* The others are its arguments.                                           *)
LEMMA ArgumentGiven ==
  ASSUME NEW s \in Seq(CallSet), NEW pl, ArgumentsWell(s, pl), pl.string # <<>>, NEW v \in WordsAndNone
  PROVE  ArgumentsWell(Append(s, Said2(v)), [pl EXCEPT !.list = Append(@, v)])
<1> DEFINE y == Said2(v)
           x == Said1(pl.string[1])
           t == Append(s, y)
           E == WordsAndNone
           list == Append(pl.list, v)
           r == [pl EXCEPT !.list = list]
<1>1. y \in CallSet /\ Does(y) = "argument" /\ y.value = v
  BY CommandCalls DEF Said2
<1>2. pl.string \in Seq(E) /\ pl.list \in Seq(E) /\ v \in E /\ pl \in PlacesSet
  BY DEF ArgumentsWell, PlacesSet
<1>3. list \in Seq(E) /\ pl.string \o list = Append(pl.string \o pl.list, v)
  <2> DEFINE a == pl.string
             b == pl.list
  <2>1. a \in Seq(E) /\ b \in Seq(E) /\ v \in E
    BY <1>2
  <2> HIDE DEF a, b, E
  <2>2. Append(b, v) \in Seq(E)
    BY <2>1, AppendProperties
  <2>3. Append(a \o b, v) = a \o Append(b, v) /\ a \o b \in Seq(E)
    BY <2>1, AppendBehind, Zenon
  <2> QED
    BY <2>2, <2>3 DEF a, b
<1> HIDE DEF list
<1>4. r \in PlacesSet /\ r.string = pl.string /\ r.list = list
  BY <1>2, <1>3 DEF PlacesSet
<1> HIDE DEF r
<1>5. ValuesOf(Only(t, Given)) = pl.string \o list
  <2>1. Only(t, Given) = Append(Only(s, Given), y)
    BY <1>1, OnlyGrows DEF Given
  <2>2. Only(s, Given) \in Seq(CallSet)
    BY OnlyTyped
  <2>3. ValuesOf(Append(Only(s, Given), y)) = Append(ValuesOf(Only(s, Given)), v)
    BY <1>1, <2>2, ValuesGrow
  <2> QED
    BY <1>3, <2>1, <2>3 DEF ArgumentsWell
<1>6. x \in CallSet /\ x \in ToSet(s) /\ Only(s, Done) = Append(Actions(s), x) /\ Directories(Before(s, x)) = Directories(s)
  BY DEF ArgumentsWell
<1> HIDE DEF x
<1>7. Only(t, Done) = Only(s, Done) /\ Actions(t) = Actions(s)
  BY <1>1, OnlyGrows DEF Done, Actions, Kinds
<1>8. Before(t, x) = Before(s, x)
  BY <1>1, <1>6, BeforeStays
<1>9. Directories(t) = Directories(s)
  BY <1>1, ListsStay
<1>10. x \in ToSet(t)
  <2>1. DOMAIN s = 1..Len(s) /\ Len(s) \in Nat /\ DOMAIN t = 1..(Len(s) + 1) /\ \A i \in 1..Len(s) : t[i] = s[i]
    BY <1>1, AppendProperties, LenProperties
  <2>2. PICK i \in 1..Len(s) : x = s[i]
    BY <1>6, <2>1 DEF ToSet
  <2> HIDE DEF t
  <2>3. i \in DOMAIN t /\ t[i] = x
    BY <2>1, <2>2
  <2> QED
    BY <2>3 DEF ToSet
<1> HIDE DEF t
<1>11. /\ Only(t, Done) = Append(Actions(t), x) /\ Directories(Before(t, x)) = Directories(t)
       /\ r.string # <<>> /\ x = Said1(r.string[1])
  BY <1>4, <1>6, <1>7, <1>8, <1>9 DEF x
<1> HIDE DEF y
<1> QED
  BY <1>4, <1>5, <1>6, <1>10, <1>11 DEF ArgumentsWell, r, list, t, y

-----------------------------------------------------------------------------
(* Driver: how it ends.                                                    *)

(* What ran is some of a, which is all that was asked for but perhaps the  *)
(* script; and what DoneInOrder says of a driver.                          *)
AllRan(a, s, ran, status, none) ==
  /\ ran \in Seq(RanSet) /\ Len(ran) <= Len(a)
  /\ \A k \in 1..Len(ran) :
       /\ ran[k].does = Does(a[k]) /\ ran[k].value = a[k].value
       /\ k < Len(ran) => a[k].value \notin BadCode
       /\ OneOfAKind(a, Len(ran), k) => ran[k].resolvers = Searched(Before(s, a[k]), none)
  /\ IF status = 0 THEN Len(ran) = Len(a) /\ (Len(ran) > 0 => a[Len(ran)].value \notin BadCode)
     ELSE Len(ran) > 0 /\ a[Len(ran)].value \in BadCode
DoneBy(d, s, actions, done) ==
  /\ Len(d.ran) = Len(done)
  /\ \A k \in DOMAIN done :
       /\ d.ran[k].does = Does(done[k]) /\ d.ran[k].value = done[k].value
       /\ (\A j \in DOMAIN done : done[j] = done[k] => j = k) =>
            d.ran[k].resolvers = Reverse(ValuesOf(Only(Before(s, done[k]), {"load-path"})))
                                   \o (IF Only(s, {"no-std-lib"}) # <<>> THEN <<>> ELSE StandardResolvers)
  /\ d.exit = (IF actions = <<>> THEN "REPL"
               ELSE IF Len(done) < Len(actions) \/ Last(done).value \in BadCode THEN "failure" ELSE "success")
  /\ (done # <<>> /\ Does(Last(done)) = "script") => d.arguments = ValuesOf(Only(s, {"script", "argument"}))

(* The script runs last.                                                   *)
LEMMA ScriptRuns ==
  ASSUME NEW s \in Seq(CallSet), NEW x \in CallSet, NEW ran, NEW none, RanWell(s, ran, 0, none),
         NEW r \in RanSet, r.does = Does(x), r.value = x.value, r.resolvers = Searched(Before(s, x), none)
  PROVE  AllRan(Append(Actions(s), x), s, Append(ran, r), IF x.value \in BadCode THEN 1 ELSE 0, none)
<1> DEFINE a == Actions(s)
           b == Append(a, x)
           n == Len(ran)
           run == Append(ran, r)
           status == IF x.value \in BadCode THEN 1 ELSE 0
<1>1. a \in Seq(CallSet)
  BY OnlyTyped DEF Actions
<1>2. /\ ran \in Seq(RanSet) /\ n = Len(a) /\ n \in Nat
      /\ \A k \in 1..n :
           /\ ran[k].does = Does(a[k]) /\ ran[k].value = a[k].value
           /\ k < n => a[k].value \notin BadCode
           /\ OneOfAKind(a, n, k) => ran[k].resolvers = Searched(Before(s, a[k]), none)
      /\ n > 0 => a[n].value \notin BadCode
  BY <1>1, LenProperties DEF RanWell
<1> HIDE DEF a
<1>3. Len(b) = n + 1 /\ b[n + 1] = x /\ \A k \in 1..n : b[k] = a[k]
  BY <1>1, <1>2, AppendProperties
<1>4. run \in Seq(RanSet) /\ Len(run) = n + 1 /\ run[n + 1] = r /\ \A k \in 1..n : run[k] = ran[k]
  BY <1>2, AppendProperties
<1> HIDE DEF n, run, b
<1>5. ASSUME NEW k \in 1..n
      PROVE  /\ run[k].does = Does(b[k]) /\ run[k].value = b[k].value /\ b[k].value \notin BadCode
             /\ OneOfAKind(b, n + 1, k) => run[k].resolvers = Searched(Before(s, b[k]), none)
  <2>1. k = n \/ k < n
    BY <1>2
  <2>2. k = n => n > 0
    BY <1>2
  <2>3. OneOfAKind(b, n + 1, k) => OneOfAKind(a, n, k)
    <3>1. \A j \in 1..n : j \in 1..(n + 1)
      BY <1>2
    <3> QED
      BY <1>3, <3>1 DEF OneOfAKind
  <2> QED
    BY <1>2, <1>3, <1>4, <2>1, <2>2, <2>3
<1>6. \A k \in 1..(n + 1) :
        /\ run[k].does = Does(b[k]) /\ run[k].value = b[k].value
        /\ k < n + 1 => b[k].value \notin BadCode
        /\ OneOfAKind(b, n + 1, k) => run[k].resolvers = Searched(Before(s, b[k]), none)
  <2>1. \A k \in 1..(n + 1) : (k \in 1..n /\ k < n + 1) \/ (k = n + 1 /\ ~(k < n + 1))
    BY <1>2
  <2> QED
    BY <1>3, <1>4, <1>5, <2>1
<1>7. IF status = 0 THEN n + 1 = Len(b) /\ (n + 1 > 0 => b[n + 1].value \notin BadCode)
      ELSE n + 1 > 0 /\ b[n + 1].value \in BadCode
  BY <1>2, <1>3
<1> HIDE DEF status
<1>8. AllRan(b, s, run, status, none)
  BY <1>2, <1>3, <1>4, <1>6, <1>7 DEF AllRan
<1> QED
  BY <1>8 DEF a, b, run, status

(* What should be done, up to the first failure, is what ran.              *)
LEMMA FirstsDone ==
  ASSUME NEW a \in Seq(CallSet), NEW b \in Seq(CallSet), Longer(a, b), NEW s, NEW ran, NEW status, NEW none,
         AllRan(a, s, ran, status, none), status = 0 => b = a
  PROVE  /\ UpToFailure(b) \in Seq(CallSet) /\ Len(UpToFailure(b)) = Len(ran)
         /\ \A k \in 1..Len(ran) : UpToFailure(b)[k] = a[k]
<1> DEFINE n == Len(ran)
           I == {i \in 1..Len(b) : b[i].value \in BadCode}
<1>1. UpToFailure(b) = IF Least(I) = 0 THEN b ELSE SubSeq(b, 1, Least(I))
  BY DEF UpToFailure, SelectInSeq, Least
<1>2. /\ n \in Nat /\ n <= Len(a) /\ Len(a) \in Nat /\ Len(b) \in Nat /\ Len(a) <= Len(b)
      /\ \A k \in 1..Len(a) : b[k] = a[k]
      /\ \A k \in 1..n : k < n => a[k].value \notin BadCode
      /\ IF status = 0 THEN n = Len(a) /\ (n > 0 => a[n].value \notin BadCode) ELSE n > 0 /\ a[n].value \in BadCode
  BY LenProperties DEF AllRan, Longer
<1> HIDE DEF n
<1>3. CASE status = 0
  <2>1. \A k \in 1..n : k < n \/ (k = n /\ n > 0)
    BY <1>2
  <2>2. \A k \in 1..n : a[k].value \notin BadCode
    BY <1>2, <1>3, <2>1
  <2>3. I = {}
    BY <1>2, <1>3, <2>2
  <2>4. Least(I) = 0
    BY <2>3 DEF Least
  <2> QED
    BY <1>1, <1>2, <1>3, <2>4 DEF n
<1>4. CASE status # 0
  <2>1. n \in 1..Len(b) /\ n \in 1..Len(a)
    BY <1>2, <1>4
  <2>2. n \in I /\ \A j \in 1..Len(b) : j < n => j \notin I
    <3>1. \A j \in 1..Len(b) : j < n => j \in 1..n /\ j \in 1..Len(a)
      BY <1>2
    <3> QED
      BY <1>2, <1>4, <2>1, <3>1
  <2>3. I \subseteq 1..Len(b)
    OBVIOUS
  <2> HIDE DEF I
  <2>4. Least(I) = n
    BY <1>2, <2>2, <2>3, LeastIs
  <2>5. /\ SubSeq(b, 1, n) \in Seq(CallSet) /\ Len(SubSeq(b, 1, n)) = n
        /\ \A k \in 1..n : SubSeq(b, 1, n)[k] = b[k]
    BY <1>2, <2>1, FirstElements
  <2>6. \A k \in 1..n : k \in 1..Len(a)
    BY <1>2
  <2>7. n # 0 /\ UpToFailure(b) = SubSeq(b, 1, n)
    BY <1>1, <1>2, <1>4, <2>4
  <2> QED
    BY <1>2, <2>5, <2>6, <2>7 DEF n
<1> QED
  BY <1>3, <1>4

(* A driver that ends as it should did all that was asked for.             *)
LEMMA AllDone ==
  ASSUME NEW a \in Seq(CallSet), NEW b \in Seq(CallSet), Longer(a, b), NEW s, NEW d, NEW status, NEW none \in BOOLEAN,
         AllRan(a, s, d.ran, status, none), status = 0 => b = a, none <=> Only(s, {"no-std-lib"}) # <<>>,
         d.exit = (IF b = <<>> THEN "REPL" ELSE IF status # 0 THEN "failure" ELSE "success"),
         (Len(d.ran) > 0 /\ Does(a[Len(d.ran)]) = "script") => d.arguments = ValuesOf(Only(s, Given))
  PROVE  DoneBy(d, s, b, UpToFailure(b))
<1> DEFINE done == UpToFailure(b)
           n == Len(d.ran)
<1>1. done \in Seq(CallSet) /\ Len(done) = n /\ \A k \in 1..n : done[k] = a[k]
  BY FirstsDone
<1>2. /\ n \in Nat /\ n <= Len(a) /\ Len(a) \in Nat /\ Len(b) \in Nat /\ Len(a) <= Len(b)
      /\ IF status = 0 THEN n = Len(a) /\ (n > 0 => a[n].value \notin BadCode) ELSE n > 0 /\ a[n].value \in BadCode
      /\ \A k \in 1..n :
           /\ d.ran[k].does = Does(a[k]) /\ d.ran[k].value = a[k].value
           /\ OneOfAKind(a, n, k) => d.ran[k].resolvers = Searched(Before(s, a[k]), none)
  BY LenProperties DEF AllRan, Longer
<1> HIDE DEF done, n
<1>3. DOMAIN done = 1..n /\ (done = <<>> <=> n = 0) /\ (b = <<>> <=> Len(b) = 0)
  BY <1>1, <1>2, LenProperties, EmptySeq
<1>4. n > 0 => n \in 1..n /\ Last(done) = a[n] /\ done[n] = a[n]
  <2>1. n > 0 => n \in 1..n
    BY <1>2
  <2> QED
    BY <1>1, <2>1 DEF Last
<1>5. ASSUME NEW k \in 1..n
      PROVE  /\ d.ran[k].does = Does(done[k]) /\ d.ran[k].value = done[k].value
             /\ (\A j \in DOMAIN done : done[j] = done[k] => j = k) =>
                  d.ran[k].resolvers = Reverse(ValuesOf(Only(Before(s, done[k]), {"load-path"})))
                                         \o (IF Only(s, {"no-std-lib"}) # <<>> THEN <<>> ELSE StandardResolvers)
  <2>1. done[k] = a[k] /\ d.ran[k].does = Does(a[k]) /\ d.ran[k].value = a[k].value
    BY <1>1, <1>2
  <2>2. (\A j \in DOMAIN done : done[j] = done[k] => j = k) => OneOfAKind(a, n, k)
    BY <1>1, <1>3 DEF OneOfAKind
  <2> DEFINE u == Before(s, a[k])
             none2 == Only(s, {"no-std-lib"}) # <<>>
  <2>3. OneOfAKind(a, n, k) => d.ran[k].resolvers = Searched(u, none)
    BY <1>2
  <2>4. Searched(u, none) = Reverse(ValuesOf(Only(u, {"load-path"}))) \o (IF none2 THEN <<>> ELSE StandardResolvers)
    <3>1. (IF none THEN <<>> ELSE StandardResolvers) = (IF none2 THEN <<>> ELSE StandardResolvers)
      BY DEF none2
    <3> HIDE DEF none2
    <3> QED
      BY <3>1 DEF Searched, Directories
  <2> QED
    BY <2>1, <2>2, <2>3, <2>4
<1>6. d.exit = (IF b = <<>> THEN "REPL"
                ELSE IF Len(done) < Len(b) \/ Last(done).value \in BadCode THEN "failure" ELSE "success")
  <2>1. CASE status = 0
    <3>1. b = a /\ Len(b) = n /\ (b = <<>> <=> n = 0)
      BY <1>2, <1>3, <2>1
    <3>2. n > 0 => Last(done).value \notin BadCode
      BY <1>2, <1>4, <2>1
    <3> QED
      BY <1>1, <1>2, <2>1, <3>1, <3>2
  <2>2. CASE status # 0
    <3>1. b # <<>>
      BY <1>2, <1>3, <2>2
    <3>2. Last(done).value \in BadCode
      BY <1>2, <1>4, <2>2
    <3> QED
      BY <2>2, <3>1, <3>2
  <2> QED
    BY <2>1, <2>2
<1>7. (done # <<>> /\ Does(Last(done)) = "script") => d.arguments = ValuesOf(Only(s, {"script", "argument"}))
  <2>1. done # <<>> => n > 0
    BY <1>2, <1>3
  <2> QED
    BY <1>4, <2>1 DEF Given, n
<1>8. Len(d.ran) = Len(done)
  BY <1>1 DEF n
<1>9. \A k \in DOMAIN done :
        /\ d.ran[k].does = Does(done[k]) /\ d.ran[k].value = done[k].value
        /\ (\A j \in DOMAIN done : done[j] = done[k] => j = k) =>
             d.ran[k].resolvers = Reverse(ValuesOf(Only(Before(s, done[k]), {"load-path"})))
                                    \o (IF Only(s, {"no-std-lib"}) # <<>> THEN <<>> ELSE StandardResolvers)
  BY <1>3, <1>5
<1> QED
  BY <1>6, <1>7, <1>8, <1>9 DEF DoneBy, done

(* The end of the command line, where no script runs.                      *)
LEMMA EndsWell ==
  ASSUME NEW s \in Seq(CallSet), NEW pl, ArgumentsWell(s, pl), NEW d, Told(s, d), NEW r,
         r.ran = d.ran, d.status # 0 \/ pl.string = <<>>,
         r.exit = (IF d.status # 0 THEN "failure" ELSE IF d.actions # 0 THEN "success" ELSE "REPL")
  PROVE  DoneBy(r, s, Only(s, Done), UpToFailure(Only(s, Done)))
<1> DEFINE a == Actions(s)
           b == Only(s, Done)
           none == d.noStdLib
           status == d.status
<1>1. /\ d \in DriverSet /\ none \in BOOLEAN /\ status \in {0, 1} /\ d.actions = Len(d.ran)
      /\ RanWell(s, d.ran, status, none) /\ (none <=> Only(s, {"no-std-lib"}) # <<>>)
  BY DEF Told, DriverSet
<1>2. a \in Seq(CallSet) /\ b \in Seq(CallSet)
  BY OnlyTyped DEF Actions
<1>3. Longer(a, b) /\ (status = 0 => b = a)
  <2>1. b = a \/ \E x \in CallSet : b = Append(a, x)
    BY DEF ArgumentsWell
  <2>2. status = 0 => b = a
    BY DEF ArgumentsWell
  <2> HIDE DEF a, b
  <2>3. a \in Seq(CallSet) /\ \A x \in CallSet : Longer(a, a) /\ Longer(a, Append(a, x))
    BY <1>2, LongerByOne
  <2>4. Longer(a, a)
    BY <1>2, LenProperties DEF Longer
  <2> QED
    BY <2>1, <2>2, <2>3, <2>4
<1>4. AllRan(a, s, r.ran, status, none)
  BY <1>1 DEF RanWell, AllRan
<1>5. /\ Len(r.ran) \in Nat /\ Len(r.ran) <= Len(a)
      /\ (status = 0 => Len(r.ran) = Len(a)) /\ (status # 0 => Len(r.ran) > 0)
  BY <1>2, <1>4, LenProperties DEF AllRan
<1>6. \A k \in 1..Len(a) : Does(a[k]) # "script"
  <2>1. \A k \in 1..Len(a) : a[k] \in ToSet(a)
    BY <1>2, LenProperties DEF ToSet
  <2>2. "script" \notin Kinds
    BY DEF Kinds
  <2> QED
    BY <2>1, <2>2, OnlyElements DEF Actions
<1>7. ~(Len(r.ran) > 0 /\ Does(a[Len(r.ran)]) = "script")
  <2> DEFINE n == Len(r.ran)
  <2>1. n > 0 => n \in 1..Len(a)
    BY <1>2, <1>5, LenProperties
  <2> QED
    BY <1>6, <2>1
<1> HIDE DEF a, b, none, status
<1>8. r.exit = (IF b = <<>> THEN "REPL" ELSE IF status # 0 THEN "failure" ELSE "success")
  <2>1. status # 0 => b # <<>>
    BY <1>2, <1>3, <1>5, LenProperties, EmptySeq DEF Longer
  <2>2. status = 0 => (b = <<>> <=> d.actions = 0)
    BY <1>1, <1>2, <1>3, <1>5, LenProperties, EmptySeq
  <2> QED
    BY <2>1, <2>2 DEF status
<1>9. DoneBy(r, s, b, UpToFailure(b))
  BY <1>1, <1>2, <1>3, <1>4, <1>7, <1>8, AllDone
<1> QED
  BY <1>9 DEF b

(* The same of a run and an entry that are given by name.                  *)
LEMMA ScriptRun ==
  ASSUME NEW w \in DriverSet, NEW v \in WordsAndNone,
         NEW u, u = Runs(w, "script", v),
         NEW e, e = [does |-> "script", value |-> v, resolvers |-> w.resolvers]
  PROVE  /\ e \in RanSet /\ e.does = "script" /\ e.value = v /\ e.resolvers = w.resolvers
         /\ u \in DriverSet /\ u.status = (IF v \in BadCode THEN 1 ELSE 0) /\ u.ran = Append(w.ran, e)
<1>1. "script" \in Kinds \cup {"script"}
  OBVIOUS
<1> QED
  BY <1>1, RunFields

(* The end of a command line with a script.                                *)
LEMMA ScriptEndsWell ==
  ASSUME NEW s \in Seq(CallSet), NEW pl, ArgumentsWell(s, pl), NEW d, Told(s, d), d.status = 0, pl.string # <<>>
  PROVE  LET u == Runs(WithStandard(d), "script", pl.string[1])
             r == [u EXCEPT !.arguments = pl.string \o pl.list, !.exit = IF u.status = 0 THEN "success" ELSE "failure"]
         IN DoneBy(r, s, Only(s, Done), UpToFailure(Only(s, Done)))
<1> DEFINE a == Actions(s)
           b == Only(s, Done)
           none == d.noStdLib
           v == pl.string[1]
           x == Said1(v)
           w == WithStandard(d)
           u == Runs(w, "script", v)
           e == [does |-> "script", value |-> v, resolvers |-> w.resolvers]
           args == pl.string \o pl.list
           exit == IF u.status = 0 THEN "success" ELSE "failure"
           r == [u EXCEPT !.arguments = args, !.exit = exit]
<1>1. /\ x \in CallSet /\ b = Append(a, x) /\ Directories(Before(s, x)) = Directories(s) /\ args = ValuesOf(Only(s, Given))
  BY DEF ArgumentsWell
<1>2. x.value = v /\ Does(x) = "script" /\ v \in WordsAndNone
  <2>1. x.value = v
    BY DEF Said1
  <2>2. x.value \in WordsAndNone
    <3> HIDE DEF x
    <3> QED
      BY <1>1 DEF CallSet, WordsAndNone
  <2> QED
    BY <2>1, <2>2, CommandCalls
<1> HIDE DEF x, v, args
<1>3. /\ d \in DriverSet /\ none \in BOOLEAN /\ RanWell(s, d.ran, 0, none) /\ (none <=> Only(s, {"no-std-lib"}) # <<>>)
  BY DEF Told, DriverSet
<1>4. w \in DriverSet /\ w.resolvers = Searched(s, none) /\ w.ran = d.ran
  BY WithStandardLooks
<1> HIDE DEF w
<1>5. /\ e \in RanSet /\ e.does = "script" /\ e.value = v /\ e.resolvers = w.resolvers
      /\ u \in DriverSet /\ u.status = (IF v \in BadCode THEN 1 ELSE 0) /\ u.ran = Append(w.ran, e)
  <2> HIDE DEF a, b, none, exit, r
  <2>1. u = Runs(w, "script", v) /\ e = [does |-> "script", value |-> v, resolvers |-> w.resolvers]
    OBVIOUS
  <2> HIDE DEF u, e
  <2> QED
    BY <1>2, <1>4, <2>1, ScriptRun
<1> HIDE DEF e, u, a, b, none
<1>6. r.ran = u.ran /\ r.arguments = args /\ r.exit = exit
  <2> HIDE DEF exit
  <2> QED
    BY <1>5 DEF DriverSet
<1> HIDE DEF r
<1>7. AllRan(b, s, r.ran, IF v \in BadCode THEN 1 ELSE 0, none)
  <2>1. e.resolvers = Searched(Before(s, x), none)
    BY <1>1, <1>4, <1>5 DEF Searched
  <2>2. AllRan(Append(a, x), s, Append(d.ran, e), IF x.value \in BadCode THEN 1 ELSE 0, none)
    BY <1>1, <1>2, <1>3, <1>5, <2>1, ScriptRuns DEF a
  <2> QED
    BY <1>1, <1>2, <1>4, <1>5, <1>6, <2>2
<1>8. b \in Seq(CallSet) /\ b # <<>> /\ Longer(b, b)
  <2>1. a \in Seq(CallSet) /\ b \in Seq(CallSet)
    BY OnlyTyped DEF a, b, Actions
  <2> QED
    BY <1>1, <2>1, AppendProperties, LenProperties DEF Longer
<1> DEFINE status == IF v \in BadCode THEN 1 ELSE 0
<1>9. r.exit = (IF b = <<>> THEN "REPL" ELSE IF status # 0 THEN "failure" ELSE "success")
  BY <1>5, <1>6, <1>8
<1>10. AllRan(b, s, r.ran, status, none)
  BY <1>7
<1> HIDE DEF status, exit
<1>11. r.arguments = ValuesOf(Only(s, Given))
  BY <1>1, <1>6
<1>12. DoneBy(r, s, b, UpToFailure(b))
  BY <1>3, <1>8, <1>9, <1>10, <1>11, AllDone
<1> QED
  BY <1>12 DEF r, u, args, exit, b, w, v

-----------------------------------------------------------------------------
(* Driver: the whole of it.                                                *)

(* Until the end, what was told and given was kept; at the end, it is done.*)
CommandInv ==
  /\ OptionsInv /\ parser = CommandParser /\ DOMAIN parses = {Script}
  /\ driver.exit = "no" => /\ Turn(parses[Script], places) /\ ArgumentsWell(parses[Script].calls, places)
                           /\ Told(parses[Script].calls, driver)
  /\ CommandsInOrder

(* A word of the command line keeps it.                                    *)
LEMMA CommandKeepsInv == ASSUME CommandInv, ParseCommand PROVE CommandInv'
<1> DEFINE q == parses[Script]
           s == q.calls
           t == parses'[Script].calls
           r == parses'[Script]
<1>1. /\ driver.exit = "no" /\ ParseStep(Script)
      /\ driver' = IF t = s \/ Last(t).who[1] = "argument" THEN driver
                   ELSE React(driver, CommandOptions[Last(t).who[2]].does, Last(t).value)
  BY DEF ParseCommand
<1>2. /\ Reading /\ ArgumentsWell(s, places) /\ Told(s, driver) /\ parser \in OptionParsers
      /\ Script \in DOMAIN parses /\ DOMAIN parses = {Script}
  BY <1>1 DEF CommandInv, Reading, OptionsInv
<1>3. OptionsInv' /\ parser' = CommandParser /\ DOMAIN parses' = {Script}
  BY <1>1, <1>2, ParseKeepsInv, OnlyTask DEF Reading
<1>4. s \in Seq(CallSet) /\ t \in Seq(CallSet)
  BY <1>2, <1>3 DEF Reading, OptionsInv, TaskWell, ParseSet
<1>5. Turn(r, places') /\ Steps(q, places, r, places')
  BY <1>1, <1>2, CommandGoes DEF Goes
<1>6. ASSUME driver'.exit = "error" \/ (driver'.exit = "no" /\ Told(t, driver') /\ ArgumentsWell(t, places')) PROVE CommandInv'
  <2>1. CommandsInOrder'
    BY <1>6 DEF CommandsInOrder
  <2> QED
    BY <1>3, <1>5, <1>6, <2>1 DEF CommandInv
<1>7. ASSUME NEW x \in CallSet, t = Append(s, x) PROVE t # s /\ Last(t) = x
  <2> HIDE DEF s, t
  <2>1. Len(t) = Len(s) + 1 /\ Len(s) \in Nat /\ t[Len(t)] = x
    BY <1>4, <1>7, AppendProperties, LenProperties
  <2> QED
    BY <2>1 DEF Last
<1> HIDE DEF q
<1>8. CASE r.calls = s /\ places' = places
  BY <1>1, <1>2, <1>6, <1>8
<1>9. ASSUME places.string = <<>>, places' = places,
             NEW x \in CallSet, x.who[1] = "option", Does(x) = CommandOptions[x.who[2]].does, Does(x) \in Asked,
             t = Append(s, x)
      PROVE  CommandInv'
  <2>1. t # s /\ Last(t) = x
    BY <1>7, <1>9
  <2>2. driver' = React(driver, Does(x), x.value)
    BY <1>1, <1>9, <2>1
  <2> HIDE DEF s, t
  <2>3. driver'.exit = "error" \/ (driver'.exit = "no" /\ Told(Append(s, x), driver'))
    BY <1>1, <1>2, <1>4, <1>9, <2>2, ReactsWell DEF Asked
  <2>4. ArgumentsWell(Append(s, x), places')
    BY <1>2, <1>4, <1>9, OptionGivesNone
  <2> QED
    BY <1>6, <1>9, <2>3, <2>4
<1>10. ASSUME NEW x \in CallSet, x.who[1] = "argument", Does(x) \in {"script", "argument"}, t = Append(s, x),
              ArgumentsWell(Append(s, x), places')
       PROVE  CommandInv'
  <2>1. driver' = driver
    BY <1>1, <1>7, <1>10
  <2> HIDE DEF s, t
  <2>2. Told(Append(s, x), driver)
    BY <1>2, <1>4, <1>10, ArgumentTold
  <2> QED
    BY <1>1, <1>6, <1>10, <2>1, <2>2
<1>11. \A v \in WordsAndNone :
         /\ Said1(v) \in CallSet /\ Said1(v).who[1] = "argument" /\ Does(Said1(v)) = "script"
         /\ Said2(v) \in CallSet /\ Said2(v).who[1] = "argument" /\ Does(Said2(v)) = "argument"
  BY CommandCalls DEF Said1, Said2
<1>12. ASSUME places.string = <<>>, NEW v \in WordsAndNone, t = Append(s, Said1(v)), places' = [places EXCEPT !.string = <<v>>]
       PROVE  CommandInv'
  <2>1. ArgumentsWell(Append(s, Said1(v)), places')
    BY <1>2, <1>4, <1>12, ScriptGiven
  <2> QED
    BY <1>10, <1>11, <1>12, <2>1
<1>13. ASSUME places.string # <<>>, NEW v \in WordsAndNone, t = Append(s, Said2(v)), places' = [places EXCEPT !.list = Append(@, v)]
       PROVE  CommandInv'
  <2>1. ArgumentsWell(Append(s, Said2(v)), places')
    BY <1>2, <1>4, <1>13, ArgumentGiven
  <2> QED
    BY <1>10, <1>11, <1>13, <2>1
<1> QED
  BY <1>5, <1>8, <1>9, <1>12, <1>13 DEF Steps, q

(* A line that is read calls for what it means.                            *)
LEMMA LineIsMeant ==
  ASSUME CommandInv, driver.exit = "no", parses[Script].pc = "done"
  PROVE  /\ Meaning(CommandParser, parses[Script].line) \in Seq(CallSet)
         /\ ArgumentsWell(Meaning(CommandParser, parses[Script].line), places)
         /\ Told(Meaning(CommandParser, parses[Script].line), driver)
<1>1. Script \in DOMAIN parses /\ parser = CommandParser /\ TaskWell(parser, parses[Script])
  BY DEF CommandInv, OptionsInv
<1>2. parses[Script].calls = Meaning(CommandParser, parses[Script].line)
  <2>1. ParsedAsMeant
    BY InvIsMeant DEF CommandInv
  <2> QED
    BY <1>1, <2>1 DEF ParsedAsMeant
<1>3. parses[Script].calls \in Seq(CallSet)
  BY <1>1 DEF TaskWell, ParseSet
<1> QED
  BY <1>2, <1>3 DEF CommandInv

(* The end keeps it.                                                       *)
LEMMA EndKeepsInv ==
  ASSUME CommandInv, UNCHANGED optionVars, driver'.exit # "no",
         driver'.exit = "error" \/ \A m \in {Meaning(CommandParser, parses[Script].line)} :
                                     DoneBy(driver', m, Only(m, Done), UpToFailure(Only(m, Done)))
  PROVE  CommandInv'
<1>1. OptionsInv' /\ parser' = CommandParser /\ DOMAIN parses' = {Script} /\ parses' = parses
  BY DEF CommandInv, OptionsInv, optionVars
<1>2. CommandsInOrder'
  <2>1. CASE driver'.exit = "error"
    BY <2>1 DEF CommandsInOrder
  <2>2. CASE driver'.exit # "error"
    BY <1>1, <2>2 DEF CommandsInOrder, DoneInOrder, DoneBy, Done
  <2> QED
    BY <2>1, <2>2
<1> QED
  BY <1>1, <1>2 DEF CommandInv

(* A line that cannot be understood, no script, and a script.              *)
LEMMA EndsKeepInv == ASSUME CommandInv, BadCommand \/ EndCommands \/ RunScript PROVE CommandInv'
<1> DEFINE d == driver
           s == Meaning(CommandParser, parses[Script].line)
<1>1. d.exit = "no" /\ UNCHANGED optionVars
  BY DEF BadCommand, EndCommands, RunScript
<1>2. d \in DriverSet /\ (parses[Script].pc = "done" => s \in Seq(CallSet) /\ ArgumentsWell(s, places) /\ Told(s, d))
  BY <1>1, LineIsMeant DEF CommandInv, Told
<1> HIDE DEF s
<1>3. ASSUME driver'.exit # "no", driver'.exit = "error" \/ DoneBy(driver', s, Only(s, Done), UpToFailure(Only(s, Done)))
      PROVE  CommandInv'
  BY <1>1, <1>3, EndKeepsInv DEF s
<1>4. CASE BadCommand
  <2>1. driver' = [d EXCEPT !.exit = "error"]
    BY <1>4 DEF BadCommand
  <2>2. driver'.exit = "error"
    BY <1>2, <2>1 DEF DriverSet
  <2> QED
    BY <1>3, <2>2
<1>5. CASE EndCommands
  <2>1. parses[Script].pc = "done" /\ (d.status # 0 \/ places.string = <<>>)
    BY <1>5 DEF EndCommands
  <2> DEFINE exit == IF d.status # 0 THEN "failure" ELSE IF d.actions # 0 THEN "success" ELSE "REPL"
  <2>2. driver'.ran = d.ran /\ driver'.exit = exit
    <3>1. CASE d.status # 0
      <4>1. driver' = [d EXCEPT !.exit = "failure"]
        BY <1>5, <3>1 DEF EndCommands
      <4> QED
        BY <1>2, <3>1, <4>1 DEF DriverSet
    <3>2. CASE d.status = 0 /\ d.actions # 0
      <4>1. driver' = [d EXCEPT !.exit = "success"]
        BY <1>5, <3>2 DEF EndCommands
      <4> QED
        BY <1>2, <3>2, <4>1 DEF DriverSet
    <3>3. CASE d.status = 0 /\ ~(d.actions # 0)
      <4> DEFINE w == WithStandard(d)
                 yes == TRUE
                 r == [w EXCEPT !.exit = "REPL", !.debug = yes]
      <4>1. driver' = r
        BY <1>5, <3>3 DEF EndCommands
      <4>2. w \in DriverSet /\ w.ran = d.ran
        BY <1>2, <2>1, <3>3, WithStandardLooks
      <4> HIDE DEF w, yes
      <4>3. r.ran = w.ran /\ r.exit = "REPL"
        BY <4>2 DEF DriverSet
      <4> QED
        BY <3>3, <4>1, <4>2, <4>3
    <3> QED
      BY <3>1, <3>2, <3>3
  <2> HIDE DEF d
  <2>3. DoneBy(driver', s, Only(s, Done), UpToFailure(Only(s, Done)))
    BY <1>2, <2>1, <2>2, EndsWell
  <2> QED
    BY <1>3, <2>2, <2>3
<1>6. CASE RunScript
  <2> DEFINE u == Runs(WithStandard(d), "script", places.string[1])
             exit == IF u.status = 0 THEN "success" ELSE "failure"
             args == places.string \o places.list
             r == [u EXCEPT !.arguments = args, !.exit = exit]
  <2>1. parses[Script].pc = "done" /\ d.status = 0 /\ places.string # <<>> /\ driver' = r
    BY <1>6 DEF RunScript
  <2>2. DoneBy(r, s, Only(s, Done), UpToFailure(Only(s, Done)))
    BY <1>2, <2>1, ScriptEndsWell
  <2>3. r.exit = exit
    <3>1. u \in DriverSet
      <4>1. WithStandard(d) \in DriverSet
        BY <1>2, <2>1, WithStandardLooks
      <4>2. places.string[1] \in WordsAndNone
        <5>1. Said1(places.string[1]) \in CallSet
          BY <1>2, <2>1 DEF ArgumentsWell
        <5>2. Said1(places.string[1]).value = places.string[1]
          BY DEF Said1
        <5> QED
          BY <5>1, <5>2 DEF CallSet, WordsAndNone
      <4> QED
        BY <4>1, <4>2, RunFields
    <3> HIDE DEF u, exit, args
    <3> QED
      BY <3>1 DEF DriverSet
  <2>4. exit # "no"
    OBVIOUS
  <2> HIDE DEF r, exit
  <2> QED
    BY <1>3, <2>1, <2>2, <2>3, <2>4
<1> QED
  BY <1>4, <1>5, <1>6

(* In the beginning nothing was told.                                      *)
LEMMA CommandInitInv == ASSUME DriverInit PROVE CommandInv
<1>1. PICK n \in 0..MaxWords : \E words \in [1..n -> CommandWords] :
        parses = [t \in {Script} |-> Waiting([words |-> words, tail |-> "nil"])]
  BY DEF DriverInit
<1>2. PICK words \in [1..n -> CommandWords] : parses = [t \in {Script} |-> Waiting([words |-> words, tail |-> "nil"])]
  BY <1>1
<1> DEFINE line == [words |-> words, tail |-> "nil"]
<1>3. line \in CommandLines
  <2>1. n \in Nat /\ CommandWords \subseteq ParsedWords /\ "nil" \in {"nil", "atom"}
    BY OptionsAssumption, CommandsAssumption
  <2> QED
    BY <2>1, WordsMakeLine
<1> HIDE DEF line
<1>4. DOMAIN parses = {Script} /\ parses[Script] = Waiting(line)
  BY <1>2 DEF line
<1>5. places = NoPlaces /\ parser = CommandParser /\ driver = NoDriver /\ CommandParser \in OptionParsers
  BY CommandsAssumption DEF DriverInit
<1>6. OptionsInv
  BY <1>3, <1>4, <1>5, WaitingWell DEF OptionsInv
<1>7. parses[Script].pc = "waiting" /\ parses[Script].calls = <<>>
  BY <1>4 DEF Waiting
<1>8. places.string = <<>> /\ places.list = <<>> /\ places \in PlacesSet
  BY <1>5 DEF NoPlaces, PlacesSet
<1>9. Turn(parses[Script], places)
  BY <1>7, <1>8 DEF Turn
<1>10. \A K : Only(<<>>, K) = <<>>
  BY OnlyOfNothing
<1>11. ValuesOf(<<>>) = <<>> /\ <<>> \o <<>> = <<>>
  BY DEF ValuesOf
<1>12. ArgumentsWell(<<>>, places)
  BY <1>8, <1>10, <1>11 DEF ArgumentsWell, Actions
<1> DEFINE no == FALSE
<1>13. /\ driver = [status |-> 0, actions |-> 0, noStdLib |-> no, standard |-> no, debug |-> no,
                    resolvers |-> <<>>, ran |-> <<>>, arguments |-> <<>>, exit |-> "no"]
       /\ no \in BOOLEAN /\ ~no
  BY <1>5 DEF NoDriver
<1> HIDE DEF no
<1>14. /\ driver \in DriverSet /\ driver.status = 0 /\ driver.actions = 0 /\ ~driver.noStdLib /\ ~driver.standard
       /\ driver.resolvers = <<>> /\ driver.ran = <<>> /\ driver.exit = "no" /\ driver.noStdLib = no /\ driver.standard = no
  BY <1>13 DEF DriverSet
<1>15. Searched(<<>>, TRUE) = <<>> /\ Directories(<<>>) = <<>>
  BY <1>11, NoDirectories DEF Searched
<1>16. RanWell(<<>>, driver.ran, driver.status, driver.noStdLib)
  <2>1. <<>> \in Seq(RanSet) /\ Len(<<>>) = 0 /\ Actions(<<>>) = <<>>
    BY <1>10 DEF Actions
  <2>2. \A k \in 1..0 : FALSE
    OBVIOUS
  <2> QED
    BY <1>14, <2>1, <2>2 DEF RanWell
<1>17. (driver.noStdLib \/ ~driver.standard) = TRUE
  BY <1>14
<1>18. Len(driver.ran) = 0
  BY <1>14
<1>19. Told(<<>>, driver)
  BY <1>10, <1>14, <1>15, <1>16, <1>17, <1>18 DEF Told
<1>20. CommandsInOrder
  BY <1>14 DEF CommandsInOrder
<1> QED
  BY <1>4, <1>5, <1>6, <1>7, <1>9, <1>12, <1>19, <1>20 DEF CommandInv

(* Every step of the program keeps it.                                     *)
LEMMA DriverKeepsInv == ASSUME CommandInv, DriverNext PROVE CommandInv'
BY CommandKeepsInv, EndsKeepInv DEF DriverNext

(* The program by itself, with the parsers it runs.                        *)
driverVariables == <<optionVars, driver>>
DriverSpec == DriverInit /\ [][DriverNext]_driverVariables

(* A step that changes nothing of the program keeps what it keeps.         *)
LEMMA CommandStays == ASSUME CommandInv, UNCHANGED driverVariables PROVE CommandInv'
<1>1. OptionsInv' /\ CommandsInOrder'
  BY DEF CommandInv, OptionsInv, CommandsInOrder, DoneInOrder, driverVariables, optionVars
<1> QED
  BY <1>1 DEF CommandInv, driverVariables, optionVars

(* Whatever words the command line has, what it asks for is done in its    *)
(* order and up to the first failure, the script last, each with the       *)
(* directories given before it; the REPL begins only where there was       *)
(* nothing to do (main.c:189, :271, :409).                                 *)
THEOREM CommandsAreDoneInOrder == DriverSpec => []CommandsInOrder
<1>1. CommandInv /\ [DriverNext]_driverVariables => CommandInv'
  BY DriverKeepsInv, CommandStays
<1>2. CommandInv => CommandsInOrder
  BY DEF CommandInv
<1> QED
  BY CommandInitInv, <1>1, <1>2, PTL DEF DriverSpec

-----------------------------------------------------------------------------
(* The run of MCSharedState.                                               *)

(* What the parsers and the program keep, where the run is theirs.         *)
AskedInv == (part = "options" => OptionsInv) /\ (part = "driver" => CommandInv)

(* In the run the program does as it was asked: options mean what they do  *)
(* however many tasks parse, and commands are done in order (cmdopts.c:398,*)
(* main.c:189).                                                            *)
THEOREM ProgramDoesAsAsked == Spec => []DoneAsAsked
<1>1. Init => AskedInv
  BY OptionsInitInv, CommandInitInv DEF Init, AskedInv
<1>2. AskedInv /\ [Next]_allVars => AskedInv'
  <2> SUFFICES ASSUME AskedInv, [Next]_allVars PROVE AskedInv'
    OBVIOUS
  <2>1. part' = part
    BY DEF Next, allVars
  <2>2. ASSUME part = "options" PROVE OptionsInv'
    <3>1. OptionsInv /\ (OptionsNext \/ UNCHANGED optionVars)
      BY <2>2 DEF AskedInv, Next, allVars
    <3>2. ASSUME UNCHANGED optionVars PROVE OptionsInv'
      BY <3>1, <3>2 DEF OptionsInv, optionVars
    <3> QED
      BY <3>1, <3>2, OptionsKeepInv
  <2>3. ASSUME part = "driver" PROVE CommandInv'
    <3>1. CommandInv /\ (DriverNext \/ UNCHANGED driverVariables)
      BY <2>3 DEF AskedInv, Next, allVars, driverVariables
    <3> QED
      BY <3>1, DriverKeepsInv, CommandStays
  <2> QED
    BY <2>1, <2>2, <2>3 DEF AskedInv
<1>3. AskedInv => DoneAsAsked
  <2>1. CommandInv => CommandsInOrder
    BY DEF CommandInv
  <2> QED
    BY <2>1, InvIsMeant DEF AskedInv, DoneAsAsked
<1> QED
  BY <1>1, <1>2, <1>3, PTL DEF Spec, allVars
=============================================================================
