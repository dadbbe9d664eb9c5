------------------------------- MODULE MCData -------------------------------
(***************************************************************************)
(* The components that compute, with no state shared by threads: a         *)
(* behaviour runs one of them and leaves the rest where they began.        *)
(***************************************************************************)
EXTENDS BitConversions, BigIntegers, Numbers, GenericFunctions, Calendar, Bytes, Lists,
        Json, Pathnames, IniFiles, MCText

VARIABLE part

(* A root, two classes with native slots, one below the other, and one     *)
(* with hidden native data; or a root and two mixins; or a root, a mixin   *)
(* and two classes, the lower of which takes the mixin.                    *)
Slot(name, at) == [name |-> name, offset |-> at]
MCNatives ==
  { << Native(<<>>, <<>>, 1), Native(<<1>>, <<Slot("x", 1)>>, 2),
       Native(<<2>>, <<Slot("x", 1), Slot("z", 2)>>, 3), Native(<<1>>, <<>>, 2) >>,
    << Native(<<>>, <<>>, 1), Native(<<1>>, <<>>, 0), Native(<<1>>, <<>>, 0) >>,
    << Native(<<>>, <<>>, 1), Native(<<1>>, <<>>, 0), Native(<<1>>, <<>>, 2), Native(<<3, 2>>, <<>>, 2) >> }

(* Each part is on its own: the variables of the others keep their idle    *)
(* values.                                                                 *)
Parts == {"bit vectors", "integers", "numbers", "classes", "generic functions",
          "strings", "formats", "reader", "calendar",
          "bytes", "lists", "evaluator", "json", "path names", "ini files"}

(* Every byte alone, the marks in pairs, line ends and texts of base 64.   *)
MCFirstBytes ==
  UNION {[1..n -> 0..15] : n \in 0..1} \cup [1..2 -> {0, 1, 2, 4, 6, 10, 11, 15}]
    \cup [1..3 -> {1, 2, 9, 10}] \cup [1..4 -> {4, 6, 9, 14}]
MCOtherBytes == {<<>>, <<10>>, <<15, 0>>, <<9, 4, 1>>}

(* The epoch, a second and a day about it, and the turns of February in    *)
(* the year 0; lengths of a tick up to a century.                           *)
MCInstants == {0, -1, 10, 1199, -120*365*1970, 120*11016, -120*(719468+59), -120*(719468+60)-1, 167772175, -167772165}
MCDurations == {1, 12, 120*28, 120*36524}
MCYears == {-401, -1, 0, 4, 1900, 2000}

MCList(marks, tail) == List([i \in DOMAIN marks |-> <<marks[i]>>], tail)

(* Lists that end together, one after the other, well and badly.           *)
MCLists ==
  { <<MCList(<<"p", "q", "p", "r">>, "nil")>>, <<MCList(<<"p">>, "atom")>>, <<MCList(<<>>, "nil")>>,
    <<MCList(<<"p", "q">>, "nil"), MCList(<<"r", "r", "q">>, "nil")>>, <<MCList(<<"p", "q">>, "nil"), MCList(<<"r", "q">>, "atom")>>,
    <<MCList(<<"p", "q">>, "atom"), MCList(<<"r", "q">>, "nil")>>, <<MCList(<<"p">>, "nil"), MCList(<<"q">>, "nil"), MCList(<<>>, "nil")>> }
MCSources ==
  [items : UNION {[1..n -> 0..1] : n \in 0..3}, kind : {"list", "vector"}, tail : {"nil"}, index : {1}, stages : {<<>>}]
    \cup [items : UNION {[1..n -> 0..1] : n \in 1..3}, kind : {"list"}, tail : {"atom"}, index : {1}, stages : {<<>>}]

(* A document of each kind, with blanks, escapes and a key that comes      *)
(* twice; symbols that break one or turn it into another.                  *)
JNum(m, k) == JNumber(TRUE, FALSE, m, k)
JFloat(m, k) == JNumber(FALSE, m = 5, m, k)
MCDocuments ==
  { <<"[", "null", ",", " ", "[", "]", ",", "true", "]">>,
    <<" ", "[", "0", ",", "5", "0", "\n", "]">>,
    <<"{", "\"", "a", "\"", ":", "[", "false", "]", ",", "\"", "\"", ":", "{", "}", "}">>,
    <<"{", "\"", "a", "\"", ":", "0", ",", "\"", "a", "\"", " ", ":", "\t", "5", "}">>,
    <<"-", "5", ".", "5", "e", "5">>, <<"[", "0", ".", "5", "]">>, <<"5", "E", "-", "5">>,
    <<"\"", "\\", "u", "0007", "\\", "n", "\\", "/", "a", "\"">>,
    <<"\"", "\\", "u", "D83D", "\\", "u", "DE00", "\\", "u", "005C", "\"">> }
MCEditSymbols == {"[", "]", "{", "}", ",", ":", "\"", "\\", "0", "5", "-", ".", "a", " ", "\n", "null"}

MCKey == JString(<<"a">>)
MCOddString == JString(<<"[", "\"", "\\", " ", "\n", "BEL", "U+1F600", "/", ",", "\"">>)
MCPairs == JDictionary((<<"a">> :> JVector(<<JTrue>>)) @@ (<<"{", "\\">> :> JList(<<MCOddString, JNil>>)))
MCEncodables ==
  { JNil, JFalse, MCOddString, JNum(0, 0), JNum(25, 2), JFloat(7, 0), JFloat(5, -1), JFloat(125, -6), JFloat(15, 20), JFloat(5, -8), JFloat(375, -1),
    JVector(<<>>), JVector(<<JVector(<<>>), JNil>>), JList(<<MCPairs, JNum(1, 1), JDictionary(<<>>)>>), MCPairs,
    JDictionary(<<"b">> :> MCPairs), JObject, JList(<<JObject>>) }
MCPlists ==
  { JNil, JList(<<MCKey, JVector(<<JNil, JList(<<JTrue>>)>>)>>), JList(<<MCKey, JTrue, MCOddString, MCPairs, MCKey, JNil>>),
    JList(<<MCKey>>), JList(<<JNil, MCKey>>), JTrue }

(* Short texts of all kinds, and names under steps up and down.            *)
MCPathTexts ==
  UNION {[1..n -> {"/", ".", "a"}] : n \in 0..3} \cup {<<"b">> \o t : t \in [1..6 -> {"/", "."}]} \cup {<<"a", "NUL">>}
MCPathTails ==
  { <<>>, <<"/">>, <<".">>, <<"b">>, UP, UP \o <<"/">> \o UP, <<"b", "/">> \o UP, <<".", "/">> \o UP \o <<"/", "b">>,
    <<"b", "/">> \o UP \o <<"/">> \o UP, <<"/", "b">>, <<".", ".", ".">>, <<".", "b">> }

(* Lines of each kind, alone and in pairs, and sections that come again.   *)
SaysNothing(t) == [text |-> t, means |-> [kind |-> "nothing"]]
SaysSection(t, name) == [text |-> t, means |-> [kind |-> "section", name |-> name]]
SaysKey(t, key, value) == [text |-> t, means |-> [kind |-> "key", key |-> key, value |-> value]]
SaysWrong(t) == [text |-> t, means |-> [kind |-> "wrong"]]
MCSections == {SaysSection(<<"[", "s", "]">>, <<"s">>), SaysSection(<<" ", "[", "t", "\t", "]", " ">>, <<"t">>)}
MCKeyLines ==
  {SaysKey(<<"a", "=", "1">>, <<"a">>, <<"1">>), SaysKey(<<" ", "a", " ", ":", "2", " ">>, <<"a">>, <<"2">>),
   SaysKey(<<"b", "=">>, <<"b">>, <<>>)}
MCIniLines ==
  MCSections \cup MCKeyLines \cup
  { SaysNothing(<<>>), SaysNothing(<<" ", "\t">>), SaysNothing(<<";", "a", "=">>), SaysNothing(<<" ", "#", "[">>),
    SaysSection(<<"[", "[", "a", "=", "]", "]">>, <<"[", "a", "=", "]">>),
    SaysKey(<<"a", ":", "=", ";", "1">>, <<"a">>, <<"=", ";", "1">>), SaysKey(<<"a", " ", "[", "=", "1">>, <<"a", " ", "[">>, <<"1">>),
    SaysWrong(<<"[">>), SaysWrong(<<"[", " ", "]">>), SaysWrong(<<"[", "s", "]", "1">>), SaysWrong(<<"a">>), SaysWrong(<<" ", "=", "1">>) }
MCIniSources ==
  UNION {[1..n -> MCIniLines] : n \in 1..2} \cup
  {<<s, k, t, l, s, m>> : s \in MCSections, t \in MCSections, k \in MCKeyLines, l \in MCKeyLines, m \in MCKeyLines}
MCLineEnds == {<<"\n">>, <<"\r">>, <<"\r", "\n">>}

Init ==
  /\ part \in Parts
  /\ BitVectorInit /\ IntegerInit /\ NumberInit /\ ClassInit /\ GenericInit
  /\ part # "classes" => Len(classes) = 3
  /\ IF part = "strings" THEN StringInit ELSE StringIdle
  /\ IF part = "formats" THEN FormatInit ELSE FormatIdle
  /\ IF part = "reader" THEN ReaderInit ELSE ReaderIdle
  /\ IF part = "calendar" THEN CalendarInit ELSE CalendarIdle
  /\ IF part = "bytes" THEN BytesInit ELSE BytesIdle
  /\ IF part = "lists" THEN ListInit ELSE ListIdle
  /\ IF part = "evaluator" THEN EvaluatorInit ELSE EvaluatorIdle
  /\ IF part = "json" THEN JsonInit ELSE JsonIdle
  /\ IF part = "path names" THEN PathInit ELSE PathIdle
  /\ IniIdle

documentVars == <<jsonVars, pathVars, iniVars>>
textVars == <<stringVars, formatVars, readerVars, byteVars, listVars, documentVars>>
numericVars == <<integerVars, numberVars, calendarVars>>

Next ==
  \/ /\ UNCHANGED part
     /\ part = "bit vectors" /\ BitVectorNext
     /\ UNCHANGED <<numericVars, genericVars, evaluatorVars, textVars>>
  \/ /\ UNCHANGED part
     /\ part = "integers" /\ IntegerNext
     /\ UNCHANGED <<bitVectorVars, numberVars, calendarVars, genericVars, evaluatorVars, textVars>>
  \/ /\ UNCHANGED part
     /\ part = "numbers" /\ NumberNext
     /\ UNCHANGED <<bitVectorVars, integerVars, calendarVars, genericVars, evaluatorVars, textVars>>
  \/ /\ UNCHANGED part
     /\ part = "classes" /\ ClassNext
     /\ UNCHANGED <<bitVectorVars, numericVars, methods, evaluatorVars, textVars>>
  \/ /\ UNCHANGED part
     /\ part = "generic functions" /\ GenericNext
     /\ UNCHANGED <<bitVectorVars, numericVars, evaluatorVars, textVars>>
  \/ /\ UNCHANGED part
     /\ part = "strings" /\ StringNext
     /\ UNCHANGED <<bitVectorVars, numericVars, genericVars, evaluatorVars, formatVars, readerVars, byteVars, listVars, documentVars>>
  \/ /\ UNCHANGED part
     /\ part = "formats" /\ FormatStep
     /\ UNCHANGED <<bitVectorVars, numericVars, genericVars, evaluatorVars, stringVars, readerVars, byteVars, listVars, documentVars>>
  \/ /\ UNCHANGED part
     /\ part = "reader" /\ ReaderNext
     /\ UNCHANGED <<bitVectorVars, numericVars, genericVars, evaluatorVars, stringVars, formatVars, byteVars, listVars, documentVars>>
  \/ /\ UNCHANGED part
     /\ part = "calendar" /\ CalendarNext
     /\ UNCHANGED <<bitVectorVars, integerVars, numberVars, genericVars, evaluatorVars, textVars>>
  \/ /\ UNCHANGED part
     /\ part = "bytes" /\ BytesNext
     /\ UNCHANGED <<bitVectorVars, numericVars, genericVars, evaluatorVars, stringVars, formatVars, readerVars, listVars, documentVars>>
  \/ /\ UNCHANGED part
     /\ part = "lists" /\ ListNext
     /\ UNCHANGED <<bitVectorVars, numericVars, genericVars, evaluatorVars, stringVars, formatVars, readerVars, byteVars, documentVars>>
  \/ /\ UNCHANGED part
     /\ part = "evaluator" /\ EvaluatorNext
     /\ UNCHANGED <<bitVectorVars, numericVars, genericVars, textVars>>
  \/ /\ UNCHANGED part
     /\ part = "json" /\ JsonNext
     /\ UNCHANGED <<bitVectorVars, numericVars, genericVars, evaluatorVars, stringVars, formatVars, readerVars, byteVars, listVars, pathVars, iniVars>>
  \/ /\ UNCHANGED part
     /\ part = "path names" /\ PathNext
     /\ UNCHANGED <<bitVectorVars, numericVars, genericVars, evaluatorVars, stringVars, formatVars, readerVars, byteVars, listVars, jsonVars, iniVars>>
  \/ /\ UNCHANGED part
     /\ part = "ini files" /\ IniNext
     /\ UNCHANGED <<bitVectorVars, numericVars, genericVars, evaluatorVars, stringVars, formatVars, readerVars, byteVars, listVars, jsonVars, pathVars>>

Spec == Init /\ [][Next]_<<part, bitVectorVars, numericVars, genericVars, evaluatorVars, textVars>>

----------------------------------------------------------------------------
(* What must hold of each part, in the states of its own behaviours. *)

(* A conversion between bit vectors, bytes and integers loses nothing;     *)
(* integers of any size compute what mathematics says; numbers of          *)
(* different kinds compare, hash and round as one (BigInteger.c:311,       *)
(* BitVector.c:1398, Number.c:594).                                        *)
NumbersExact ==
  /\ part = "bit vectors" => ConversionsAreExact
  /\ part = "integers" => ArithmeticIsExact
  /\ part = "numbers" => NumbersSound

(* Folding the body of a function is not noticed, and arguments reach the  *)
(* parameters they are meant for (compiler.c:261, eval.c:472).             *)
EvaluatorSound == part = "evaluator" => CompiledMeansSource /\ ArgumentsReachParameters

(* Precedence, slots and the order of methods follow from the lattice of   *)
(* classes (Class.c:694, :836, init.lt).                                   *)
DispatchSound ==
  /\ part = "classes" => ClassesSound
  /\ part = "generic functions" => MostSpecificFirst

(* Lists and their lazy iterators give every element once and in order;    *)
(* strings are sequences of characters, though they are kept in bytes; a   *)
(* format prints its arguments; and the texts a byte vector is encoded in  *)
(* are those of no other; and the text of a path is that of the place it   *)
(* leads to (List.c:342, Iterator.c:586, String.c:2099, :2371,             *)
(* base64.c:186, Pathname.c:78).                                           *)
SequencesSound ==
  /\ part = "lists" => ListsSound
  /\ part = "strings" => StringsSound
  /\ part = "formats" => ArgumentsPrintedInOrder
  /\ part = "bytes" => BytesSound
  /\ part = "path names" => PathsSound

(* The REPL reads what a file has, what is printed or encoded as JSON      *)
(* reads back, and an INI file is what its lines say together (repl.c:515, *)
(* List.c:150, json.c:536, ini.c:262).                                     *)
ReadsAndPrints ==
  /\ part = "reader" => ReplReadsAsFile /\ PrintedReadsBack
  /\ part = "json" => JsonSound
  /\ part = "ini files" => IniSound
============================================================================
