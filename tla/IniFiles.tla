------------------------------ MODULE IniFiles ------------------------------
(***************************************************************************)
(* src/src/utils/ini.c and modules/ini.c: a reader of INI files goes       *)
(* through the lines of a text and fills sections, under a policy for keys *)
(* that come again.                                                        *)
(***************************************************************************)
EXTENDS Integers, Sequences, SequencesExt, FiniteSets, FiniteSetsExt

CONSTANTS IniSources, \* sequences of lines: the text of each and what it means
          LineEnds    \* what ends the lines of a text

VARIABLES iniReader,  \* what the program has set
          iniParser,  \* the sections, the current one, the line, whether it failed
          iniRest,    \* what is left of the text
          iniSource   \* history: the lines read

iniVars == <<iniReader, iniParser, iniRest, iniSource>>

Policies == {"last-wins", "first-wins", "error", "collect-values"}
NewReader == [policy |-> "last-wins", globalKeys |-> TRUE, emptyValues |-> TRUE]
NewParser == [sections |-> <<>>, current |-> 0, line |-> 1, failed |-> FALSE]

Spaces == {" ", "\t", "\n", "\r"}
SpaceTrimmed(text) ==
  LET solid == {k \in DOMAIN text : text[k] \notin Spaces}
  IN IF solid = {} THEN <<>> ELSE SubSeq(text, Min(solid), Max(solid))

IniFailed(p) == [p EXCEPT !.failed = TRUE]

FindSection(p, name) == Max({i \in DOMAIN p.sections : p.sections[i].name = name} \cup {0})
GetSection(p, name) ==
  IF FindSection(p, name) # 0 THEN [p EXCEPT !.current = FindSection(p, name)]
  ELSE [p EXCEPT !.sections = Append(@, [name |-> name, entries |-> <<>>]),
                 !.current = Len(p.sections) + 1]

(* An entry has its key and its values. *)
EntryAt(p, key) ==
  LET entries == p.sections[p.current].entries
  IN Max({i \in DOMAIN entries : entries[i].key = key} \cup {0})
AddEntry(p, key, value) ==
  [p EXCEPT !.sections[p.current].entries = Append(@, [key |-> key, values |-> <<value>>])]
WithValues(p, key, values) == [p EXCEPT !.sections[p.current].entries[EntryAt(p, key)].values = values]
AnotherValue(reader, p, key, value) ==
  CASE reader.policy = "error" -> IniFailed(p)
    [] reader.policy = "first-wins" -> p
    [] reader.policy = "last-wins" -> WithValues(p, key, <<value>>)
    [] reader.policy = "collect-values" ->
         WithValues(p, key, Append(p.sections[p.current].entries[EntryAt(p, key)].values, value))

PutInSection(reader, p, key, value) ==
  IF EntryAt(p, key) = 0 THEN AddEntry(p, key, value) ELSE AnotherValue(reader, p, key, value)
IniPut(reader, p, key, value) ==
  CASE p.current = 0 /\ ~reader.globalKeys -> IniFailed(p)
    [] p.current = 0 /\ reader.globalKeys -> PutInSection(reader, GetSection(p, <<>>), key, value)
    [] OTHER -> PutInSection(reader, p, key, value)

SectionLine(p, text) ==
  LET name == SpaceTrimmed(SubSeq(text, 2, Len(text) - 1))
  IN IF Last(text) # "]" \/ name = <<>> THEN IniFailed(p) ELSE GetSection(p, name)

KeyValueLine(reader, p, text) ==
  LET separator == Min({k \in DOMAIN text : text[k] \in {"=", ":"}} \cup {Len(text) + 1})
      key == SpaceTrimmed(SubSeq(text, 1, separator - 1))
      value == SpaceTrimmed(SubSeq(text, separator + 1, Len(text)))
  IN IF separator > Len(text) \/ key = <<>> \/ (value = <<>> /\ ~reader.emptyValues)
       THEN IniFailed(p) ELSE IniPut(reader, p, key, value)

IniLine(reader, p, line) ==
  LET text == SpaceTrimmed(line)
  IN CASE text = <<>> -> p
       [] text # <<>> /\ Head(text) \in {";", "#"} -> p
       [] text # <<>> /\ Head(text) = "[" -> SectionLine(p, text)
       [] OTHER -> KeyValueLine(reader, p, text)

(* A line ends with a line feed, a carriage return, or both. *)
LineEndAt(text) == Min({k \in DOMAIN text : text[k] \in {"\n", "\r"}} \cup {Len(text) + 1})
NextLineAt(text, end) ==
  IF end < Len(text) /\ text[end] = "\r" /\ text[end + 1] = "\n" THEN end + 2 ELSE end + 1

SectionNames(p) == [i \in DOMAIN p.sections |-> p.sections[i].name]
IniDictionary(reader, p) ==
  {<<p.sections[i].name,
     {<<e.key, IF reader.policy = "collect-values" THEN e.values ELSE <<e.values[1]>> >> :
        e \in ToSet(p.sections[i].entries)}>> : i \in DOMAIN p.sections}

----------------------------------------------------------------------------
IniIdle == iniReader = NewReader /\ iniParser = NewParser /\ iniRest = <<>> /\ iniSource = <<>>

ConfigureReader ==
  /\ iniSource = <<>> /\ iniRest = <<>>
  /\ \E policy \in Policies, globalKeys \in BOOLEAN, emptyValues \in BOOLEAN :
       iniReader' = [policy |-> policy, globalKeys |-> globalKeys, emptyValues |-> emptyValues]
  /\ UNCHANGED <<iniParser, iniRest, iniSource>>

(* The last line of a text need not end. *)
TextOf(lines, end, ended) ==
  FlattenSeq([i \in DOMAIN lines |->
                lines[i].text \o (IF i < Len(lines) \/ ended THEN end ELSE <<>>)])
ReadIni ==
  /\ iniSource = <<>> /\ iniRest = <<>> /\ UNCHANGED iniReader
  /\ \E lines \in IniSources, end \in LineEnds, ended \in BOOLEAN :
       iniSource' = lines /\ iniRest' = TextOf(lines, end, ended)
  /\ iniParser' = NewParser

ReadIniLine ==
  /\ iniRest # <<>> /\ ~iniParser.failed /\ UNCHANGED <<iniReader, iniSource>>
  /\ LET end == LineEndAt(iniRest)
         after == IniLine(iniReader, iniParser, SubSeq(iniRest, 1, end - 1))
     IN /\ iniParser' = IF after.failed THEN after ELSE [after EXCEPT !.line = @ + 1]
        /\ iniRest' = SubSeq(iniRest, NextLineAt(iniRest, end), Len(iniRest))

IniNext == ConfigureReader \/ ReadIni \/ ReadIniLine

----------------------------------------------------------------------------
(* What the lines mean, each by itself, and what they then say together.   *)
Means(i) == iniSource[i].means
LinesThat(kind) == {i \in DOMAIN iniSource : Means(i).kind = kind}
SectionOver(i) == Max({j \in LinesThat("section") : j < i} \cup {0})
NameOver(i) == IF SectionOver(i) = 0 THEN <<>> ELSE Means(SectionOver(i)).name
SameKey(i, j) == NameOver(i) = NameOver(j) /\ Means(i).key = Means(j).key

WrongLines ==
  LinesThat("wrong") \cup
  {i \in LinesThat("key") :
     \/ SectionOver(i) = 0 /\ ~iniReader.globalKeys
     \/ Means(i).value = <<>> /\ ~iniReader.emptyValues
     \/ iniReader.policy = "error" /\ \E j \in LinesThat("key") : j < i /\ SameKey(i, j)}

NamesSaid == {Means(i).name : i \in LinesThat("section")} \cup {NameOver(i) : i \in LinesThat("key")}
ValuesSaid(i) ==
  LET lines == SelectSeq([j \in DOMAIN iniSource |-> j], LAMBDA j : j \in LinesThat("key") /\ SameKey(i, j))
  IN [n \in DOMAIN lines |-> Means(lines[n]).value]
Chosen(values) ==
  CASE iniReader.policy = "last-wins" -> <<Last(values)>>
    [] iniReader.policy = "collect-values" -> values
    [] OTHER -> <<Head(values)>>
DictionarySaid ==
  {<<name, {<<Means(i).key, Chosen(ValuesSaid(i))>> : i \in {j \in LinesThat("key") : NameOver(j) = name}}>> :
     name \in NamesSaid}

(* A text is what its lines say together, sections that come again         *)
(* included, however the lines end; or the first line that is wrong is     *)
(* named (ini.c:262).                                                      *)
IniSound ==
  IF iniParser.failed THEN WrongLines # {} /\ iniParser.line = Min(WrongLines)
  ELSE iniRest = <<>> =>
         /\ WrongLines = {} /\ IniDictionary(iniReader, iniParser) = DictionarySaid
         /\ IsInjective(SectionNames(iniParser))
=============================================================================
