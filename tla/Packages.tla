------------------------------ MODULE Packages ------------------------------
(***************************************************************************)
(* src/src/classes/Package.c and src/src/classes/Symbol.c: the symbols of  *)
(* one name in every package.  Threads read tokens, export, unexport and   *)
(* use packages at the same time; each hash table has a lock that is held  *)
(* for one lookup or one insertion, so a step here is one such call.       *)
(***************************************************************************)
EXTENDS Naturals, Sequences

CONSTANTS Readers,
          PackageNames,  \* a package is named by itself; nicknames are names
          LISTTALK,      \* the package every new package uses
          Loaded,        \* the packages that exist from the start
          NoSym, NoPackage, NoTable,
          AMBIGUOUS,     \* the error "Ambiguous symbol in used packages"
          MaxCalls       \* bound: calls begun in a behaviour

ASSUME PackagesAssumption == /\ LISTTALK \in Loaded /\ Loaded \subseteq PackageNames
                             /\ NoPackage \notin PackageNames
ASSUME MaxCallsAssumption == MaxCalls \in Nat

VARIABLES
  exists,    \* the packages of package_table
  symbols,   \* per package, the symbol in its symbol_table
  made,      \* history: how often each package has made the symbol
  exported,  \* per package, its exported_symbols table, NoTable while NULL
  tables,    \* per table, the symbol it holds
  uses,      \* per package, used_packages, the latest first
  nicknames, \* per package and name, used_package_nicknames
  call,      \* the call each thread is in
  calls

packageVars == <<exists, symbols, made, exported, tables, uses, nicknames,
                 call, calls>>

TableIds == PackageNames \X Readers
Symbols == [home : PackageNames, serial : 1..2]

ASSUME NoSymAssumption == NoSym \notin Symbols /\ NoTable \notin TableIds

Idle == [at |-> "idle"]

PackageCalls ==
  {Idle} \cup [at : {"intern", "new"}, cur : PackageNames]
  \cup [at : {"use"}, cur : PackageNames, rest : Seq(PackageNames)]
  \cup [at : {"scan"}, cur : PackageNames, rest : Seq(PackageNames), found : Symbols \cup {NoSym}]
  \cup [at : {"publish", "fill", "take", "export", "unexport"},
        op : {"export", "unexport"}, cur : PackageNames, sym : Symbols,
        table : TableIds \cup {NoTable}]
  \cup [at : {"nickname"}, cur : PackageNames, used : PackageNames, name : PackageNames]

PackageTypeOK ==
  /\ exists \subseteq PackageNames
  /\ symbols \in [PackageNames -> Symbols \cup {NoSym}]
  /\ made \in [PackageNames -> 0..2]
  /\ exported \in [PackageNames -> TableIds \cup {NoTable}]
  /\ tables \in [TableIds -> Symbols \cup {NoSym}]
  /\ uses \in [PackageNames -> Seq(PackageNames)]
  /\ nicknames \in [PackageNames -> [PackageNames -> PackageNames \cup {NoPackage}]]
  /\ call \in [Readers -> PackageCalls]
  /\ calls \in 0..MaxCalls

PackageInit ==
  /\ exists = Loaded
  /\ symbols = [p \in PackageNames |-> NoSym]
  /\ made = [p \in PackageNames |-> 0]
  /\ exported = [p \in PackageNames |-> NoTable]
  /\ tables = [i \in TableIds |-> NoSym]
  /\ uses = [p \in PackageNames |-> IF p \in Loaded \ {LISTTALK} THEN <<LISTTALK>>
                                    ELSE <<>>]
  /\ nicknames = [p \in PackageNames |-> [n \in PackageNames |-> NoPackage]]
  /\ call = [t \in Readers |-> Idle]
  /\ calls = 0

Using(p) == {uses[p][i] : i \in DOMAIN uses[p]}
(* LT_Package_lookup_exported_symbol: a package without a table exports    *)
(* all its symbols.                                                        *)
LookupExported(p) == IF exported[p] = NoTable THEN symbols[p]
                     ELSE tables[exported[p]]
(* LT_Package_symbol_exported_p *)
IsExported(p, s) == LookupExported(p) = s
(* LT_Package_resolve_used_package, then LT_Package_new: a nickname of the *)
(* current package hides the package that has that name.                   *)
ResolveName(cur, n) == IF nicknames[cur][n] # NoPackage THEN nicknames[cur][n]
                       ELSE n

--------------------------------------------------------------------------

Begin(t, c) == /\ call[t] = Idle /\ calls < MaxCalls
               /\ call' = [call EXCEPT ![t] = c]
               /\ calls' = calls + 1
Proceed(t, c) == call' = [call EXCEPT ![t] = c] /\ UNCHANGED calls
Return(t) == Proceed(t, Idle)
KeepExports == UNCHANGED <<exported, tables>>
KeepUses == UNCHANGED <<uses, nicknames>>
KeepSymbols == UNCHANGED <<symbols, made>>

(* LT_Symbol_parse_token without a colon, LT_Package_intern_symbol: the    *)
(* symbol of the current package, if it has one.                           *)
ReadToken(t, cur) ==
  /\ cur \in exists
  /\ symbols[cur] = NoSym
  /\ Begin(t, [at |-> "scan", cur |-> cur, rest |-> uses[cur], found |-> NoSym])
  /\ KeepExports /\ KeepUses /\ KeepSymbols /\ UNCHANGED exists

(* Otherwise the one that the used packages export. *)
ScanUsed(t) ==
  LET c == call[t] IN
  /\ c.at = "scan" /\ c.rest # <<>>
  /\ LET s == LookupExported(Head(c.rest)) IN
     IF s # NoSym /\ c.found # NoSym /\ c.found # s THEN Return(t)  \* an error
     ELSE Proceed(t, [c EXCEPT !.rest = Tail(@),
                               !.found = IF s # NoSym THEN s ELSE @])
  /\ KeepExports /\ KeepUses /\ KeepSymbols /\ UNCHANGED exists

ScanEnd(t) ==
  LET c == call[t] IN
  /\ c.at = "scan" /\ c.rest = <<>>
  /\ IF c.found # NoSym THEN Return(t)
     ELSE Proceed(t, [at |-> "intern", cur |-> c.cur])
  /\ KeepExports /\ KeepUses /\ KeepSymbols /\ UNCHANGED exists

(* Mutant of InternLocal: the insertion does not look again. *)
InternUnchecked(p) ==
  /\ symbols' = [symbols EXCEPT ![p] = [home |-> p, serial |-> made[p] + 1]]
  /\ made' = [made EXCEPT ![p] = @ + 1]

(* LT_Package_intern_local_symbol looks and inserts under one lock. *)
InternLocal(p) ==
  IF symbols[p] # NoSym THEN KeepSymbols
  ELSE /\ symbols' = [symbols EXCEPT ![p] = [home |-> p, serial |-> made[p] + 1]]
       /\ made' = [made EXCEPT ![p] = @ + 1]

Intern(t) ==
  /\ call[t].at = "intern"
  /\ InternLocal(call[t].cur)
  /\ Return(t)
  /\ KeepExports /\ KeepUses /\ UNCHANGED exists

(* A token with a package name; LT_Package_new makes a package that is     *)
(* missing, and only afterwards lets it use ListTalk.                      *)
ReadQualified(t, cur, n) ==
  /\ cur \in exists
  /\ LET p == ResolveName(cur, n) IN
     /\ Begin(t, [at |-> IF p \in exists THEN "intern" ELSE "new", cur |-> p])
     /\ exists' = exists \cup {p}
  /\ KeepExports /\ KeepUses /\ KeepSymbols

NewUsesListTalk(t) ==
  LET p == call[t].cur IN
  /\ call[t].at = "new"
  /\ uses' = [uses EXCEPT ![p] = IF LISTTALK \in Using(p) THEN @
                                 ELSE <<LISTTALK>> \o @]
  /\ Proceed(t, [at |-> "intern", cur |-> p])
  /\ KeepExports /\ KeepSymbols /\ UNCHANGED <<exists, nicknames>>

--------------------------------------------------------------------------

(* package_ensure_exported_symbols_table *)
ExportBegin(t, p, s, op) ==
  /\ p \in exists /\ s \in {symbols[q] : q \in PackageNames} \ {NoSym}
  /\ Begin(t, [at |-> IF exported[p] = NoTable THEN "publish" ELSE "take",
               op |-> op, cur |-> p, sym |-> s, table |-> NoTable])
  /\ KeepExports /\ KeepUses /\ KeepSymbols /\ UNCHANGED exists

(* The new table is in force before unexport has filled it. *)
PublishTable(t) ==
  LET c == call[t] IN
  /\ c.at = "publish"
  /\ exported' = [exported EXCEPT ![c.cur] = <<c.cur, t>>]
  /\ Proceed(t, [c EXCEPT !.table = <<c.cur, t>>,
                          !.at = IF c.op = "unexport" THEN "fill" ELSE "take"])
  /\ KeepUses /\ KeepSymbols /\ UNCHANGED <<exists, tables>>

(* With the symbols the package has; the name may not be among them. *)
FillTable(t) ==
  LET c == call[t] IN
  /\ c.at = "fill"
  /\ tables' = IF symbols[c.cur] = NoSym THEN tables
               ELSE [tables EXCEPT ![c.table] = symbols[c.cur]]
  /\ Proceed(t, [c EXCEPT !.at = "take"])
  /\ KeepUses /\ KeepSymbols /\ UNCHANGED <<exists, exported>>

(* The table is read from the package again: another thread's may have     *)
(* taken the place of the one just made.                                   *)
TakeTable(t) ==
  LET c == call[t] IN
  /\ c.at = "take"
  /\ Proceed(t, [c EXCEPT !.table = exported[c.cur], !.at = c.op])
  /\ KeepExports /\ KeepUses /\ KeepSymbols /\ UNCHANGED exists

(* LT_Package_export_symbol: an error if another symbol has the name. *)
ExportPut(t) ==
  LET c == call[t] IN
  /\ c.at = "export"
  /\ tables' = [tables EXCEPT ![c.table] = IF @ = NoSym THEN c.sym ELSE @]
  /\ Return(t)
  /\ KeepUses /\ KeepSymbols /\ UNCHANGED <<exists, exported>>

(* LT_Package_unexport_symbol *)
Unexport(t) ==
  LET c == call[t] IN
  /\ c.at = "unexport"
  /\ tables' = [tables EXCEPT ![c.table] = IF @ = c.sym THEN NoSym ELSE @]
  /\ Return(t)
  /\ KeepUses /\ KeepSymbols /\ UNCHANGED <<exists, exported>>

(* LT_Package_use_package: without a nickname the package joins the list,  *)
(* which is read and then written; with one it only gets the nickname.     *)
UseBegin(t, p, q) ==
  /\ {p, q} \subseteq exists /\ p # q /\ q \notin Using(p)
  /\ Begin(t, [at |-> "use", cur |-> p, rest |-> <<q>> \o uses[p]])
  /\ KeepExports /\ KeepUses /\ KeepSymbols /\ UNCHANGED exists

UseEnd(t) ==
  /\ call[t].at = "use"
  /\ uses' = [uses EXCEPT ![call[t].cur] = call[t].rest]
  /\ Return(t)
  /\ KeepExports /\ KeepSymbols /\ UNCHANGED <<exists, nicknames>>

(* The nickname is looked up, and bound by a second call: another thread   *)
(* may bind it in between.                                                 *)
UseNickname(t, p, q, n) ==
  /\ {p, q} \subseteq exists
  /\ nicknames[p][n] \in {NoPackage, q}   \* an error when it names another package
  /\ Begin(t, [at |-> "nickname", cur |-> p, used |-> q, name |-> n])
  /\ KeepExports /\ KeepUses /\ KeepSymbols /\ UNCHANGED exists

NicknameEnd(t) ==
  LET c == call[t] IN
  /\ c.at = "nickname"
  /\ nicknames' = [nicknames EXCEPT ![c.cur][c.name] = c.used]
  /\ Return(t)
  /\ KeepExports /\ KeepSymbols /\ UNCHANGED <<exists, uses>>

PackageNext ==
  \E t \in Readers :
    \/ ScanUsed(t) \/ ScanEnd(t) \/ Intern(t) \/ NewUsesListTalk(t)
    \/ PublishTable(t) \/ FillTable(t) \/ TakeTable(t) \/ ExportPut(t)
    \/ Unexport(t) \/ UseEnd(t) \/ NicknameEnd(t)
    \/ \E p \in PackageNames :
         \/ ReadToken(t, p)
         \/ \E s \in Symbols, op \in {"export", "unexport"} : ExportBegin(t, p, s, op)
         \/ \E q \in PackageNames :
              \/ ReadQualified(t, p, q) \/ UseBegin(t, p, q)
              \/ \E n \in PackageNames : UseNickname(t, p, q, n)

PackageSpec == PackageInit /\ [][PackageNext]_packageVars

--------------------------------------------------------------------------

(* Mutant of PrintedBare: a symbol of the current package's own is not     *)
(* asked for.                                                              *)
PrintedBareOverShadow(cur, s) ==
  s.home = cur \/ (s.home \in Using(cur) /\ IsExported(s.home, s))

(* Symbol_debugPrintOn leaves the package out when the current package     *)
(* uses it, it exports the symbol and the current package has no symbol of *)
(* the name.                                                               *)
PrintedBare(cur, s) ==
  \/ s.home = cur
  \/ s.home \in Using(cur) /\ IsExported(s.home, s) /\ symbols[cur] = NoSym

(* What LT_Package_intern_symbol finds for the bare name. *)
ReadBare(cur) ==
  LET inherited == {LookupExported(q) : q \in Using(cur)} \ {NoSym} IN
  CASE symbols[cur] # NoSym -> symbols[cur]
    [] symbols[cur] = NoSym /\ inherited = {} -> NoSym
    [] symbols[cur] = NoSym /\ (\E s \in inherited : inherited = {s}) -> CHOOSE s \in inherited : TRUE
    [] OTHER -> AMBIGUOUS

(* A printed symbol, read in the package it was printed in, is the same    *)
(* symbol or an ambiguity error and never another symbol, whatever was     *)
(* exported, unexported and used before.  The exception is a nickname that *)
(* hides the package of the symbol: use-package accepts it                 *)
(* (Package.c:639) and the printer does not look at nicknames.             *)
PrintedSymbolReadsBack ==
  \A cur \in exists, p \in PackageNames :
    LET s == symbols[p] IN
    s # NoSym =>
      IF PrintedBare(cur, s) THEN ReadBare(cur) \in {s, AMBIGUOUS}
      ELSE symbols[ResolveName(cur, p)] = s \/ nicknames[cur][p] \notin {NoPackage, p}

(* Symbols are compared by address: a package makes one symbol of a name,  *)
(* however many threads read it at once.                                   *)
OneSymbolPerName == \A p \in PackageNames : made[p] <= 1

SymbolsSound == OneSymbolPerName /\ PrintedSymbolReadsBack
==========================================================================
