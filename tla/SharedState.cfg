SPECIFICATION Spec
CHECK_DEADLOCK FALSE
CONSTANTS
  Evaluators = {e1, e2}
  Values = {v1, v2}
  MaxBinds = 2
  UNBOUND = UNBOUND
  ZEROED = ZEROED
  LOOKUP = LOOKUP
  Readers = {r1, r2}
  PackageNames = {L, A, B}
  LISTTALK = L
  Loaded = {L, A}
  NoSym = NoSym
  NoPackage = NoPackage
  NoTable = NoTable
  AMBIGUOUS = AMBIGUOUS
  MaxCalls = 4
  TableKeys <- MCTableKeys
  TableValues = {1, 2}
  HashOf <- MCHashOf
  Mask = 1
  FirstLists <- MCFirstLists
  MaxChanges = 2
  Keys = {0, 4, 8, 1}
  WeakKeys = {4}
  InitialMask = 1
  MaxEntries = 4
  foo = foo
  bar = bar
  nat = nat
  Requirers = {q1, q2}
  Modules = {foo, bar, nat}
  Body <- MCBody
  NativeCode = {nat}
  MaxRequires = 3
  Parsers <- MCParsers
  Words <- MCWords
  MaxWords = 3
  SharedParses <- MCSharedParses
  LateOptions <- MCLateOptions
  LateArguments <- MCLateArguments
  CommandWords <- MCCommandWords
  BadCode <- MCBadCode
  Writers = {w1, w2}
  OldFile = OldFile
  FileLength = 2
INVARIANTS
  SharedStateTypeOK
  AnswersAreCurrent
  SymbolsSound
  OnceEach
  DoneAsAsked
  FileIsOldOrNew
