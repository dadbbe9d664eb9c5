SPECIFICATION Spec
CHECK_DEADLOCK FALSE
CONSTANTS
  ByteWidth = 3
  MaxLength = 4
  LimbBits = 2
  FixnumMax = 7
  ChunkBase = 3
  MaxMagnitude = 66
  LargestFixnum = 3
  SmallNumerator = 2
  SmallDenominator = 3
  FloatBits = 2
  MaxPart = 5
  MaxComplexPart = 2
  NativeChoices <- MCNatives
  SlotNames = {"z"}
  MaxClasses = 6
  Parameters = 2
  MethodClasses = {2, 5}
  MaxMethods = 3
  ClassesFirst = 5
  RawTexts <- MCRawTexts
  Replacements <- MCReplacements
  Needles <- MCNeedles
  CaseTable <- MCCaseTable
  MaxEdits = 1
  FormatStrings <- MCFormats
  FormatArguments <- MCFormatArguments
  HoursPerDay = 2
  MinutesPerHour = 2
  SecondsPerMinute = 3
  FractionDigits = 1
  FirstInstants <- MCInstants
  Durations <- MCDurations
  Naps = {1, 5}
  Years <- MCYears
  MaxCalls = 2
  LongestSleep = 2
  ExactDoubles = 16777216
  FirstBytes <- MCFirstBytes
  OtherBytes <- MCOtherBytes
  MaxByteCalls = 1
  ListArguments <- MCLists
  Sources <- MCSources
  MaxStages = 2
  MaxPuts = 1
  Setups <- MCSetups
  SessionForms <- MCForms
  LambdaLists <- MCLambdaLists
  CallArguments <- MCCallArguments
  ExpansionLimit = 2
  MaxForms = 3
  Names <- MCNames
  NamedCharacters <- MCNamedCharacters
  Sugar = TRUE
  Programs <- MCPrograms
  Documents <- MCDocuments
  EditSymbols <- MCEditSymbols
  Encodables <- MCEncodables
  Plists <- MCPlists
  MaxTurns = 3
  PathTexts <- MCPathTexts
  PathTails <- MCPathTails
  MaxPathCalls = 2
  IniSources <- MCIniSources
  LineEnds <- MCLineEnds
INVARIANTS
  NumbersExact
  EvaluatorSound
  CalendarSound
  DispatchSound
  SequencesSound
  ReadsAndPrints
PROPERTIES
  BitVectorsAreSequences
