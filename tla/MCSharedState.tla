--------------------------- MODULE MCSharedState ---------------------------
(***************************************************************************)
(* The components that keep state shared by threads without a lock of      *)
(* their own around the whole operation.  They share nothing with each     *)
(* other, so a behaviour runs one of them and leaves the rest where they   *)
(* began: their product would say no more.                                 *)
(***************************************************************************)
EXTENDS Closures, Packages, Dictionaries, Tables, Loader, FileWriter, Driver

CONSTANTS foo, bar, nat

VARIABLE part

(* Two modules that require each other and a native one. *)
MCBody == [m \in Modules |-> CASE m = foo -> <<"provide", bar, nat>>
                               [] m = bar -> <<"provide", foo, nat>>
                               [] OTHER   -> <<"provide">>]

(* Two equal keys and a third of the same hash, and one whose bucket they  *)
(* share until the table grows.                                            *)
TableKey(class, which) == [same |-> class, copy |-> which]
MCTableKeys == {TableKey(1, 0), TableKey(1, 1), TableKey(2, 0), TableKey(3, 1)}
MCHashOf == <<4, 0, 4>>
MCFirstLists ==
  { << <<TableKey(1, 0), 1>>, <<TableKey(1, 1), 2>>, <<TableKey(3, 1), 1>> >>,
    << <<TableKey(2, 0), 2>>, <<TableKey(3, 1), 1>>, <<TableKey(1, 1), 1>> >> }

(* One task with three options and any line of three words, or two with    *)
(* lines of their own while a third adds to the parser.                    *)
MCOptions == <<Option("a", "all", FALSE, "raise"), Option("b", "by", TRUE, "string"), Option(NoName, "nine", TRUE, "number")>>
MCParser(strict, options, arguments, room) ==
  [strict |-> strict, options |-> options, arguments |-> arguments, room |-> room]
MCWords ==
  { Plain(<<"x">>), Plain(<<"9">>), Cluster(<<"a", "b">>), Cluster(<<"b", "a">>), Cluster(<<"a", "z">>),
    Long("by"), LongWith("by", <<"x">>), LongWith("all", <<"x">>), Long("nine"), TwoDashes, NotString }
Line(words, tail) == [words |-> words, tail |-> tail]
MCArguments == {<<>>, <<Argument(TRUE, FALSE, "string"), Argument(FALSE, TRUE, "list")>>,
                <<Argument(FALSE, FALSE, "number"), Argument(TRUE, FALSE, "string")>>}
MCCalls == <<Option("a", "all", FALSE, "call"), Option("b", "by", TRUE, "call")>>
MCSharedParses ==
  {[parser |-> MCParser(strict, MCCalls, arguments, 1),
    lines |-> [t1 |-> Line(<<Cluster(<<"a", "c">>), Plain(<<"x">>), Cluster(<<"b">>), Plain(<<"y">>)>>, "nil"), t2 |-> Line(words, "nil")]] :
     strict \in BOOLEAN, arguments \in {<<>>, <<Argument(FALSE, FALSE, "call")>>, <<Argument(TRUE, TRUE, "call")>>},
     words \in {<<Plain(<<"y">>), Plain(<<"x">>)>>, <<Long("all"), Long("late")>>, <<>>}}
MCParsers == {MCParser(strict, MCOptions, arguments, 0) : strict \in BOOLEAN, arguments \in MCArguments}
MCLateOptions == {[form |-> "character", short |-> "c"], [form |-> "list", short |-> "a", long |-> "late"], [form |-> "string", long |-> "all"],
                  [form |-> "character", short |-> "not ASCII"]}

MCCommandWords ==
  { Cluster(<<"e">>), Cluster(<<"d", "e", "p">>), LongWith("load", <<"p">>), Cluster(<<"L", "p">>), Cluster(<<"L">>),
    LongWith("eval", <<"b">>), Long("require"), Long("no-std-lib"), Plain(<<"p">>), Plain(<<"b">>), TwoDashes }

MCBadCode == {Plain(<<"b">>)}
MCLateArguments == {<<"required">>, <<"multiple">>, <<"optional">>}

Parts == {"closures", "packages", "dictionaries", "tables", "loader", "files", "options", "driver"}

Init ==
  /\ part \in Parts
  /\ ClosureInit /\ PackageInit /\ DictionaryInit /\ LoaderInit /\ FileInit
  /\ IF part = "tables" THEN TableInit ELSE TableIdle
  /\ CASE part = "options" -> OptionsInit /\ driver = NoDriver
       [] part = "driver" -> DriverInit
       [] OTHER -> OptionsIdle /\ driver = NoDriver
  /\ part # "closures" => binding = [f \in FrameNames |-> Absent]

driverVars == <<optionVars, driver>>

Next ==
  /\ UNCHANGED part
  /\ \/ /\ part = "closures" /\ ClosureNext
        /\ UNCHANGED <<packageVars, dictionaryVars, loaderVars, fileVars, tableVars, driverVars>>
     \/ /\ part = "packages" /\ PackageNext
        /\ UNCHANGED <<closureVars, dictionaryVars, loaderVars, fileVars, tableVars, driverVars>>
     \/ /\ part = "dictionaries" /\ DictionaryNext
        /\ UNCHANGED <<closureVars, packageVars, loaderVars, fileVars, tableVars, driverVars>>
     \/ /\ part = "tables" /\ TableNext
        /\ UNCHANGED <<closureVars, packageVars, dictionaryVars, loaderVars, fileVars, driverVars>>
     \/ /\ part = "loader" /\ LoaderNext
        /\ UNCHANGED <<closureVars, packageVars, dictionaryVars, fileVars, tableVars, driverVars>>
     \/ /\ part = "files" /\ FileNext
        /\ UNCHANGED <<closureVars, packageVars, dictionaryVars, loaderVars, tableVars, driverVars>>
     \/ /\ part = "options" /\ OptionsNext
        /\ UNCHANGED <<closureVars, packageVars, dictionaryVars, loaderVars, fileVars, tableVars, driver>>
     \/ /\ part = "driver" /\ DriverNext
        /\ UNCHANGED <<closureVars, packageVars, dictionaryVars, loaderVars, fileVars, tableVars>>

Spec == Init /\ [][Next]_<<part, closureVars, packageVars, dictionaryVars,
                           tableVars, loaderVars, fileVars, optionVars, driver>>

(* Each key that stays is answered once by an iteration, each module is    *)
(* loaded once, and a collection is the map it should be, each entry of    *)
(* which a walk sees once (IdentityDictionary.c:165, loader.c:322,         *)
(* Dictionary.c:299, Set.c:401).                                           *)
OnceEach == StayersVisitedOnce /\ LoadedOnce /\ TableIsMap /\ WalksSeeOnce

(* The program does as it was asked: options mean what they do however     *)
(* many tasks parse, and commands are done in order (cmdopts.c:398,        *)
(* main.c:189).                                                            *)
DoneAsAsked == /\ part = "options" => ParsedAsMeant
               /\ part = "driver" => CommandsInOrder

(* The closure, the packages, the dictionary, the loader and the files keep  *)
(* what they hold in shape, to the call and the load each thread is in.      *)
SharedStateTypeOK == /\ ClosureTypeOK /\ PackageTypeOK /\ DictionaryTypeOK
                     /\ LoaderTypeOK /\ FileTypeOK
============================================================================
