-------------------------------- MODULE Driver --------------------------------
(***************************************************************************)
(* The listtalk program (bin/listtalk/main.c): options act while the       *)
(* command line is parsed, in its order; then a script runs or, if nothing *)
(* did anything yet, the REPL begins.                                      *)
(***************************************************************************)
EXTENDS Options

CONSTANTS
  CommandWords, \* the words of command lines
  BadCode       \* sources, files and modules that fail

VARIABLE driver

Script == "main"  \* the task that parses
NoDriver ==
  [status |-> 0, actions |-> 0, noStdLib |-> FALSE, standard |-> FALSE, debug |-> FALSE,
   resolvers |-> <<>>, ran |-> <<>>, arguments |-> <<>>, exit |-> "no"]

(* The one parser, in strict order; a name of the script, then its         *)
(* arguments.                                                              *)
CommandOptions ==
  << Option("d", "debug", FALSE, "debug"), Option("e", "eval", TRUE, "eval"), Option("E", "eval-print", TRUE, "eval"),
     Option("l", "load", TRUE, "load"), Option("r", "require", TRUE, "require"), Option("L", "load-path", TRUE, "load-path"),
     Option(NoName, "no-std-lib", FALSE, "no-std-lib") >>
CommandParser ==
  [strict |-> TRUE, options |-> CommandOptions, room |-> 0,
   arguments |-> <<Argument(FALSE, FALSE, "string"), Argument(FALSE, TRUE, "list")>>]

(* That the parser's names are strings is no fact the provers know. *)
ASSUME CommandsAssumption == CommandWords \subseteq ParsedWords /\ CommandParser \in OptionParsers

(* The standard resolvers come before those there are, once, before the    *)
(* first thing that may need them.                                         *)
StandardResolvers == <<"native", "source">>
WithStandard(d) ==
  IF d.noStdLib \/ d.standard THEN d ELSE [d EXCEPT !.resolvers = StandardResolvers \o @, !.standard = TRUE]

Runs(d, does, value) ==
  [d EXCEPT !.actions = @ + 1, !.status = IF value \in BadCode THEN 1 ELSE 0,
            !.ran = Append(@, [does |-> does, value |-> value, resolvers |-> d.resolvers])]

(* Mutant of React: an action runs though one before it failed. *)
ReactRegardless(d, does, value) ==
  CASE does = "debug" -> [d EXCEPT !.debug = TRUE]
    [] does = "no-std-lib" ->
         IF d.standard \/ d.actions # 0 THEN [d EXCEPT !.exit = "error"] ELSE [d EXCEPT !.noStdLib = TRUE]
    [] does = "load-path" -> [WithStandard(d) EXCEPT !.resolvers = <<value>> \o @]
    [] OTHER -> Runs(WithStandard(d), does, value)

(* A callback: what comes after a failure does nothing, but for the two    *)
(* that do not ask.                                                        *)
React(d, does, value) ==
  CASE does = "debug" -> [d EXCEPT !.debug = TRUE]
    [] does = "no-std-lib" ->
         IF d.standard \/ d.actions # 0 THEN [d EXCEPT !.exit = "error"] ELSE [d EXCEPT !.noStdLib = TRUE]
    [] OTHER -> IF d.status # 0 THEN d
                ELSE IF does = "load-path" THEN [WithStandard(d) EXCEPT !.resolvers = <<value>> \o @]
                ELSE Runs(WithStandard(d), does, value)

DriverInit ==
  /\ places = NoPlaces
  /\ parser = CommandParser
  /\ \E n \in 0..MaxWords : \E words \in [1..n -> CommandWords] :
       parses = [t \in {Script} |-> Waiting([words |-> words, tail |-> "nil"])]
  /\ driver = NoDriver

(* A word of the command line, and what its option does. *)
ParseCommand ==
  /\ driver.exit = "no"
  /\ ParseStep(Script)
  /\ LET c == parses'[Script].calls IN
     driver' = IF c = parses[Script].calls \/ Last(c).who[1] = "argument" THEN driver
               ELSE React(driver, CommandOptions[Last(c).who[2]].does, Last(c).value)

BadCommand ==
  /\ driver.exit = "no" /\ parses[Script].pc = "failed"
  /\ driver' = [driver EXCEPT !.exit = "error"]
  /\ UNCHANGED optionVars

(* The end of main: a failure, nothing left to do, the REPL, or a script.  *)
EndCommands ==
  /\ driver.exit = "no" /\ parses[Script].pc = "done"
  /\ driver.status # 0 \/ places.string = <<>>
  /\ driver' = IF driver.status # 0 THEN [driver EXCEPT !.exit = "failure"]
               ELSE IF driver.actions # 0 THEN [driver EXCEPT !.exit = "success"]
               ELSE [WithStandard(driver) EXCEPT !.exit = "REPL", !.debug = TRUE]
  /\ UNCHANGED optionVars

RunScript ==
  /\ driver.exit = "no" /\ parses[Script].pc = "done"
  /\ driver.status = 0 /\ places.string # <<>>
  /\ LET d == Runs(WithStandard(driver), "script", places.string[1])
     IN driver' = [d EXCEPT !.arguments = places.string \o places.list,
                            !.exit = IF d.status = 0 THEN "success" ELSE "failure"]
  /\ UNCHANGED optionVars

DriverNext == ParseCommand \/ BadCommand \/ EndCommands \/ RunScript

----------------------------------------------------------------------------
(* What a call of the command line's meaning does.                         *)
Does(c) == IF c.who[1] = "option" THEN CommandOptions[c.who[2]].does
           ELSE IF c.who[2] = 1 THEN "script" ELSE "argument"
Only(calls, kinds) == FlattenSeq([i \in DOMAIN calls |-> IF Does(calls[i]) \in kinds THEN <<calls[i]>> ELSE <<>>])
ValuesOf(calls) == [i \in DOMAIN calls |-> calls[i].value]
UpToFailure(actions) ==
  LET bad == SelectInSeq(actions, LAMBDA c : c.value \in BadCode)
  IN IF bad = 0 THEN actions ELSE SubSeq(actions, 1, bad)
Before(calls, c) == SubSeq(calls, 1, SelectInSeq(calls, LAMBDA d : d = c))

DoneInOrder(calls, actions, done) ==
  /\ Len(driver.ran) = Len(done)
  /\ \A k \in DOMAIN done :
       /\ driver.ran[k].does = Does(done[k]) /\ driver.ran[k].value = done[k].value
       /\ (\A j \in DOMAIN done : done[j] = done[k] => j = k) =>
            driver.ran[k].resolvers = Reverse(ValuesOf(Only(Before(calls, done[k]), {"load-path"})))
                                        \o (IF Only(calls, {"no-std-lib"}) # <<>> THEN <<>> ELSE StandardResolvers)
  /\ driver.exit = (IF actions = <<>> THEN "REPL"
                    ELSE IF Len(done) < Len(actions) \/ Last(done).value \in BadCode THEN "failure" ELSE "success")
  /\ (done # <<>> /\ Does(Last(done)) = "script") => driver.arguments = ValuesOf(Only(calls, {"script", "argument"}))

(* What is asked for on the command line is done in its order and up to    *)
(* the first failure, the script last; each finds the directories that     *)
(* were given before it, the latest first, and behind them the standard    *)
(* ones, unless --no-std-lib came before all else; and the REPL begins     *)
(* only if there was nothing to do (main.c:189, :271, :409).               *)
CommandsInOrder ==
  (driver.exit \notin {"no", "error"}) =>
    \A calls \in {Meaning(CommandParser, parses[Script].line)} :
      \A actions \in {Only(calls, {"eval", "load", "require", "script"})} :
        DoneInOrder(calls, actions, UpToFailure(actions))
===============================================================================
