------------------------------ MODULE Closures ------------------------------
(***************************************************************************)
(* src/src/classes/Closure.c, src/src/classes/Environment.c and            *)
(* src/src/vm/compiler.c: a closure whose body is a free symbol, applied   *)
(* by several threads while another one defines that symbol.  The compiler *)
(* folds a constant into the body; the global compilation epoch says       *)
(* whether the folded body may still be run.  Nothing here takes a lock:   *)
(* every step is one read or one write of shared memory.                   *)
(***************************************************************************)
EXTENDS Naturals

CONSTANTS Evaluators, Values,
          MaxBinds,  \* bound: definitions made in a behaviour
          UNBOUND,   \* what a lookup finds when no frame binds the symbol
          ZEROED,    \* the value of a binding nobody has stored to: LT_INVALID
          LOOKUP     \* a body that was not folded

ASSUME MaxBindsAssumption == MaxBinds \in Nat
(* LT_INVALID, and the two outcomes that are no value, are none of the     *)
(* values a program can give a symbol.                                     *)
ASSUME ClosureValuesAssumption ==
  UNBOUND \notin Values /\ ZEROED \notin Values /\ LOOKUP \notin Values
ASSUME OutcomesAssumption ==
  UNBOUND # ZEROED /\ UNBOUND # LOOKUP /\ ZEROED # LOOKUP

FrameNames == {"inner", "global"}  \* the closure's frame and its parent
Absent == [value |-> UNBOUND, constant |-> FALSE]

VARIABLES
  binding,   \* per frame, the binding of the symbol
  epoch,     \* LT__compilation_epoch
  closure,   \* its compiled_body and compilation_epoch
  epc, copied, found, fresh,   \* of each evaluator
  binder,    \* the definition in progress
  binds,     \* how many were begun
  visible,   \* history: the values current at some time of the application
  raced      \* history: see Overtakes, TurnsConstant and Recovers

closureVars == <<binding, epoch, closure, epc, copied, found, fresh, binder,
                 binds, visible, raced>>

Outcomes == Values \cup {UNBOUND, ZEROED}
BusyBinders ==
  [at : {"create", "value", "flags", "epoch"}, frame : FrameNames, old : Outcomes,
   constant : BOOLEAN, new : Outcomes, value : Values, was : BOOLEAN]

ClosureTypeOK ==
  /\ binding \in [FrameNames -> [value : Outcomes, constant : BOOLEAN]]
  /\ epoch \in 0..MaxBinds
  /\ closure \in [body : Values \cup {LOOKUP}, epoch : 0..MaxBinds]
  /\ epc \in [Evaluators -> {"idle", "check", "copy", "find", "flags",
                             "body", "epoch", "load", "run"}]
  /\ copied \in [Evaluators -> 0..MaxBinds]
  /\ found \in [Evaluators -> FrameNames]
  /\ fresh \in [Evaluators -> Values \cup {LOOKUP, ZEROED}]
  /\ binder \in BusyBinders \cup {[at |-> "idle"]}
  /\ binds \in 0..MaxBinds
  /\ visible \in [Evaluators -> SUBSET Outcomes]
  /\ raced \in BOOLEAN

BoundIn(f) == binding[f] # Absent
(* LT_Environment_lookup walks from the closure's frame to its parent. *)
Nearest == IF BoundIn("inner") THEN "inner" ELSE "global"
Lookup == binding[Nearest].value

(* What the symbol stands for: both sides of a definition in progress.    *)
Current == IF binder.at = "idle" THEN {Lookup}
           ELSE {Lookup, binder.old, binder.new}

Fold == IF binding["global"].constant THEN binding["global"].value ELSE LOOKUP

(* The closure is made, and compiled, in an environment that binds the     *)
(* symbol in its outer frame: as a constant, as a variable or not at all.  *)
ClosureInit ==
  /\ \E v \in Values, k \in BOOLEAN, bound \in BOOLEAN :
       binding = [f \in FrameNames |->
                    IF f = "global" /\ bound THEN [value |-> v, constant |-> k]
                    ELSE Absent]
  /\ epoch = 0
  /\ closure = [body |-> Fold, epoch |-> 0]
  /\ epc = [t \in Evaluators |-> "idle"]
  /\ copied = [t \in Evaluators |-> 0]
  /\ found = [t \in Evaluators |-> "global"]
  /\ fresh = [t \in Evaluators |-> LOOKUP]
  /\ binder = [at |-> "idle"]
  /\ binds = 0
  /\ visible = [t \in Evaluators |-> {}]
  /\ raced = FALSE

Move(t, l) == epc' = [epc EXCEPT ![t] = l]
NoDefinition == UNCHANGED <<binding, epoch, binder, binds>>

(* LT_apply of a closure begins. *)
ApplyClosure(t) ==
  /\ epc[t] = "idle"
  /\ Move(t, "check")
  /\ visible' = [visible EXCEPT ![t] = Current]
  /\ NoDefinition
  /\ UNCHANGED <<closure, copied, found, fresh, raced>>

(* LT_Closure_compiled_body asks for the epoch first. *)
CheckEpoch(t) ==
  /\ epc[t] = "check"
  /\ Move(t, IF closure.epoch = epoch THEN "load" ELSE "copy")
  /\ NoDefinition
  /\ UNCHANGED <<closure, copied, found, fresh, visible, raced>>

(* compile_closure copies the epoch before it looks at any binding. *)
CopyEpoch(t) ==
  /\ epc[t] = "copy"
  /\ copied' = [copied EXCEPT ![t] = epoch]
  /\ Move(t, "find")
  /\ NoDefinition
  /\ UNCHANGED <<closure, found, fresh, visible, raced>>

(* LT_Environment_lookup for the compiler: it finds the binding and reads  *)
(* its value, and only then its flags; LT_INVALID is never folded.         *)
FindBinding(t) ==
  /\ epc[t] = "find"
  /\ IF BoundIn(Nearest)
     THEN /\ fresh' = [fresh EXCEPT ![t] = Lookup]
          /\ Move(t, "flags")
     ELSE /\ fresh' = [fresh EXCEPT ![t] = LOOKUP]
          /\ Move(t, "body")
  /\ found' = [found EXCEPT ![t] = Nearest]
  /\ NoDefinition
  /\ UNCHANGED <<closure, copied, visible, raced>>

ReadFlags(t) ==
  /\ epc[t] = "flags"
  /\ fresh' = [fresh EXCEPT ![t] =
                 IF binding[found[t]].constant /\ @ # ZEROED THEN @ ELSE LOOKUP]
  /\ Move(t, "body")
  /\ NoDefinition
  /\ UNCHANGED <<closure, copied, found, visible, raced>>

(* Another evaluator is still compiling from an older epoch. *)
Compiling(t) == epc[t] \in {"find", "flags", "body", "epoch"}
Overtakes(t) == \E u \in Evaluators \ {t} : Compiling(u) /\ copied[u] < copied[t]

StoreBody(t) ==
  /\ epc[t] = "body"
  /\ closure' = [closure EXCEPT !.body = fresh[t]]
  /\ raced' = (raced \/ Overtakes(t))
  /\ Move(t, "epoch")
  /\ NoDefinition
  /\ UNCHANGED <<copied, found, fresh, visible>>

StoreEpoch(t) ==
  /\ epc[t] = "epoch"
  /\ closure' = [closure EXCEPT !.epoch = copied[t]]
  /\ Move(t, "load")
  /\ NoDefinition
  /\ UNCHANGED <<copied, found, fresh, visible, raced>>

LoadBody(t) ==
  /\ epc[t] = "load"
  /\ fresh' = [fresh EXCEPT ![t] = closure.body]
  /\ Move(t, "run")
  /\ NoDefinition
  /\ UNCHANGED <<closure, copied, found, visible, raced>>

(* A folded body is the answer; any other looks the symbol up. *)
Answer(t) == IF fresh[t] = LOOKUP THEN Lookup ELSE fresh[t]
RunBody(t) ==
  /\ epc[t] = "run"
  /\ copied' = [copied EXCEPT ![t] = 0]
  /\ found' = [found EXCEPT ![t] = "global"]
  /\ fresh' = [fresh EXCEPT ![t] = LOOKUP]
  /\ visible' = [visible EXCEPT ![t] = {}]
  /\ Move(t, "idle")
  /\ NoDefinition
  /\ UNCHANGED <<closure, raced>>

--------------------------------------------------------------------------

(* Every application in progress sees what the symbol now stands for. *)
Reveal == visible' = [t \in Evaluators |->
                        IF epc[t] = "idle" THEN visible[t]
                        ELSE visible[t] \cup Current']
NoEvaluation == UNCHANGED <<closure, epc, copied, found, fresh>>

(* LT_Environment_bind remembers whether the symbol was a constant here.   *)
(* A new binding in the inner frame hides the one the body was folded from. *)
DefineBegin(f, v, k) ==
  /\ binder.at = "idle" /\ binds < MaxBinds
  /\ binder' = [at |-> IF BoundIn(f) THEN "value" ELSE "create",
                frame |-> f, old |-> Lookup, constant |-> k,
                new |-> IF f = "global" /\ BoundIn("inner") THEN Lookup ELSE v,
                value |-> v, was |-> binding[f].constant]
  /\ binds' = binds + 1
  /\ UNCHANGED <<binding, epoch, raced>>
  /\ NoEvaluation /\ Reveal

DefineCreate ==
  /\ binder.at = "create"
  /\ binding' = [binding EXCEPT ![binder.frame] =
                   [value |-> ZEROED, constant |-> FALSE]]
  /\ raced' = (raced \/ (binder.frame = "inner" /\ BoundIn("global")))
  /\ binder' = [binder EXCEPT !.at = "value"]
  /\ UNCHANGED <<epoch, binds>>
  /\ NoEvaluation /\ Reveal

DefineValue ==
  /\ binder.at = "value"
  /\ binding' = [binding EXCEPT ![binder.frame].value = binder.value]
  /\ binder' = [binder EXCEPT !.at = "flags"]
  /\ UNCHANGED <<epoch, binds, raced>>
  /\ NoEvaluation /\ Reveal

(* A compiler holds the value of a variable that now becomes a constant. *)
TurnsConstant == /\ binder.constant /\ ~binder.was
                 /\ \E t \in Evaluators : /\ epc[t] = "flags"
                                          /\ found[t] = binder.frame
                                          /\ fresh[t] # binder.value

DefineFlags ==
  /\ binder.at = "flags"
  /\ binding' = [binding EXCEPT ![binder.frame].constant = binder.constant]
  /\ raced' = (raced \/ TurnsConstant)
  /\ binder' = [binder EXCEPT !.at = "epoch"]
  /\ UNCHANGED <<epoch, binds>>
  /\ NoEvaluation /\ Reveal

(* A change that the epoch counts, while no application is past its check, *)
(* has whatever was compiled before it compiled again: what a race left in *)
(* the closure is run no more.                                             *)
Recovers == /\ binder.was
            /\ \A t \in Evaluators : epc[t] \in {"idle", "check", "copy"}

(* Mutant of DefineEnd: the epoch counts new constants, not changed ones. *)
DefineEndCountsNew ==
  /\ binder.at = "epoch"
  /\ epoch' = IF binder.constant /\ ~binder.was THEN epoch + 1 ELSE epoch
  /\ raced' = (raced /\ ~Recovers)
  /\ binder' = [at |-> "idle"]
  /\ UNCHANGED <<binding, binds>>
  /\ NoEvaluation /\ Reveal

DefineEnd ==
  /\ binder.at = "epoch"
  /\ epoch' = IF binder.was THEN epoch + 1 ELSE epoch
  /\ raced' = (raced /\ ~Recovers)
  /\ binder' = [at |-> "idle"]
  /\ UNCHANGED <<binding, binds>>
  /\ NoEvaluation /\ Reveal

(* LT_Environment_set writes the nearest binding unless it is constant. *)
SetVariable(v) ==
  /\ binder.at = "idle" /\ binds < MaxBinds
  /\ BoundIn(Nearest) /\ ~binding[Nearest].constant
  /\ binding' = [binding EXCEPT ![Nearest].value = v]
  /\ binds' = binds + 1
  /\ UNCHANGED <<epoch, binder, raced>>
  /\ NoEvaluation /\ Reveal

Evaluation(t) ==
  \/ ApplyClosure(t) \/ CheckEpoch(t) \/ CopyEpoch(t) \/ FindBinding(t)
  \/ ReadFlags(t) \/ StoreBody(t) \/ StoreEpoch(t) \/ LoadBody(t)
  \/ RunBody(t)
Definition ==
  \/ \E f \in FrameNames, v \in Values, k \in BOOLEAN : DefineBegin(f, v, k)
  \/ DefineCreate \/ DefineValue \/ DefineFlags \/ DefineEnd
  \/ \E v \in Values : SetVariable(v)

ClosureNext == (\E t \in Evaluators : Evaluation(t)) \/ Definition

ClosureSpec == ClosureInit /\ [][ClosureNext]_closureVars

(* Whatever an application answers, the symbol stood for it at some time   *)
(* between its begin and its end: a redefined constant is never run from   *)
(* an old body, though the redefinition may fall anywhere in a             *)
(* recompilation.  Three schedules break this promise of the epoch         *)
(* (Closure.c:145, Environment.c:200) and are told by raced: a             *)
(* recompilation that stores while an older one is still under way, a      *)
(* variable that becomes constant between the compiler's two reads of its  *)
(* binding, and a new nearer binding, for which no epoch is counted.  What *)
(* they leave behind lasts until the next counted change and no longer.    *)
AnswersAreCurrent ==
  \A t \in Evaluators : epc[t] = "run" => Answer(t) \in visible[t] \/ raced
==========================================================================
