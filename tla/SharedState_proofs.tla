------------------------- MODULE SharedState_proofs -------------------------
(***************************************************************************)
(* The components whose state threads share without a lock around the      *)
(* whole operation keep their promises whatever the number of threads,     *)
(* symbols, packages, keys, modules and files.                             *)
(***************************************************************************)
EXTENDS MCSharedState, FiniteSetTheorems, FunctionTheorems, SequenceTheorems,
        WellFoundedInduction, TLAPS

-----------------------------------------------------------------------------
(* Closure.c and Environment.c: the invariant of the compilation epoch.    *)

Busy == binder.at # "idle"

(* The types, with what is known of the values at each place.              *)
BindingsTyped ==
  /\ binding \in [FrameNames -> [value : Outcomes, constant : BOOLEAN]]
  /\ \A f \in FrameNames : binding[f] = Absent \/ binding[f].value # UNBOUND
  /\ binder \in BusyBinders \cup {[at |-> "idle"]}
  /\ epoch \in Nat /\ binds \in 0..MaxBinds
  /\ epoch <= binds /\ (binder.at # "idle" => epoch < binds)
  /\ raced \in BOOLEAN
ClosureTyped ==
  /\ ClosureTypeOK /\ BindingsTyped
  /\ closure.epoch <= epoch
  /\ \A t \in Evaluators :
       /\ copied[t] <= epoch
       /\ epc[t] \in {"idle", "check"} => copied[t] = 0
       /\ epc[t] \in {"body", "run"} => fresh[t] # ZEROED

(* How far the definition in progress has come. *)
BinderInv ==
  LET b == binding[binder.frame] IN
  /\ binder.at = "create" => ~BoundIn(binder.frame) /\ ~binder.was
  /\ binder.at \in {"value", "flags", "epoch"} => BoundIn(binder.frame)
  /\ binder.at \in {"value", "flags"} => b.constant = binder.was
  /\ binder.at \in {"flags", "epoch"} => b.value = binder.value
  /\ binder.at = "epoch" => b.constant = binder.constant
  /\ Busy /\ binder.was /\ binder.frame = Nearest =>
       /\ binder.new = binder.value
       /\ binder.at = "value" => b.value = binder.old

(* An application in progress has seen all that the symbol stands for now. *)
SeesCurrent == \A t \in Evaluators : epc[t] # "idle" => Current \subseteq visible[t]

(* What may be folded from now on: the constant, and either side of its    *)
(* redefinition until the epoch is counted.                                *)
Standing ==
  {LOOKUP}
  \cup (IF binding[Nearest].constant THEN {binding[Nearest].value} ELSE {})
  \cup (IF /\ binder.at \in {"value", "flags", "epoch"}
           /\ binder.frame = Nearest /\ binder.was
        THEN {binder.old, binder.value} ELSE {})
Seen(t) == visible[t] \cup {LOOKUP}

(* What was compiled in this epoch stands, and the epochs of compilers and *)
(* of the closure are in order.                                            *)
EpochInv ==
  /\ closure.epoch = epoch => closure.body \in Standing
  /\ \A u \in Evaluators :
       /\ epc[u] = "flags" => found[u] = Nearest /\ BoundIn(found[u])
       /\ copied[u] = epoch =>
            /\ epc[u] = "flags" /\ binding[found[u]].constant =>
                 fresh[u] = ZEROED \/ fresh[u] \in Standing
            /\ epc[u] = "body" => fresh[u] \in Standing
            /\ epc[u] = "epoch" => closure.body \in Standing
       /\ Compiling(u) => closure.epoch <= copied[u]
  /\ \A t, u \in Evaluators :
       epc[t] \in {"epoch", "load"} /\ Compiling(u) => copied[t] <= copied[u]

(* Whatever an application may come to run, the symbol stood for since it  *)
(* began.                                                                  *)
AnswerInv ==
  /\ \A t, u \in Evaluators :
       /\ epc[t] \in {"find", "flags", "body", "epoch", "load"}
       /\ Compiling(u) /\ copied[t] <= copied[u]
       => /\ epc[u] = "body" => fresh[u] \in Seen(t)
          /\ epc[u] = "flags" /\ binding[found[u]].constant =>
               fresh[u] = ZEROED \/ fresh[u] \in Seen(t)
  /\ \A t \in Evaluators :
       /\ epc[t] \in {"epoch", "load"} => closure.body \in Seen(t)
       /\ epc[t] = "run" => fresh[t] \in Seen(t)

ClosureInv ==
  /\ ClosureTyped /\ BinderInv /\ SeesCurrent
  /\ raced \/ (EpochInv /\ AnswerInv)

-----------------------------------------------------------------------------
(* A freshly made closure was compiled from what its environment binds.    *)
LEMMA ClosureInitInv == ClosureInit => ClosureInv
<1> SUFFICES ASSUME ClosureInit PROVE ClosureInv
  OBVIOUS
<1>0. /\ epoch \in Nat /\ binds \in 0..MaxBinds /\ epoch <= binds /\ raced \in BOOLEAN
  <2>1. epoch = 0 /\ binds = 0 /\ raced = FALSE
    BY DEF ClosureInit
  <2>2. raced \in BOOLEAN
    BY <2>1
  <2>3. epoch \in Nat /\ binds \in 0..MaxBinds /\ epoch <= binds
    <3>1. epoch = 0 /\ binds = 0
      BY <2>1
    <3> QED
      BY <3>1, MaxBindsAssumption
  <2> QED
    BY <2>2, <2>3
<1> USE MaxBindsAssumption, ClosureValuesAssumption, OutcomesAssumption
    DEF ClosureInit, FrameNames, Absent, BoundIn, Nearest, Outcomes
<1>1. ClosureTyped
  <2>1. PICK v \in Values, k \in BOOLEAN, bound \in BOOLEAN :
          binding = [f \in FrameNames |->
                       IF f = "global" /\ bound
                       THEN [value |-> v, constant |-> k] ELSE Absent]
    OBVIOUS
  <2>2. /\ binding \in [FrameNames -> [value : Outcomes,
                                       constant : BOOLEAN]]
        /\ \A f \in FrameNames : binding[f] = Absent \/ binding[f].value # UNBOUND
        /\ Fold \in Values \cup {LOOKUP}
    <3> DEFINE outer == IF bound THEN [value |-> v, constant |-> k] ELSE Absent
               Type == [value : Outcomes, constant : BOOLEAN]
    <3>1. Absent \in Type /\ outer \in Type
      OBVIOUS
    <3>2. binding["inner"] = Absent /\ binding["global"] = outer
      BY <2>1
    <3>3. outer # Absent => outer.value \in Values
      OBVIOUS
    <3>4. outer.constant => outer.value \in Values
      OBVIOUS
    <3>5. binding \in [FrameNames -> Type]
      BY <2>1, <3>1
    <3> HIDE DEF outer, Type
    <3> QED
      BY <3>2, <3>3, <3>4, <3>5 DEF Fold, Type
  <2>3. closure \in [body : Values \cup {LOOKUP}, epoch : 0..MaxBinds]
    BY <2>2
  <2> HIDE DEF BoundIn, Fold
  <2>4. ~Busy /\ binder.at = "idle" /\ binder \in BusyBinders \cup {[at |-> "idle"]}
    BY DEF Busy
  <2>5. ClosureTypeOK
    BY <2>2, <2>3, <2>4 DEF ClosureTypeOK
  <2>6. visible \in [Evaluators -> SUBSET (Outcomes)]
    OBVIOUS
  <2>7. BindingsTyped
    <3> HIDE DEF ClosureInit
    <3> QED
      BY <1>0, <2>2, <2>4, Zenon DEF BindingsTyped
  <2> QED
    BY <2>5, <2>6, <2>7 DEF ClosureTyped
<1>2. BinderInv /\ SeesCurrent
  BY DEF BinderInv, SeesCurrent, Busy
<1>3. EpochInv /\ AnswerInv
  BY DEF EpochInv, AnswerInv, Standing, Fold, Compiling
<1> QED
  BY <1>1, <1>2, <1>3 DEF ClosureInv

(* What stands is current, so who has seen all that is current has seen    *)
(* it.                                                                     *)
LEMMA StandingIsSeen ==
  ASSUME ClosureTyped, BinderInv, SeesCurrent,
         NEW t \in Evaluators, epc[t] # "idle"
  PROVE  Standing \subseteq Seen(t)
<1>1. Standing \subseteq Current \cup {LOOKUP}
  BY DEF Standing, Current, Lookup, BinderInv, Busy
<1> QED
  BY <1>1 DEF SeesCurrent, Seen

(* The steps of an evaluator leave alone what definitions write.           *)
LEMMA EvaluationKeeps ==
  ASSUME NoDefinition
  PROVE  /\ BinderInv => BinderInv'
         /\ Current' = Current /\ Nearest' = Nearest /\ Lookup' = Lookup
         /\ Standing' = Standing /\ Busy' = Busy
         /\ \A f \in FrameNames : BoundIn(f)' <=> BoundIn(f)
<1> USE DEF NoDefinition
<1>1. Nearest' = Nearest /\ \A f \in FrameNames : BoundIn(f)' <=> BoundIn(f)
  BY DEF Nearest, BoundIn
<1>2. Current' = Current /\ Lookup' = Lookup /\ Standing' = Standing /\ Busy' = Busy
  BY <1>1 DEF Current, Lookup, Standing, Busy
<1>3. BinderInv => BinderInv'
  BY <1>1, <1>2 DEF BinderInv, BoundIn
<1> QED
  BY <1>1, <1>2, <1>3

(* Every step of an application keeps the types, ...                       *)
LEMMA EvaluationTyped ==
  ASSUME ClosureTyped, NEW t \in Evaluators, Evaluation(t)
  PROVE  ClosureTyped'
<1> USE MaxBindsAssumption, ClosureValuesAssumption, OutcomesAssumption
    DEF ClosureTyped, BindingsTyped, ClosureTypeOK, NoDefinition, Move, BoundIn, Busy,
        Outcomes
<1>1. CASE ApplyClosure(t)
  <2>1. Current \subseteq Outcomes
    BY DEF Current, Lookup, Nearest, FrameNames, BusyBinders
  <2> QED
    BY <1>1, <2>1 DEF ApplyClosure
<1>2. CASE CheckEpoch(t)
  BY <1>2 DEF CheckEpoch
<1>3. CASE CopyEpoch(t)
  BY <1>3 DEF CopyEpoch
<1>4. CASE FindBinding(t)
  <2>1. Nearest \in FrameNames
    BY DEF Nearest, FrameNames
  <2>2. BoundIn(Nearest) => Lookup \in Values \cup {ZEROED}
    BY <2>1 DEF Lookup
  <2>3. /\ found' = [found EXCEPT ![t] = Nearest]
        /\ \E x \in Values \cup {LOOKUP, ZEROED}, l \in {"flags", "body"} :
             /\ fresh' = [fresh EXCEPT ![t] = x]
             /\ epc' = [epc EXCEPT ![t] = l]
             /\ l = "body" => x # ZEROED
    BY <1>4, <2>2 DEF FindBinding
  <2>4. UNCHANGED <<binding, epoch, binder, binds, closure, copied, visible, raced>>
    BY <1>4 DEF FindBinding
  <2> QED
    BY <2>1, <2>3, <2>4
<1>5. CASE ReadFlags(t)
  BY <1>5 DEF ReadFlags
<1>6. CASE StoreBody(t)
  BY <1>6 DEF StoreBody
<1>7. CASE StoreEpoch(t)
  BY <1>7 DEF StoreEpoch
<1>8. CASE LoadBody(t)
  BY <1>8 DEF LoadBody
<1>9. CASE RunBody(t)
  BY <1>9 DEF RunBody, FrameNames
<1> QED
  BY <1>1, <1>2, <1>3, <1>4, <1>5, <1>6, <1>7, <1>8, <1>9 DEF Evaluation

(* ... and the rest of the invariant.                                      *)
LEMMA EvaluationInv ==
  ASSUME ClosureInv, NEW t \in Evaluators, Evaluation(t)
  PROVE  ClosureInv'
<1>1. NoDefinition
  BY DEF Evaluation, ApplyClosure, CheckEpoch, CopyEpoch, FindBinding, ReadFlags, StoreBody,
         StoreEpoch, LoadBody, RunBody
<1>2. ClosureTyped' /\ BinderInv'
  BY <1>1, EvaluationTyped, EvaluationKeeps DEF ClosureInv
<1>3. Current' = Current /\ Standing' = Standing /\ Nearest' = Nearest
  BY <1>1, EvaluationKeeps
<1>4. \A f \in FrameNames : BoundIn(f)' <=> BoundIn(f)
  BY <1>1, EvaluationKeeps
<1>5. \A u \in Evaluators : epc[u] # "idle" => Standing \subseteq Seen(u)
  BY StandingIsSeen DEF ClosureInv
<1>6. LOOKUP \in Standing
  BY DEF Standing
<1>7. BoundIn(Nearest) /\ binding[Nearest].constant => Lookup \in Standing
  BY DEF Standing, Lookup
<1>8. ClosureTyped /\ SeesCurrent /\ (raced \/ (EpochInv /\ AnswerInv))
  BY DEF ClosureInv
<1> HIDE DEF Current, Standing, Nearest, Lookup
<1>9. SeesCurrent'
  BY <1>3, <1>8
  DEF SeesCurrent, ClosureTyped, ClosureTypeOK, Move, Evaluation, ApplyClosure, CheckEpoch, CopyEpoch,
      FindBinding, ReadFlags, StoreBody, StoreEpoch, LoadBody, RunBody
<1>a. \A u \in Evaluators : copied[u] \in Nat /\ epoch \in Nat /\ copied[u] <= epoch
  BY <1>8, MaxBindsAssumption DEF ClosureTyped, ClosureTypeOK
<1>b. \A u \in Evaluators : epoch <= copied[u] => copied[u] = epoch
  BY <1>a
<1>10. ASSUME ~raced' PROVE EpochInv' /\ AnswerInv'
  <2>0. raced \in BOOLEAN /\ (raced' = raced \/ raced' = (raced \/ Overtakes(t)))
    BY <1>8
    DEF ClosureTyped, ClosureTypeOK, Evaluation, ApplyClosure, CheckEpoch, CopyEpoch, FindBinding,
        ReadFlags, StoreBody, StoreEpoch, LoadBody, RunBody
  <2>1. ~raced /\ EpochInv /\ AnswerInv
    BY <1>8, <1>10, <2>0
  <2> USE <1>3, <1>4, <1>5, <1>6, <1>8, <2>1, MaxBindsAssumption
      DEF ClosureTyped, ClosureTypeOK, NoDefinition, Move, Compiling, Seen
  <2>a. \A u, v \in Evaluators :
          copied[u] = epoch /\ epc[v] # "idle" =>
            /\ epc[u] = "body" => fresh[u] \in Seen(v)
            /\ epc[u] = "flags" /\ binding[found[u]].constant =>
                 fresh[u] = ZEROED \/ fresh[u] \in Seen(v)
    BY DEF EpochInv
  <2>2. CASE ApplyClosure(t)
    BY <2>2 DEF ApplyClosure, EpochInv, AnswerInv
  <2>3. CASE CheckEpoch(t)
    <3>1. EpochInv'
      BY <2>3 DEF CheckEpoch, EpochInv
    <3>2. AnswerInv'
      BY <2>3 DEF CheckEpoch, EpochInv, AnswerInv
    <3> QED
      BY <3>1, <3>2
  <2>4. CASE CopyEpoch(t)
    <3>1. EpochInv'
      BY <2>4 DEF CopyEpoch, EpochInv
    <3>0. /\ epc[t] = "copy" /\ epc' = [epc EXCEPT ![t] = "find"]
          /\ copied' = [copied EXCEPT ![t] = epoch]
          /\ UNCHANGED <<binding, epoch, closure, found, fresh, visible, raced>>
      BY <2>4 DEF CopyEpoch
    <3>b. ASSUME NEW u \in Evaluators, NEW v \in Evaluators,
                 epc'[v] \in {"find", "flags", "body", "epoch", "load"},
                 epc'[u] \in {"flags", "body"}, copied'[v] <= copied'[u]
          PROVE  /\ epc[u] = "body" => fresh[u] \in Seen(v)
                 /\ epc[u] = "flags" /\ binding[found[u]].constant =>
                      fresh[u] = ZEROED \/ fresh[u] \in Seen(v)
      <4>1. u # t /\ epc'[u] = epc[u] /\ copied'[u] = copied[u]
        BY <3>0, <3>b
      <4>2. CASE v = t
        BY <3>0, <1>b, <3>b, <4>1, <4>2, <2>a
      <4>3. CASE v # t
        BY <3>0, <3>b, <4>1, <4>3 DEF AnswerInv
      <4> QED
        BY <4>2, <4>3
    <3>2. AnswerInv'
      BY <3>0, <3>b DEF AnswerInv
    <3> QED
      BY <3>1, <3>2
  <2>5. CASE FindBinding(t)
    <3> DEFINE l == IF BoundIn(Nearest) THEN "flags" ELSE "body"
               x == IF BoundIn(Nearest) THEN Lookup ELSE LOOKUP
    <3>0. /\ epc[t] = "find" /\ epc' = [epc EXCEPT ![t] = l]
          /\ fresh' = [fresh EXCEPT ![t] = x] /\ found' = [found EXCEPT ![t] = Nearest]
          /\ UNCHANGED <<binding, epoch, binder, binds, closure, copied, visible, raced>>
      BY <2>5 DEF FindBinding
    <3>a. /\ l = "body" => x \in Standing
          /\ l = "flags" /\ binding[Nearest].constant => x \in Standing
          /\ l \in {"flags", "body"} /\ (l = "flags" => BoundIn(Nearest))
      BY <1>7
    <3>b. Nearest \in FrameNames
      BY DEF Nearest, FrameNames
    <3> HIDE DEF l, x
    <3>1. EpochInv'
      BY <3>0, <3>a, <3>b DEF EpochInv
    <3>2. AnswerInv'
      BY <3>0, <3>a, <3>b DEF EpochInv, AnswerInv
    <3> QED
      BY <3>1, <3>2
  <2>6. CASE ReadFlags(t)
    <3>1. EpochInv'
      BY <2>6 DEF ReadFlags, EpochInv
    <3>2. AnswerInv'
      BY <2>6 DEF ReadFlags, EpochInv, AnswerInv
    <3> QED
      BY <3>1, <3>2
  <2>7. CASE StoreBody(t)
    <3>a. raced' = (raced \/ Overtakes(t)) /\ epc[t] = "body"
      BY <2>7 DEF StoreBody
    <3>b. ~Overtakes(t)
      BY <3>a, <2>0, <1>10
    <3>0. \A u \in Evaluators : Compiling(u) => copied[t] <= copied[u]
      BY <3>b DEF Overtakes
    <3>c. /\ closure'.body = fresh[t] /\ closure'.epoch = closure.epoch
          /\ epc' = [epc EXCEPT ![t] = "epoch"]
          /\ UNCHANGED <<binding, epoch, copied, found, fresh>>
      BY <2>7 DEF StoreBody
    <3>d. \A u \in Evaluators : Compiling(u) /\ copied[t] = epoch => copied[u] = epoch
      BY <3>0, <1>b
    <3>e. closure.epoch = epoch \/ copied[t] = epoch => fresh[t] \in Standing
      BY <3>a, <1>b DEF EpochInv
    <3>1. EpochInv'
      <4>1. closure'.epoch = epoch' => closure'.body \in Standing'
        BY <3>c, <3>e
      <4>2. \A u \in Evaluators : copied'[u] = epoch' /\ epc'[u] = "epoch"
              => closure'.body \in Standing'
        BY <3>0, <3>a, <3>c, <3>e, <1>b DEF EpochInv
      <4> QED
        BY <4>1, <4>2, <3>0, <3>a, <3>c DEF EpochInv
    <3>2. AnswerInv'
      BY <2>7, <3>0 DEF StoreBody, EpochInv, AnswerInv
    <3> QED
      BY <3>1, <3>2
  <2>8. CASE StoreEpoch(t)
    <3>1. EpochInv'
      BY <2>8 DEF StoreEpoch, EpochInv
    <3>2. AnswerInv'
      BY <2>8 DEF StoreEpoch, EpochInv, AnswerInv
    <3> QED
      BY <3>1, <3>2
  <2>9. CASE LoadBody(t)
    BY <2>9 DEF LoadBody, EpochInv, AnswerInv
  <2>10. CASE RunBody(t)
    BY <2>10 DEF RunBody, EpochInv, AnswerInv
  <2> QED
    BY <2>2, <2>3, <2>4, <2>5, <2>6, <2>7, <2>8, <2>9, <2>10 DEF Evaluation
<1> QED
  BY <1>2, <1>9, <1>10 DEF ClosureInv

(* The steps of a definition keep the types, ...                           *)
LEMMA DefinitionTyped ==
  ASSUME ClosureTyped, BinderInv, Definition
  PROVE  ClosureTyped'
<1> USE MaxBindsAssumption, ClosureValuesAssumption, OutcomesAssumption
<1> DEFINE Type == [value : Outcomes, constant : BOOLEAN]
<1>1. NoEvaluation /\ Reveal
  BY DEF Definition, DefineBegin, DefineCreate, DefineValue, DefineFlags, DefineEnd,
         SetVariable
<1>2. Nearest \in FrameNames /\ Nearest' \in FrameNames
  BY DEF Nearest, FrameNames
<1>3. BindingsTyped
  BY DEF ClosureTyped
<1>4. BindingsTyped' /\ epoch <= epoch'
  <2>1. ASSUME NEW f \in FrameNames, NEW v \in Values, NEW k \in BOOLEAN,
               DefineBegin(f, v, k)
        PROVE  BindingsTyped' /\ epoch <= epoch'
    <3>1. Lookup \in Outcomes
      BY <1>2, <1>3 DEF Lookup, BindingsTyped
    <3>2. binder' \in BusyBinders
      BY <2>1, <1>3, <3>1 DEF DefineBegin, BusyBinders, BindingsTyped, Outcomes
    <3> QED
      BY <2>1, <1>3, <3>2 DEF DefineBegin, BindingsTyped
  <2>2. CASE DefineCreate
    <3>1. binder \in BusyBinders
      BY <1>3, <2>2 DEF DefineCreate, BindingsTyped
    <3>2. binder' \in BusyBinders /\ binder.frame \in FrameNames
      BY <2>2, <3>1 DEF DefineCreate, BusyBinders
    <3>3. [value |-> ZEROED, constant |-> FALSE] \in Type
      BY DEF Outcomes
    <3> QED
      BY <1>3, <2>2, <3>1, <3>2, <3>3 DEF DefineCreate, BindingsTyped
  <2>3. CASE DefineValue
    <3>1. binder \in BusyBinders
      BY <1>3, <2>3 DEF DefineValue, BindingsTyped
    <3>2. /\ binder' \in BusyBinders /\ binder.frame \in FrameNames
          /\ binder.value \in Outcomes /\ binder.value # UNBOUND
      BY <2>3, <3>1 DEF DefineValue, BusyBinders, Outcomes
    <3>3. binding' \in [FrameNames -> Type]
      BY <1>3, <2>3, <3>2 DEF DefineValue, BindingsTyped
    <3> QED
      BY <1>3, <2>3, <3>1, <3>2, <3>3 DEF DefineValue, BindingsTyped
  <2>4. CASE DefineFlags
    <3>1. binder \in BusyBinders
      BY <1>3, <2>4 DEF DefineFlags, BindingsTyped
    <3>2. /\ binder' \in BusyBinders /\ binder.frame \in FrameNames
          /\ binder.constant \in BOOLEAN
      BY <2>4, <3>1 DEF DefineFlags, BusyBinders
    <3>3. binding' \in [FrameNames -> Type]
      BY <1>3, <2>4, <3>2 DEF DefineFlags, BindingsTyped
    <3>4. binding[binder.frame] # Absent
      BY <2>4 DEF DefineFlags, BinderInv, BoundIn
    <3> QED
      BY <1>3, <2>4, <3>1, <3>2, <3>3, <3>4 DEF DefineFlags, BindingsTyped
  <2>5. CASE DefineEnd
    BY <1>3, <2>5 DEF DefineEnd, BindingsTyped
  <2>6. ASSUME NEW v \in Values, SetVariable(v)
        PROVE  BindingsTyped' /\ epoch <= epoch'
    <3>1. binding' \in [FrameNames -> Type]
      BY <1>2, <1>3, <2>6 DEF SetVariable, BindingsTyped, Outcomes
    <3>2. binding[Nearest] # Absent
      BY <2>6 DEF SetVariable, BoundIn
    <3> QED
      BY <1>2, <1>3, <2>6, <3>1, <3>2 DEF SetVariable, BindingsTyped
  <2> QED
    BY <2>1, <2>2, <2>3, <2>4, <2>5, <2>6 DEF Definition
<1>5. Current' \subseteq Outcomes
  <2>1. Lookup' \in Outcomes
    BY <1>2, <1>4 DEF Lookup, BindingsTyped
  <2>2. binder'.at # "idle" => binder'.old \in Outcomes /\ binder'.new \in Outcomes
    BY <1>4 DEF BindingsTyped, BusyBinders
  <2> QED
    BY <2>1, <2>2 DEF Current
<1>6. visible' \in [Evaluators -> SUBSET Outcomes]
  BY <1>1, <1>5 DEF Reveal, ClosureTyped, ClosureTypeOK
<1>7. ClosureTypeOK'
  <2>1. /\ epoch' \in 0..MaxBinds
        /\ binding' \in [FrameNames -> [value : Outcomes, constant : BOOLEAN]]
        /\ binder' \in BusyBinders \cup {[at |-> "idle"]}
        /\ binds' \in 0..MaxBinds /\ raced' \in BOOLEAN
    BY <1>4 DEF BindingsTyped
  <2>2. /\ closure' \in [body : Values \cup {LOOKUP}, epoch : 0..MaxBinds]
        /\ epc' \in [Evaluators -> {"idle", "check", "copy", "find", "flags",
                                    "body", "epoch", "load", "run"}]
        /\ copied' \in [Evaluators -> 0..MaxBinds]
        /\ found' \in [Evaluators -> FrameNames]
        /\ fresh' \in [Evaluators -> Values \cup {LOOKUP, ZEROED}]
    BY <1>1 DEF NoEvaluation, ClosureTyped, ClosureTypeOK
  <2> QED
    BY <1>6, <2>1, <2>2, Zenon DEF ClosureTypeOK
<1>8. epoch \in Nat /\ epoch' \in Nat
  BY <1>3, <1>4 DEF BindingsTyped
<1>9. closure.epoch \in Nat /\ closure.epoch <= epoch
  BY DEF ClosureTyped, ClosureTypeOK
<1>10. \A t \in Evaluators : copied[t] \in Nat /\ copied[t] <= epoch
  <2>1. copied \in [Evaluators -> 0..MaxBinds]
    BY DEF ClosureTyped, ClosureTypeOK
  <2>2. \A t \in Evaluators : copied[t] <= epoch
    BY DEF ClosureTyped
  <2> QED
    BY <1>8, <2>1, <2>2
<1>11. UNCHANGED <<closure, epc, copied, fresh>>
  BY <1>1 DEF NoEvaluation
<1>12. closure'.epoch <= epoch'
  BY <1>4, <1>8, <1>9, <1>11
<1>13. \A t \in Evaluators : copied'[t] <= epoch'
  BY <1>4, <1>8, <1>10, <1>11
<1> QED
  BY <1>4, <1>6, <1>7, <1>11, <1>12, <1>13 DEF ClosureTyped

(* ... the place of the definition in progress, ...                        *)
LEMMA DefinitionBinder ==
  ASSUME ClosureTyped, BinderInv, Definition
  PROVE  BinderInv'
<1> USE DEF ClosureTyped, BindingsTyped, BusyBinders, BoundIn, Busy, BinderInv
<1>1. Nearest \in FrameNames /\ Nearest' \in FrameNames
  BY DEF Nearest, FrameNames
<1>2. ASSUME NEW f \in FrameNames, NEW v \in Values, NEW k \in BOOLEAN,
             DefineBegin(f, v, k)
      PROVE  BinderInv'
  <2>1. Nearest' = Nearest
    BY <1>2 DEF DefineBegin, Nearest
  <2>2. /\ binder'.at = (IF binding[f] # Absent THEN "value" ELSE "create")
        /\ binder'.frame = f /\ binder'.old = Lookup /\ binder'.was = binding[f].constant
        /\ binder'.new = (IF f = "global" /\ BoundIn("inner") THEN Lookup ELSE v)
        /\ binder'.value = v /\ binding' = binding
    BY <1>2 DEF DefineBegin
  <2>3. f = Nearest => binder'.new = v /\ binding[f].value = Lookup
    BY <2>2 DEF Nearest, Lookup
  <2>4. binding[f] = Absent => ~binding[f].constant
    BY DEF Absent
  <2> QED
    BY <2>1, <2>2, <2>3, <2>4
<1>3. CASE DefineCreate
  <2>1. /\ binder.frame \in FrameNames /\ binder.at = "create" /\ binder.was = FALSE
        /\ binder'.at = "value" /\ binder'.frame = binder.frame
        /\ binder'.was = binder.was
        /\ binding'[binder.frame] = [value |-> ZEROED, constant |-> FALSE]
    BY <1>3 DEF DefineCreate
  <2>2. binding'[binder.frame] # Absent
    BY <2>1, OutcomesAssumption DEF Absent
  <2>3. binding'[binder'.frame].constant = FALSE /\ binder'.was = FALSE
    BY <2>1
  <2> HIDE DEF ClosureTyped, BinderInv
  <2> QED
    BY <2>1, <2>2, <2>3 DEF BinderInv
<1>4. CASE DefineValue
  <2>1. /\ binder.frame \in FrameNames /\ binder.at = "value"
        /\ binder' = [binder EXCEPT !.at = "flags"]
        /\ binding'[binder.frame].value = binder.value
        /\ binding'[binder.frame].constant = binding[binder.frame].constant
        /\ \A f \in FrameNames \ {binder.frame} : binding'[f] = binding[f]
        /\ binder.value \in Values
    BY <1>4 DEF DefineValue
  <2>2. binding'[binder.frame] # Absent
    BY <2>1, ClosureValuesAssumption DEF Absent
  <2>3. Nearest' = Nearest
    BY <2>1, <2>2 DEF Nearest, FrameNames
  <2> QED
    BY <2>1, <2>2, <2>3
<1>5. CASE DefineFlags
  <2>1. /\ binder.frame \in FrameNames /\ binder.at = "flags"
        /\ binder' = [binder EXCEPT !.at = "epoch"]
        /\ binding'[binder.frame].value = binding[binder.frame].value
        /\ binding'[binder.frame].constant = binder.constant
        /\ \A f \in FrameNames \ {binder.frame} : binding'[f] = binding[f]
        /\ binding[binder.frame].value = binder.value /\ binder.value \in Values
    BY <1>5 DEF DefineFlags
  <2>2. binding'[binder.frame] # Absent
    BY <2>1, ClosureValuesAssumption DEF Absent
  <2>3. Nearest' = Nearest
    BY <2>1, <2>2 DEF Nearest, FrameNames
  <2> QED
    BY <2>1, <2>2, <2>3
<1>6. CASE DefineEnd
  BY <1>6 DEF DefineEnd
<1>7. ASSUME NEW v \in Values, SetVariable(v) PROVE BinderInv'
  BY <1>7 DEF SetVariable
<1> HIDE DEF BinderInv
<1> QED
  BY <1>2, <1>3, <1>4, <1>5, <1>6, <1>7 DEF Definition

(* ... and what every application has seen.                                *)
LEMMA DefinitionSeen ==
  ASSUME Definition, ClosureTyped, SeesCurrent
  PROVE  SeesCurrent' /\ \A t \in Evaluators : visible[t] \subseteq visible'[t]
<1>1. Reveal /\ NoEvaluation
  BY DEF Definition, DefineBegin, DefineCreate, DefineValue, DefineFlags, DefineEnd,
         SetVariable
<1> QED
  BY <1>1 DEF Reveal, NoEvaluation, SeesCurrent, ClosureTyped

(* A definition that counts no epoch lets what stood stand, and a compiler *)
(* between its two reads holds nothing that does not stand when it turns   *)
(* constant.                                                               *)
StandsOn ==
  /\ Standing \subseteq Standing'
  /\ \A u \in Evaluators : epc[u] = "flags" =>
       /\ found[u] = Nearest' /\ binding'[found[u]] # Absent
       /\ binding'[found[u]].constant =>
            binding[found[u]].constant \/ fresh[u] \in Standing'

(* Every step of a definition but its last, which may count an epoch, is   *)
(* such a step.                                                            *)
LEMMA DefinitionStandsOn ==
  ASSUME ClosureTyped, ClosureTyped', BinderInv, Definition, ~raced, ~raced', EpochInv
  PROVE  \/ epoch' = epoch /\ StandsOn
         \/ epoch' = epoch + 1 /\ binding' = binding
<1>1. BindingsTyped /\ BindingsTyped' /\ Nearest \in FrameNames
  BY DEF ClosureTyped, Nearest, FrameNames
<1>2. \A u \in Evaluators : epc[u] = "flags" => found[u] = Nearest /\ BoundIn(found[u])
  BY DEF EpochInv
<1>3. binder.at # "idle" => binder \in BusyBinders /\ binder.frame \in FrameNames
  BY <1>1 DEF BindingsTyped, BusyBinders
<1>4. \A f \in FrameNames : binding[f] = Absent => ~binding[f].constant
  BY DEF Absent
<1> HIDE DEF ClosureTyped, EpochInv
<1>5. ASSUME NEW f \in FrameNames, NEW v \in Values, NEW k \in BOOLEAN,
             DefineBegin(f, v, k)
      PROVE  epoch' = epoch /\ StandsOn
  <2>1. binder.at = "idle" /\ binding' = binding /\ epoch' = epoch
    BY <1>5 DEF DefineBegin
  <2>2. Nearest' = Nearest
    BY <2>1 DEF Nearest, BoundIn
  <2>3. Standing \subseteq Standing'
    BY <2>1, <2>2 DEF Standing
  <2> QED
    BY <1>2, <2>1, <2>2, <2>3 DEF StandsOn, BoundIn
<1>6. CASE DefineCreate
  <2>1. /\ binder.at = "create" /\ epoch' = epoch /\ binder.frame \in FrameNames
        /\ ~BoundIn(binder.frame) /\ ~binder.was
        /\ binder'.at = "value" /\ binder'.frame = binder.frame /\ binder'.was = binder.was
        /\ binding'[binder.frame] = [value |-> ZEROED, constant |-> FALSE]
        /\ \A f \in FrameNames \ {binder.frame} : binding'[f] = binding[f]
    BY <1>1, <1>3, <1>6 DEF DefineCreate, BinderInv, BindingsTyped, BusyBinders
  <2>2. ~(binder.frame = "inner" /\ BoundIn("global"))
    BY <1>6 DEF DefineCreate
  <2>3. BoundIn(binder.frame)'
    BY <2>1, OutcomesAssumption DEF BoundIn, Absent
  <2>4. CASE BoundIn(Nearest)
    <3>1. Nearest' = Nearest /\ Nearest # binder.frame
      BY <2>1, <2>2, <2>4 DEF Nearest, BoundIn, FrameNames
    <3>2. binding'[Nearest] = binding[Nearest]
      BY <1>1, <2>1, <3>1
    <3>3. Standing \subseteq Standing'
      BY <2>1, <3>1, <3>2 DEF Standing
    <3> QED
      BY <1>1, <1>2, <2>1, <3>1, <3>2, <3>3 DEF StandsOn, BoundIn
  <2>5. CASE ~BoundIn(Nearest)
    <3>1. ~binding[Nearest].constant
      BY <1>1, <1>4, <2>5 DEF BoundIn
    <3>2. Standing = {LOOKUP}
      BY <2>1, <3>1 DEF Standing
    <3> QED
      BY <1>2, <2>1, <2>5, <3>2 DEF StandsOn, Standing
  <2> QED
    BY <2>4, <2>5
<1>7. CASE DefineValue
  <2>1. /\ binder.frame \in FrameNames /\ binder.at = "value" /\ epoch' = epoch
        /\ binder' = [binder EXCEPT !.at = "flags"]
        /\ binding'[binder.frame].value = binder.value
        /\ binding'[binder.frame].constant = binding[binder.frame].constant
        /\ \A f \in FrameNames \ {binder.frame} : binding'[f] = binding[f]
        /\ binder.value \in Values /\ BoundIn(binder.frame)
        /\ binding[binder.frame].constant = binder.was
        /\ (binder.was /\ binder.frame = Nearest => binding[binder.frame].value = binder.old)
    BY <1>1, <1>3, <1>7 DEF DefineValue, BinderInv, BindingsTyped, BusyBinders, Busy
  <2>2. /\ binder'.at = "flags" /\ binder'.frame = binder.frame /\ binder'.was = binder.was
        /\ binder'.old = binder.old /\ binder'.value = binder.value
    BY <1>3, <2>1 DEF BusyBinders
  <2>3. BoundIn(binder.frame)'
    BY <2>1, ClosureValuesAssumption DEF BoundIn, Absent
  <2>4. Nearest' = Nearest /\ \A f \in FrameNames : BoundIn(f)' <=> BoundIn(f)
    BY <2>1, <2>3 DEF Nearest, BoundIn, FrameNames
  <2>5. Standing \subseteq Standing'
    BY <1>1, <2>1, <2>2, <2>4 DEF Standing
  <2>6. \A f \in FrameNames : binding'[f].constant = binding[f].constant
    BY <2>1
  <2> QED
    BY <1>1, <1>2, <2>1, <2>4, <2>5, <2>6 DEF StandsOn, BoundIn
<1>8. CASE DefineFlags
  <2>1. /\ binder.frame \in FrameNames /\ binder.at = "flags" /\ epoch' = epoch
        /\ binder' = [binder EXCEPT !.at = "epoch"]
        /\ binding'[binder.frame].value = binding[binder.frame].value
        /\ binding'[binder.frame].constant = binder.constant
        /\ \A f \in FrameNames \ {binder.frame} : binding'[f] = binding[f]
        /\ binder.value \in Values /\ BoundIn(binder.frame)
        /\ binding[binder.frame].constant = binder.was
        /\ binding[binder.frame].value = binder.value
    BY <1>1, <1>3, <1>8 DEF DefineFlags, BinderInv, BindingsTyped, BusyBinders, Busy
  <2>2. /\ binder'.at = "epoch" /\ binder'.frame = binder.frame /\ binder'.was = binder.was
        /\ binder'.old = binder.old /\ binder'.value = binder.value
    BY <1>3, <2>1 DEF BusyBinders
  <2>3. BoundIn(binder.frame)'
    BY <2>1, ClosureValuesAssumption DEF BoundIn, Absent
  <2>4. Nearest' = Nearest /\ \A f \in FrameNames : BoundIn(f)' <=> BoundIn(f)
    BY <2>1, <2>3 DEF Nearest, BoundIn, FrameNames
  <2>5. Standing \subseteq Standing'
    BY <1>1, <2>1, <2>2, <2>4 DEF Standing
  <2>6. ~TurnsConstant
    BY <1>8 DEF DefineFlags
  <2>7. ASSUME NEW u \in Evaluators, epc[u] = "flags", binding'[Nearest].constant
        PROVE  binding[Nearest].constant \/ fresh[u] \in Standing'
    <3>1. CASE Nearest # binder.frame
      BY <1>1, <2>1, <2>7, <3>1
    <3>2. CASE Nearest = binder.frame /\ binder.was
      BY <2>1, <3>2
    <3>3. CASE Nearest = binder.frame /\ ~binder.was
      <4>1. fresh[u] = binder.value
        BY <1>2, <2>1, <2>6, <2>7, <3>3 DEF TurnsConstant
      <4>2. binding'[Nearest].value = binder.value
        BY <2>1, <3>3
      <4> QED
        BY <2>4, <2>7, <4>1, <4>2 DEF Standing
    <3> QED
      BY <3>1, <3>2, <3>3
  <2> QED
    BY <1>1, <1>2, <2>1, <2>4, <2>5, <2>7 DEF StandsOn, BoundIn
<1>9. CASE DefineEnd
  <2>1. CASE binder.was
    BY <1>9, <2>1 DEF DefineEnd
  <2>2. CASE ~binder.was
    <3>1. binding' = binding /\ epoch' = epoch /\ binder'.at = "idle"
      BY <1>9, <2>2 DEF DefineEnd
    <3>2. Nearest' = Nearest
      BY <3>1 DEF Nearest, BoundIn
    <3>3. Standing \subseteq Standing'
      BY <2>2, <3>1, <3>2 DEF Standing
    <3> QED
      BY <1>2, <3>1, <3>2, <3>3 DEF StandsOn, BoundIn
  <2> QED
    BY <2>1, <2>2
<1>10. ASSUME NEW v \in Values, SetVariable(v) PROVE epoch' = epoch /\ StandsOn
  <2>1. /\ binder.at = "idle" /\ epoch' = epoch /\ BoundIn(Nearest)
        /\ ~binding[Nearest].constant
        /\ binding'[Nearest].value = v
        /\ binding'[Nearest].constant = binding[Nearest].constant
        /\ \A f \in FrameNames \ {Nearest} : binding'[f] = binding[f]
    BY <1>1, <1>10 DEF SetVariable, BindingsTyped
  <2>2. BoundIn(Nearest)' /\ Nearest' = Nearest
    <3>1. binding'[Nearest] # Absent
      BY <2>1, ClosureValuesAssumption DEF Absent
    <3> QED
      BY <1>1, <2>1, <3>1 DEF Nearest, BoundIn, FrameNames
  <2>3. Standing = {LOOKUP} /\ LOOKUP \in Standing'
    BY <2>1 DEF Standing
  <2> QED
    BY <1>1, <1>2, <2>1, <2>2, <2>3 DEF StandsOn, BoundIn
<1> QED
  BY <1>5, <1>6, <1>7, <1>8, <1>9, <1>10 DEF Definition

(* So what was folded stays sound while no race is told of.                *)
LEMMA DefinitionKeepsFolds ==
  ASSUME ClosureTyped, ClosureTyped', BinderInv, Definition, ~raced, ~raced',
         EpochInv, AnswerInv,
         UNCHANGED <<closure, epc, copied, found, fresh>>,
         \A t \in Evaluators : epc[t] # "idle" => Standing' \subseteq Seen(t)',
         \A t \in Evaluators : Seen(t) \subseteq Seen(t)'
  PROVE  EpochInv' /\ AnswerInv'
<1>7. /\ epoch \in Nat /\ copied \in [Evaluators -> Nat] /\ closure.epoch \in Nat
      /\ \A u \in Evaluators : copied[u] <= epoch
      /\ closure.epoch <= epoch
  BY MaxBindsAssumption DEF ClosureTyped, ClosureTypeOK, BindingsTyped
<1>3. CASE epoch' = epoch /\ StandsOn
  <2>1. EpochInv'
    BY <1>7, <1>3 DEF EpochInv, StandsOn, BoundIn, Compiling
  <2>2. AnswerInv'
    BY <1>7, <1>3 DEF AnswerInv, StandsOn, Compiling
  <2> QED
    BY <2>1, <2>2
<1>4. CASE epoch' = epoch + 1 /\ binding' = binding
  <2>1. Nearest' = Nearest
    BY <1>4 DEF Nearest, BoundIn
  <2>2. closure.epoch # epoch' /\ \A u \in Evaluators : copied[u] # epoch'
    BY <1>7, <1>4
  <2>3. EpochInv'
    BY <1>4, <2>1, <2>2 DEF EpochInv, BoundIn, Compiling
  <2>4. AnswerInv'
    BY <1>4 DEF AnswerInv, Compiling
  <2> QED
    BY <2>3, <2>4
<1> QED
  BY <1>3, <1>4, DefinitionStandsOn

(* ... and the rest of the invariant.                                      *)
LEMMA DefinitionInv ==
  ASSUME ClosureInv, Definition
  PROVE  ClosureInv'
<1>1. ClosureTyped /\ BinderInv /\ SeesCurrent /\ (raced \/ (EpochInv /\ AnswerInv))
  BY DEF ClosureInv
<1>2. ClosureTyped' /\ BinderInv'
  BY <1>1, DefinitionTyped, DefinitionBinder
<1>3. SeesCurrent' /\ \A t \in Evaluators : visible[t] \subseteq visible'[t]
  BY <1>1, DefinitionSeen
<1>4. UNCHANGED <<closure, epc, copied, found, fresh>>
  BY DEF NoEvaluation, Definition, DefineBegin, DefineCreate, DefineValue, DefineFlags,
         DefineEnd, SetVariable
<1>5. \A t \in Evaluators : epc[t] # "idle" => Standing' \subseteq Seen(t)'
  <2>1. ASSUME NEW t \in Evaluators, epc'[t] # "idle" PROVE Standing' \subseteq Seen(t)'
    <3>1. Standing' \subseteq Current' \cup {LOOKUP}
      BY <1>2 DEF Standing, Current, Lookup, BinderInv, Busy
    <3> QED
      BY <1>3, <2>1, <3>1 DEF SeesCurrent, Seen
  <2> QED
    BY <1>4, <2>1
<1>6. \A t \in Evaluators : Seen(t) \subseteq Seen(t)'
  BY <1>3 DEF Seen
<1>7. /\ epoch \in Nat /\ copied \in [Evaluators -> Nat] /\ closure.epoch \in Nat
      /\ \A u \in Evaluators : copied[u] <= epoch
      /\ closure.epoch <= epoch
  BY <1>1, MaxBindsAssumption DEF ClosureTyped, ClosureTypeOK, BindingsTyped
<1>8. ASSUME ~raced' PROVE EpochInv' /\ AnswerInv'
  <2>h. CASE raced
    <3>1. /\ epoch' = epoch + 1
          /\ \A t \in Evaluators : epc[t] \in {"idle", "check", "copy"}
      BY <2>h, <1>1, <1>8
      DEF ClosureTyped, BindingsTyped, Definition, DefineBegin, DefineCreate, DefineValue,
          DefineFlags, DefineEnd, Recovers, SetVariable
    <3>2. closure.epoch # epoch' /\ \A u \in Evaluators : copied[u] # epoch'
      BY <1>7, <3>1
    <3>3. EpochInv'
      BY <1>4, <3>1, <3>2 DEF EpochInv, Compiling
    <3>4. AnswerInv'
      BY <1>4, <3>1 DEF AnswerInv
    <3> QED
      BY <3>3, <3>4
  <2>1. CASE ~raced
    <3>1. EpochInv /\ AnswerInv
      BY <1>1, <2>1
    <3> QED
      BY <1>4, <1>5, <1>6, <1>7, <1>1, <1>2, <1>8, <2>1, <3>1, DefinitionKeepsFolds
  <2> QED
    BY <1>1, <2>h, <2>1 DEF ClosureTyped, ClosureTypeOK
<1> QED
  BY <1>2, <1>3, <1>8 DEF ClosureInv

(* The invariant of the epoch holds in every run.                          *)
LEMMA ClosureInvariant == ClosureSpec => []ClosureInv
<1>1. ClosureInv /\ [ClosureNext]_closureVars => ClosureInv'
  <2>1. ASSUME ClosureInv, UNCHANGED closureVars PROVE ClosureInv'
    <3>1. /\ binding' = binding /\ epoch' = epoch /\ closure' = closure /\ epc' = epc
          /\ copied' = copied /\ found' = found /\ fresh' = fresh /\ binder' = binder
          /\ binds' = binds /\ visible' = visible /\ raced' = raced
      BY <2>1 DEF closureVars
    <3>2. Nearest' = Nearest /\ (\A f : BoundIn(f)' = BoundIn(f))
      BY <3>1 DEF Nearest, BoundIn
    <3>3. Standing' = Standing /\ Current' = Current
      BY <3>1, <3>2 DEF Standing, Current, Lookup
    <3>4. /\ \A u \in Evaluators : Compiling(u)' = Compiling(u)
          /\ \A u \in Evaluators : Seen(u)' = Seen(u)
      BY <3>1 DEF Compiling, Seen
    <3>5. ClosureTyped'
      BY <2>1, <3>1 DEF ClosureInv, ClosureTyped, ClosureTypeOK, BindingsTyped
    <3>6. BinderInv'
      BY <2>1, <3>1, <3>2 DEF ClosureInv, BinderInv, BoundIn, Busy
    <3>7. SeesCurrent'
      BY <2>1, <3>1, <3>3 DEF ClosureInv, SeesCurrent
    <3>t. /\ copied \in [Evaluators -> Nat] /\ closure.epoch \in Nat /\ epoch \in Nat
          /\ binding \in [FrameNames -> [value : Outcomes, constant : BOOLEAN]]
      BY <2>1 DEF ClosureInv, ClosureTyped, ClosureTypeOK, BindingsTyped
    <3>e. raced \/ (EpochInv /\ AnswerInv)
      BY <2>1 DEF ClosureInv
    <3>8. EpochInv => EpochInv'
      <4> SUFFICES ASSUME EpochInv PROVE EpochInv'
        OBVIOUS
      <4>1. closure'.epoch = epoch' => closure'.body \in Standing'
        BY <3>1, <3>3 DEF EpochInv
      <4>2. ASSUME NEW u \in Evaluators
            PROVE  /\ epc'[u] = "flags" => found'[u] = Nearest' /\ binding'[found'[u]] # Absent
                   /\ copied'[u] = epoch' =>
                        /\ epc'[u] = "flags" /\ binding'[found'[u]].constant =>
                             fresh'[u] = ZEROED \/ fresh'[u] \in Standing'
                        /\ epc'[u] = "body" => fresh'[u] \in Standing'
                        /\ epc'[u] = "epoch" => closure'.body \in Standing'
        BY <3>1, <3>2, <3>3, Zenon DEF EpochInv, BoundIn
      <4>3. ASSUME NEW u \in Evaluators, Compiling(u)' PROVE closure'.epoch <= copied'[u]
        BY <3>1, <3>4, <3>t, <4>3 DEF EpochInv
      <4>4. ASSUME NEW t \in Evaluators, NEW u \in Evaluators,
                   epc'[t] \in {"epoch", "load"}, Compiling(u)'
            PROVE  copied'[t] <= copied'[u]
        BY <3>1, <3>4, <3>t, <4>4 DEF EpochInv
      <4> QED
        BY <4>1, <4>2, <4>3, <4>4, Zenon DEF EpochInv, BoundIn
    <3>9. AnswerInv => AnswerInv'
      <4> SUFFICES ASSUME AnswerInv PROVE AnswerInv'
        OBVIOUS
      <4>1. ASSUME NEW t \in Evaluators, NEW u \in Evaluators,
                   epc'[t] \in {"find", "flags", "body", "epoch", "load"},
                   Compiling(u)', copied'[t] <= copied'[u]
            PROVE  /\ epc'[u] = "body" => fresh'[u] \in Seen(t)'
                   /\ epc'[u] = "flags" /\ binding'[found'[u]].constant =>
                        fresh'[u] = ZEROED \/ fresh'[u] \in Seen(t)'
        <5>1. Compiling(u) /\ copied[t] <= copied[u] /\ Seen(t)' = Seen(t)
          BY <3>1, <3>4, <4>1
        <5> QED
          BY <3>1, <4>1, <5>1, Zenon DEF AnswerInv
      <4>2. ASSUME NEW t \in Evaluators
            PROVE  /\ epc'[t] \in {"epoch", "load"} => closure'.body \in Seen(t)'
                   /\ epc'[t] = "run" => fresh'[t] \in Seen(t)'
        BY <3>1, <3>4 DEF AnswerInv
      <4> QED
        BY <4>1, <4>2, Zenon DEF AnswerInv
    <3> QED
      BY <3>1, <3>5, <3>6, <3>7, <3>8, <3>9, <3>e DEF ClosureInv
  <2> QED
    BY <2>1, EvaluationInv, DefinitionInv DEF ClosureNext
<1> QED
  BY <1>1, ClosureInitInv, PTL DEF ClosureSpec

(* LT_Closure_compiled_body, compile_closure and LT_Environment_bind: a    *)
(* body that was folded is run only while what it was folded from stands,  *)
(* for any number of threads, values and definitions, but for what the     *)
(* three schedules that raced tells leave behind, until the next counted   *)
(* change.                                                                 *)
THEOREM AnswersStayCurrent == ClosureSpec => []AnswersAreCurrent
<1>1. ClosureInv => AnswersAreCurrent
  <2> SUFFICES ASSUME ClosureInv, NEW t \in Evaluators, epc[t] = "run", ~raced
               PROVE  Answer(t) \in visible[t]
    BY DEF AnswersAreCurrent
  <2>1. Lookup \in visible[t]
    BY DEF ClosureInv, SeesCurrent, Current
  <2>2. fresh[t] = LOOKUP \/ fresh[t] \in visible[t]
    BY DEF ClosureInv, AnswerInv, Seen
  <2> QED
    BY <2>1, <2>2 DEF Answer
<1> QED
  BY <1>1, ClosureInvariant, PTL

(* Every variable of the closure and of the definition keeps its type, and *)
(* the epoch counts no more than the definitions.                          *)
THEOREM ClosureTypes == ClosureSpec => []ClosureTypeOK
<1>1. ClosureInv => ClosureTypeOK
  BY DEF ClosureInv, ClosureTyped
<1> QED
  BY <1>1, ClosureInvariant, PTL

-----------------------------------------------------------------------------
(* Package.c and Symbol.c: the invariant of the symbols of one name.       *)

(* A package that has the symbol made it, once, and is its home.           *)
OwnSymbol(p) == IF symbols[p] = NoSym THEN made[p] = 0
                ELSE made[p] = 1 /\ symbols[p].home = p

PackageInv == PackageTypeOK /\ \A p \in PackageNames : OwnSymbol(p)

(* The packages the program starts with have not made the symbol yet.      *)
LEMMA PackageInitInv == PackageInit => PackageInv
<1> SUFFICES ASSUME PackageInit PROVE PackageInv
  OBVIOUS
<1> USE PackagesAssumption, MaxCallsAssumption, NoSymAssumption
<1>1. \A p \in PackageNames : uses[p] \in Seq(PackageNames)
  BY DEF PackageInit
<1>2. uses \in [PackageNames -> Seq(PackageNames)]
  BY <1>1 DEF PackageInit
<1>3. call \in [Readers -> PackageCalls]
  BY DEF PackageInit, PackageCalls
<1>4. PackageTypeOK
  BY <1>2, <1>3 DEF PackageInit, PackageTypeOK
<1> QED
  BY <1>4 DEF PackageInit, PackageInv, OwnSymbol

(* A step within a call moves only the thread's call, to one of its type.  *)
LEMMA CallMoves ==
  ASSUME NEW t \in Readers, PackageTypeOK, NEW c \in PackageCalls,
         Proceed(t, c) \/ Begin(t, c)
  PROVE  call' \in [Readers -> PackageCalls] /\ calls' \in 0..MaxCalls
<1>1. call' = [call EXCEPT ![t] = c]
  BY DEF Proceed, Begin
<1>2. call' \in [Readers -> PackageCalls]
  BY <1>1 DEF PackageTypeOK
<1>3. calls' = calls \/ (calls < MaxCalls /\ calls' = calls + 1)
  BY DEF Proceed, Begin
<1>4. calls \in 0..MaxCalls
  BY DEF PackageTypeOK
<1>5. calls' \in 0..MaxCalls
  BY <1>3, <1>4, MaxCallsAssumption
<1> QED
  BY <1>2, <1>5

(* The types of the fields of a call, by the step it is about to take.     *)
LEMMA CallFields ==
  ASSUME PackageTypeOK, NEW t \in Readers
  PROVE  /\ call[t].at = "scan" =>
              call[t] \in [at : {"scan"}, cur : PackageNames, rest : Seq(PackageNames),
                           found : Symbols \cup {NoSym}]
         /\ call[t].at \in {"intern", "new"} =>
              call[t] \in [at : {"intern", "new"}, cur : PackageNames]
         /\ call[t].at = "use" =>
              call[t] \in [at : {"use"}, cur : PackageNames, rest : Seq(PackageNames)]
         /\ call[t].at \in {"publish", "fill", "take", "export", "unexport"} =>
              call[t] \in [at : {"publish", "fill", "take", "export", "unexport"},
                           op : {"export", "unexport"}, cur : PackageNames,
                           sym : Symbols, table : TableIds \cup {NoTable}]
         /\ call[t].at = "nickname" =>
              call[t] \in [at : {"nickname"}, cur : PackageNames, used : PackageNames,
                           name : PackageNames]
<1>1. call[t] \in PackageCalls
  BY DEF PackageTypeOK
<1>2. Idle.at = "idle"
  BY DEF Idle
<1> QED
  BY <1>1, <1>2 DEF PackageCalls

(* What interning in a package does to the symbols keeps each package's    *)
(* own.                                                                    *)
LEMMA InternLocalKeeps ==
  ASSUME PackageInv, NEW p, InternLocal(p)
  PROVE  /\ symbols' \in [PackageNames -> Symbols \cup {NoSym}]
         /\ made' \in [PackageNames -> 0..2]
         /\ \A q \in PackageNames : OwnSymbol(q)'
<1> USE NoSymAssumption DEF PackageInv, PackageTypeOK
<1>1. CASE symbols[p] # NoSym
  BY <1>1 DEF InternLocal, KeepSymbols, OwnSymbol
<1>2. CASE symbols[p] = NoSym
  <2>1. symbols' = [symbols EXCEPT ![p] = [home |-> p, serial |-> made[p] + 1]]
    BY <1>2 DEF InternLocal
  <2>2. made' = [made EXCEPT ![p] = @ + 1]
    BY <1>2 DEF InternLocal
  <2>3. p \in PackageNames => made[p] = 0
    BY <1>2 DEF OwnSymbol
  <2>4. p \in PackageNames => [home |-> p, serial |-> made[p] + 1] \in Symbols
    BY <2>3 DEF Symbols
  <2>5. symbols' \in [PackageNames -> Symbols \cup {NoSym}]
    BY <2>1, <2>4
  <2>6. made' \in [PackageNames -> 0..2]
    <3>1. CASE p \in PackageNames
      BY <2>2, <2>3, <3>1
    <3>2. CASE p \notin PackageNames
      BY <2>2, <3>2
    <3> QED
      BY <3>1, <3>2
  <2>7. ASSUME NEW q \in PackageNames PROVE OwnSymbol(q)'
    <3>1. CASE q = p
      <4>1. symbols'[q] = [home |-> p, serial |-> made[p] + 1]
        BY <2>1, <3>1
      <4>2. symbols'[q] # NoSym
        BY <4>1, <3>1, <2>4
      <4>3. made'[q] = 1
        BY <2>2, <2>3, <3>1
      <4>4. symbols'[q].home = q
        BY <4>1, <3>1
      <4> QED
        BY <4>2, <4>3, <4>4 DEF OwnSymbol
    <3>2. CASE q # p
      BY <2>1, <2>2, <3>2 DEF OwnSymbol
    <3> QED
      BY <3>1, <3>2
  <2> QED
    BY <2>5, <2>6, <2>7
<1> QED
  BY <1>1, <1>2

(* Each step of a call that is in progress keeps the invariant.            *)
LEMMA ProgressKeeps ==
  ASSUME PackageInv, NEW t \in Readers,
         \/ ScanUsed(t) \/ ScanEnd(t) \/ Intern(t) \/ NewUsesListTalk(t)
         \/ PublishTable(t) \/ FillTable(t) \/ TakeTable(t) \/ ExportPut(t)
         \/ Unexport(t) \/ UseEnd(t) \/ NicknameEnd(t)
  PROVE  PackageInv'
<1> DEFINE c == call[t]
<1>0. PackageTypeOK /\ \A p \in PackageNames : OwnSymbol(p)
  BY DEF PackageInv
<1>t. ASSUME KeepSymbols PROVE /\ \A p \in PackageNames : OwnSymbol(p)'
                               /\ symbols' \in [PackageNames -> Symbols \cup {NoSym}]
                               /\ made' \in [PackageNames -> 0..2]
  BY <1>t, <1>0 DEF KeepSymbols, OwnSymbol, PackageTypeOK
<1>i. Idle \in PackageCalls
  BY DEF PackageCalls
<1>m. ASSUME NEW d \in PackageCalls, Proceed(t, d)
      PROVE call' \in [Readers -> PackageCalls] /\ calls' \in 0..MaxCalls
  BY <1>0, <1>m, CallMoves
<1>r. ASSUME Return(t)
      PROVE call' \in [Readers -> PackageCalls] /\ calls' \in 0..MaxCalls
  BY <1>r, <1>i, <1>m DEF Return
<1>1. ASSUME ScanUsed(t) PROVE PackageInv'
  <2>1. c \in [at : {"scan"}, cur : PackageNames, rest : Seq(PackageNames),
               found : Symbols \cup {NoSym}]
    BY <1>1, <1>0, CallFields DEF ScanUsed
  <2> DEFINE s == LookupExported(Head(c.rest))
  <2>2. s \in Symbols \cup {NoSym}
    <3>1. Head(c.rest) \in PackageNames
      BY <2>1, <1>1 DEF ScanUsed
    <3> QED
      BY <3>1, <1>0 DEF LookupExported, PackageTypeOK
  <2>3. [c EXCEPT !.rest = Tail(@), !.found = IF s # NoSym THEN s ELSE @] \in PackageCalls
    <3>1. c.rest \in Seq(PackageNames) /\ c.rest # <<>>
      BY <2>1, <1>1 DEF ScanUsed
    <3>2. Tail(c.rest) \in Seq(PackageNames)
      BY <3>1
    <3>3. (IF s # NoSym THEN s ELSE c.found) \in Symbols \cup {NoSym}
      BY <2>1, <2>2
    <3> HIDE DEF s
    <3>4. [c EXCEPT !.rest = Tail(@), !.found = IF s # NoSym THEN s ELSE @]
            \in [at : {"scan"}, cur : PackageNames, rest : Seq(PackageNames),
                 found : Symbols \cup {NoSym}]
      BY <2>1, <3>2, <3>3
    <3> QED
      BY <3>4 DEF PackageCalls
  <2>4. call' \in [Readers -> PackageCalls] /\ calls' \in 0..MaxCalls
    BY <1>1, <1>r, <1>m, <2>3 DEF ScanUsed
  <2> QED
    BY <1>0, <1>1, <1>t, <2>4
    DEF ScanUsed, KeepExports, KeepUses, PackageInv, PackageTypeOK
<1>2. ASSUME ScanEnd(t) PROVE PackageInv'
  <2>1. [at |-> "intern", cur |-> c.cur] \in PackageCalls
    BY <1>2, <1>0, CallFields DEF ScanEnd, PackageCalls
  <2>2. call' \in [Readers -> PackageCalls] /\ calls' \in 0..MaxCalls
    BY <1>2, <1>r, <1>m, <2>1 DEF ScanEnd
  <2> QED
    BY <1>0, <1>2, <1>t, <2>2
    DEF ScanEnd, KeepExports, KeepUses, PackageInv, PackageTypeOK
<1>3. ASSUME Intern(t) PROVE PackageInv'
  <2>1. call' \in [Readers -> PackageCalls] /\ calls' \in 0..MaxCalls
    BY <1>3, <1>r DEF Intern
  <2>2. /\ symbols' \in [PackageNames -> Symbols \cup {NoSym}]
        /\ made' \in [PackageNames -> 0..2]
        /\ \A q \in PackageNames : OwnSymbol(q)'
    BY <1>3, InternLocalKeeps DEF Intern
  <2> QED
    BY <1>0, <1>3, <2>1, <2>2
    DEF Intern, KeepExports, KeepUses, PackageInv, PackageTypeOK
<1>4. ASSUME NewUsesListTalk(t) PROVE PackageInv'
  <2>1. c.cur \in PackageNames
    BY <1>4, <1>0, CallFields DEF NewUsesListTalk
  <2>2. [at |-> "intern", cur |-> c.cur] \in PackageCalls
    BY <2>1 DEF PackageCalls
  <2>3. call' \in [Readers -> PackageCalls] /\ calls' \in 0..MaxCalls
    BY <1>4, <1>m, <2>2 DEF NewUsesListTalk
  <2>4. <<LISTTALK>> \o uses[c.cur] \in Seq(PackageNames)
    BY <2>1, <1>0, PackagesAssumption DEF PackageTypeOK
  <2>5. uses' \in [PackageNames -> Seq(PackageNames)]
    BY <2>1, <2>4, <1>0, <1>4 DEF NewUsesListTalk, PackageTypeOK
  <2> QED
    BY <1>0, <1>4, <1>t, <2>3, <2>5
    DEF NewUsesListTalk, KeepExports, PackageInv, PackageTypeOK
<1>e. ASSUME c.at \in {"publish", "fill", "take", "export", "unexport"}
      PROVE  c \in [at : {"publish", "fill", "take", "export", "unexport"},
                    op : {"export", "unexport"}, cur : PackageNames,
                    sym : Symbols, table : TableIds \cup {NoTable}]
  BY <1>e, <1>0, CallFields
<1>5. ASSUME PublishTable(t) PROVE PackageInv'
  <2>1. c \in [at : {"publish", "fill", "take", "export", "unexport"},
               op : {"export", "unexport"}, cur : PackageNames,
               sym : Symbols, table : TableIds \cup {NoTable}]
    BY <1>5, <1>e DEF PublishTable
  <2>2. <<c.cur, t>> \in TableIds
    BY <2>1 DEF TableIds
  <2>3. [c EXCEPT !.table = <<c.cur, t>>, !.at = IF c.op = "unexport" THEN "fill" ELSE "take"]
          \in PackageCalls
    BY <2>1, <2>2 DEF PackageCalls
  <2>4. call' \in [Readers -> PackageCalls] /\ calls' \in 0..MaxCalls
    BY <1>5, <1>m, <2>3 DEF PublishTable
  <2>5. exported' \in [PackageNames -> TableIds \cup {NoTable}]
    BY <1>0, <1>5, <2>2 DEF PublishTable, PackageTypeOK
  <2> QED
    BY <1>0, <1>5, <1>t, <2>4, <2>5
    DEF PublishTable, KeepUses, PackageInv, PackageTypeOK
<1>6. ASSUME FillTable(t) PROVE PackageInv'
  <2>1. c \in [at : {"publish", "fill", "take", "export", "unexport"},
               op : {"export", "unexport"}, cur : PackageNames,
               sym : Symbols, table : TableIds \cup {NoTable}]
    BY <1>6, <1>e DEF FillTable
  <2>2. [c EXCEPT !.at = "take"] \in PackageCalls
    BY <2>1 DEF PackageCalls
  <2>3. call' \in [Readers -> PackageCalls] /\ calls' \in 0..MaxCalls
    BY <1>6, <1>m, <2>2 DEF FillTable
  <2>4. symbols[c.cur] \in Symbols \cup {NoSym}
    BY <1>0, <2>1 DEF PackageTypeOK
  <2>5. tables' \in [TableIds -> Symbols \cup {NoSym}]
    BY <1>0, <1>6, <2>4 DEF FillTable, PackageTypeOK
  <2> QED
    BY <1>0, <1>6, <1>t, <2>3, <2>5
    DEF FillTable, KeepUses, PackageInv, PackageTypeOK
<1>7. ASSUME ExportPut(t) PROVE PackageInv'
  <2>1. c.sym \in Symbols
    BY <1>7, <1>e DEF ExportPut
  <2>2. tables' \in [TableIds -> Symbols \cup {NoSym}]
    BY <1>0, <1>7, <2>1 DEF ExportPut, PackageTypeOK
  <2>3. call' \in [Readers -> PackageCalls] /\ calls' \in 0..MaxCalls
    BY <1>7, <1>r DEF ExportPut
  <2> QED
    BY <1>0, <1>7, <1>t, <2>2, <2>3
    DEF ExportPut, KeepUses, PackageInv, PackageTypeOK
<1>8. ASSUME Unexport(t) PROVE PackageInv'
  <2>1. tables' \in [TableIds -> Symbols \cup {NoSym}]
    BY <1>0, <1>8 DEF Unexport, PackageTypeOK
  <2>2. call' \in [Readers -> PackageCalls] /\ calls' \in 0..MaxCalls
    BY <1>8, <1>r DEF Unexport
  <2> QED
    BY <1>0, <1>8, <1>t, <2>1, <2>2
    DEF Unexport, KeepUses, PackageInv, PackageTypeOK
<1>9. ASSUME UseEnd(t) PROVE PackageInv'
  <2>1. c.rest \in Seq(PackageNames)
    BY <1>9, <1>0, CallFields DEF UseEnd
  <2>2. uses' \in [PackageNames -> Seq(PackageNames)]
    BY <1>0, <1>9, <2>1 DEF UseEnd, PackageTypeOK
  <2>3. call' \in [Readers -> PackageCalls] /\ calls' \in 0..MaxCalls
    BY <1>9, <1>r DEF UseEnd
  <2> QED
    BY <1>0, <1>9, <1>t, <2>2, <2>3
    DEF UseEnd, KeepExports, PackageInv, PackageTypeOK
<1>10. ASSUME TakeTable(t) PROVE PackageInv'
  <2>1. c \in [at : {"publish", "fill", "take", "export", "unexport"},
               op : {"export", "unexport"}, cur : PackageNames,
               sym : Symbols, table : TableIds \cup {NoTable}]
    BY <1>10, <1>e DEF TakeTable
  <2>2. exported[c.cur] \in TableIds \cup {NoTable}
    BY <1>0, <2>1 DEF PackageTypeOK
  <2>3. [c EXCEPT !.table = exported[c.cur], !.at = c.op] \in PackageCalls
    BY <2>1, <2>2 DEF PackageCalls
  <2>4. call' \in [Readers -> PackageCalls] /\ calls' \in 0..MaxCalls
    BY <1>10, <1>m, <2>3 DEF TakeTable
  <2> QED
    BY <1>0, <1>10, <1>t, <2>4
    DEF TakeTable, KeepExports, KeepUses, PackageInv, PackageTypeOK
<1>11. ASSUME NicknameEnd(t) PROVE PackageInv'
  <2>1. c \in [at : {"nickname"}, cur : PackageNames, used : PackageNames,
               name : PackageNames]
    BY <1>11, <1>0, CallFields DEF NicknameEnd
  <2>2. nicknames' \in [PackageNames -> [PackageNames -> PackageNames \cup {NoPackage}]]
    BY <1>0, <1>11, <2>1 DEF NicknameEnd, PackageTypeOK
  <2>3. call' \in [Readers -> PackageCalls] /\ calls' \in 0..MaxCalls
    BY <1>11, <1>r DEF NicknameEnd
  <2> QED
    BY <1>0, <1>11, <1>t, <2>2, <2>3
    DEF NicknameEnd, KeepExports, PackageInv, PackageTypeOK
<1> QED
  BY <1>1, <1>2, <1>3, <1>4, <1>5, <1>6, <1>7, <1>8, <1>9, <1>10, <1>11

(* So does each step that begins a call.                                   *)
LEMMA BeginningKeeps ==
  ASSUME PackageInv, NEW t \in Readers, NEW p \in PackageNames,
         \/ ReadToken(t, p)
         \/ \E s \in Symbols, op \in {"export", "unexport"} : ExportBegin(t, p, s, op)
         \/ \E q \in PackageNames :
              \/ ReadQualified(t, p, q) \/ UseBegin(t, p, q)
              \/ \E n \in PackageNames : UseNickname(t, p, q, n)
  PROVE  PackageInv'
<1>0. PackageTypeOK /\ \A q \in PackageNames : OwnSymbol(q)
  BY DEF PackageInv
<1>t. ASSUME KeepSymbols PROVE /\ \A q \in PackageNames : OwnSymbol(q)'
                               /\ symbols' \in [PackageNames -> Symbols \cup {NoSym}]
                               /\ made' \in [PackageNames -> 0..2]
  BY <1>t, <1>0 DEF KeepSymbols, OwnSymbol, PackageTypeOK
<1>b. ASSUME NEW d \in PackageCalls, Begin(t, d)
      PROVE call' \in [Readers -> PackageCalls] /\ calls' \in 0..MaxCalls
  BY <1>0, <1>b, CallMoves
<1>1. ASSUME ReadToken(t, p) PROVE PackageInv'
  <2>1. [at |-> "scan", cur |-> p, rest |-> uses[p], found |-> NoSym] \in PackageCalls
    BY <1>0 DEF PackageTypeOK, PackageCalls
  <2>2. call' \in [Readers -> PackageCalls] /\ calls' \in 0..MaxCalls
    BY <1>1, <1>b, <2>1 DEF ReadToken
  <2> QED
    BY <1>0, <1>1, <1>t, <2>2
    DEF ReadToken, KeepExports, KeepUses, PackageInv, PackageTypeOK
<1>2. ASSUME NEW s \in Symbols, NEW op \in {"export", "unexport"}, ExportBegin(t, p, s, op)
      PROVE PackageInv'
  <2>1. [at |-> IF exported[p] = NoTable THEN "publish" ELSE "take",
         op |-> op, cur |-> p, sym |-> s, table |-> NoTable] \in PackageCalls
    BY <1>0 DEF PackageTypeOK, PackageCalls
  <2>2. call' \in [Readers -> PackageCalls] /\ calls' \in 0..MaxCalls
    BY <1>2, <1>b, <2>1 DEF ExportBegin
  <2> QED
    BY <1>0, <1>2, <1>t, <2>2
    DEF ExportBegin, KeepExports, KeepUses, PackageInv, PackageTypeOK
<1>3. ASSUME NEW n \in PackageNames, ReadQualified(t, p, n) PROVE PackageInv'
  <2> DEFINE r == ResolveName(p, n)
  <2>1. r \in PackageNames
    BY <1>0 DEF PackageTypeOK, ResolveName
  <2>2. [at |-> IF r \in exists THEN "intern" ELSE "new", cur |-> r] \in PackageCalls
    BY <2>1 DEF PackageCalls
  <2>3. call' \in [Readers -> PackageCalls] /\ calls' \in 0..MaxCalls
    BY <1>3, <1>b, <2>2 DEF ReadQualified
  <2>4. exists' \subseteq PackageNames
    BY <1>0, <1>3, <2>1 DEF ReadQualified, PackageTypeOK
  <2> QED
    BY <1>0, <1>3, <1>t, <2>3, <2>4
    DEF ReadQualified, KeepExports, KeepUses, PackageInv, PackageTypeOK
<1>4. ASSUME NEW q \in PackageNames, UseBegin(t, p, q) PROVE PackageInv'
  <2>1. <<q>> \o uses[p] \in Seq(PackageNames)
    BY <1>0 DEF PackageTypeOK
  <2>2. [at |-> "use", cur |-> p, rest |-> <<q>> \o uses[p]] \in PackageCalls
    BY <2>1 DEF PackageCalls
  <2>3. call' \in [Readers -> PackageCalls] /\ calls' \in 0..MaxCalls
    BY <1>4, <1>b, <2>2 DEF UseBegin
  <2> QED
    BY <1>0, <1>4, <1>t, <2>3
    DEF UseBegin, KeepExports, KeepUses, PackageInv, PackageTypeOK
<1>5. ASSUME NEW q \in PackageNames, NEW n \in PackageNames, UseNickname(t, p, q, n)
      PROVE PackageInv'
  <2>1. [at |-> "nickname", cur |-> p, used |-> q, name |-> n] \in PackageCalls
    BY DEF PackageCalls
  <2>2. call' \in [Readers -> PackageCalls] /\ calls' \in 0..MaxCalls
    BY <1>5, <1>b, <2>1 DEF UseNickname
  <2> QED
    BY <1>0, <1>5, <1>t, <2>2
    DEF UseNickname, KeepExports, KeepUses, PackageInv, PackageTypeOK
<1> QED
  BY <1>1, <1>2, <1>3, <1>4, <1>5

(* No step of any thread breaks the invariant.                             *)
LEMMA PackageStepInv == PackageInv /\ [PackageNext]_packageVars => PackageInv'
<1> SUFFICES ASSUME PackageInv, [PackageNext]_packageVars PROVE PackageInv'
  OBVIOUS
<1>1. CASE PackageNext
  <2>1. PICK t \in Readers :
          \/ \/ ScanUsed(t) \/ ScanEnd(t) \/ Intern(t) \/ NewUsesListTalk(t)
             \/ PublishTable(t) \/ FillTable(t) \/ TakeTable(t) \/ ExportPut(t)
             \/ Unexport(t) \/ UseEnd(t) \/ NicknameEnd(t)
          \/ \E p \in PackageNames :
               \/ ReadToken(t, p)
               \/ \E s \in Symbols, op \in {"export", "unexport"} : ExportBegin(t, p, s, op)
               \/ \E q \in PackageNames :
                    \/ ReadQualified(t, p, q) \/ UseBegin(t, p, q)
                    \/ \E n \in PackageNames : UseNickname(t, p, q, n)
    BY <1>1, Zenon DEF PackageNext
  <2> QED
    BY <2>1, ProgressKeeps, BeginningKeeps
<1>2. CASE UNCHANGED packageVars
  BY <1>2 DEF packageVars, PackageInv, PackageTypeOK, OwnSymbol
<1> QED
  BY <1>1, <1>2

(* A symbol that is printed is read back: printed bare it is the current   *)
(* package's own, or one that a used package exports, and then the reader  *)
(* finds it among the exports of the used packages.                        *)
LEMMA PrintsBack == PackageInv => PrintedSymbolReadsBack
<1> SUFFICES ASSUME PackageInv, NEW cur \in exists, NEW p \in PackageNames,
                    symbols[p] # NoSym
             PROVE  IF PrintedBare(cur, symbols[p]) THEN ReadBare(cur) \in {symbols[p], AMBIGUOUS}
                    ELSE \/ symbols[ResolveName(cur, p)] = symbols[p]
                         \/ nicknames[cur][p] \notin {NoPackage, p}
  BY DEF PrintedSymbolReadsBack
<1> DEFINE s == symbols[p]
           inherited == {LookupExported(q) : q \in Using(cur)} \ {NoSym}
<1>1. s.home = p
  BY DEF PackageInv, OwnSymbol
<1>2. ASSUME PrintedBare(cur, s) PROVE ReadBare(cur) \in {s, AMBIGUOUS}
  <2>1. CASE s.home = cur
    BY <1>1, <2>1 DEF ReadBare
  <2>2. CASE p \in Using(cur) /\ IsExported(p, s) /\ symbols[cur] = NoSym
    <3>1. s \in inherited
      BY <2>2 DEF IsExported
    <3>2. inherited # {}
      BY <3>1
    <3>3. CASE \E x \in inherited : inherited = {x}
      <4>1. (CHOOSE x \in inherited : TRUE) = s
        BY <3>1, <3>3
      <4>2. ReadBare(cur) = CHOOSE x \in inherited : TRUE
        BY <2>2, <3>2, <3>3 DEF ReadBare
      <4> QED
        BY <4>1, <4>2
    <3>4. CASE ~ \E x \in inherited : inherited = {x}
      BY <2>2, <3>2, <3>4 DEF ReadBare
    <3> QED
      BY <3>3, <3>4
  <2> QED
    BY <1>1, <1>2, <2>1, <2>2 DEF PrintedBare
<1>3. ASSUME ~PrintedBare(cur, s)
      PROVE  \/ symbols[ResolveName(cur, p)] = s
             \/ nicknames[cur][p] \notin {NoPackage, p}
  BY DEF ResolveName
<1> QED
  BY <1>2, <1>3

(* Package.c and Symbol.c: a package makes one symbol of a name, and a     *)
(* printed symbol reads back as itself, for any number of threads and      *)
(* packages and whatever they export, unexport, use and nickname at the    *)
(* same time.                                                              *)
THEOREM SymbolsStaySound == PackageSpec => []SymbolsSound
<1>1. PackageInit => PackageInv
  BY PackageInitInv
<1>2. PackageInv /\ [PackageNext]_packageVars => PackageInv'
  BY PackageStepInv
<1>3. PackageInv => SymbolsSound
  <2>1. PackageInv => OneSymbolPerName
    BY DEF PackageInv, OwnSymbol, OneSymbolPerName
  <2> QED
    BY <2>1, PrintsBack DEF SymbolsSound
<1> QED
  BY <1>1, <1>2, <1>3, PTL DEF PackageSpec

(* The tables, the lists of used packages and the calls keep their types.  *)
THEOREM PackageTypes == PackageSpec => []PackageTypeOK
<1>1. PackageInit => PackageInv
  BY PackageInitInv
<1>2. PackageInv /\ [PackageNext]_packageVars => PackageInv'
  BY PackageStepInv
<1>3. PackageInv => PackageTypeOK
  BY DEF PackageInv
<1> QED
  BY <1>1, <1>2, <1>3, PTL DEF PackageSpec

-----------------------------------------------------------------------------
(* IdentityDictionary.c: what a chain is, how put, remove and growth       *)
(* change it, and what an iteration still has ahead.                       *)

(* A set of naturals that is not empty has a least one.  The library's     *)
(* induction over operators is out of the provers' reach; this form of it, *)
(* over sets, is not.                                                      *)
LEMMA LeastNatural ==
  ASSUME NEW T, T \subseteq Nat, T # {}
  PROVE  \E x \in T : \A y \in T : x <= y
<1> DEFINE R == OpToRel(<, Nat)
<1>1. IsWellFoundedOn(R, Nat)
  BY NatLessThanWellFounded
<1>2. \E x \in T : \A y \in T : ~ (<<y, x>> \in R)
  <2> HIDE DEF R
  <2> QED
    BY <1>1, WFMin, Zenon
<1>3. \A x, y \in Nat : <<y, x>> \in R <=> y < x
  BY DEF OpToRel
<1> HIDE DEF R
<1>4. PICK x \in T : \A y \in T : ~ (<<y, x>> \in R)
  BY <1>2
<1>5. \A y \in T : ~(y < x)
  BY <1>3, <1>4, Zenon
<1>6. \A y \in T : x <= y
  <2> TAKE y \in T
  <2>1. x \in Nat /\ y \in Nat /\ ~(y < x)
    BY <1>5
  <2> QED
    BY <2>1
<1> QED
  BY <1>6

(* The next pointers of 1..n as a function nx, 0 for none: the places met  *)
(* from one on are the least set that has it and that nx does not leave.   *)
ClosedUnder(nx, S) == \A y \in S : nx[y] \in S \cup {0}
Met(nx, e) == {x \in DOMAIN nx : \A S \in SUBSET DOMAIN nx :
                                   e \in S \cup {0} /\ ClosedUnder(nx, S) => x \in S}
Acyclic(nx) == \A y \in DOMAIN nx : y \notin Met(nx, nx[y])

(* What is met from e on: nothing from 0, and else e and what is met from  *)
(* the next on; no set that has e and is not left by nx has less.          *)
LEMMA MetFacts ==
  ASSUME NEW n \in Nat, NEW nx \in [1..n -> 0..n], NEW e \in 0..n
  PROVE  /\ Met(nx, e) \subseteq 1..n
         /\ e # 0 => e \in Met(nx, e)
         /\ e = 0 => Met(nx, e) = {}
         /\ ClosedUnder(nx, Met(nx, e))
         /\ \A S \in SUBSET (1..n) : e \in S \cup {0} /\ ClosedUnder(nx, S) => Met(nx, e) \subseteq S
         /\ e # 0 => Met(nx, e) = {e} \cup Met(nx, nx[e])
<1>0. DOMAIN nx = 1..n
  OBVIOUS
<1>1. Met(nx, e) \subseteq 1..n
  BY <1>0 DEF Met
<1>2. e # 0 => e \in Met(nx, e)
  BY <1>0 DEF Met
<1>3. \A S \in SUBSET (1..n) : e \in S \cup {0} /\ ClosedUnder(nx, S) => Met(nx, e) \subseteq S
  BY <1>0 DEF Met
<1>4. ASSUME e = 0 PROVE Met(nx, e) = {}
  <2>1. ClosedUnder(nx, {}) /\ e \in {} \cup {0}
    BY <1>4 DEF ClosedUnder
  <2> QED
    BY <2>1, <1>3
<1>5. ClosedUnder(nx, Met(nx, e))
  <2> SUFFICES ASSUME NEW y \in Met(nx, e), nx[y] # 0 PROVE nx[y] \in Met(nx, e)
    BY DEF ClosedUnder
  <2>1. y \in 1..n /\ nx[y] \in 1..n
    BY <1>1
  <2>2. ASSUME NEW S \in SUBSET DOMAIN nx, e \in S \cup {0}, ClosedUnder(nx, S) PROVE nx[y] \in S
    <3>1. y \in S
      BY <2>2 DEF Met
    <3> QED
      BY <3>1, <2>2 DEF ClosedUnder
  <2> QED
    BY <2>1, <2>2, <1>0 DEF Met
<1>6. ASSUME e # 0 PROVE Met(nx, e) = {e} \cup Met(nx, nx[e])
  <2> DEFINE y == nx[e]
  <2>1. e \in 1..n /\ y \in 0..n
    BY <1>6
  <2>2. Met(nx, y) \subseteq 1..n /\ (y # 0 => y \in Met(nx, y))
    BY <2>1, <1>0 DEF Met
  <2>3. ClosedUnder(nx, Met(nx, y))
    <3> SUFFICES ASSUME NEW z \in Met(nx, y), nx[z] # 0 PROVE nx[z] \in Met(nx, y)
      BY DEF ClosedUnder
    <3>1. z \in 1..n /\ nx[z] \in 1..n
      BY <2>2
    <3>2. ASSUME NEW S \in SUBSET DOMAIN nx, y \in S \cup {0}, ClosedUnder(nx, S) PROVE nx[z] \in S
      <4>1. z \in S
        BY <3>2 DEF Met
      <4> QED
        BY <4>1, <3>2 DEF ClosedUnder
    <3> QED
      BY <3>1, <3>2, <1>0 DEF Met
  <2>4. ClosedUnder(nx, {e} \cup Met(nx, y))
    BY <2>1, <2>2, <2>3 DEF ClosedUnder
  <2>5. Met(nx, e) \subseteq {e} \cup Met(nx, y)
    BY <2>1, <2>2, <2>4, <1>3
  <2>6. y \in Met(nx, e) \cup {0}
    BY <1>2, <1>5, <1>6 DEF ClosedUnder
  <2>7. Met(nx, y) \subseteq Met(nx, e)
    BY <2>6, <1>0, <1>1, <1>5 DEF Met
  <2> QED
    BY <2>5, <2>7, <1>2, <1>6
<1> QED
  BY <1>1, <1>2, <1>3, <1>4, <1>5, <1>6

(* Who is met has met what it meets; of two that are met one is met from   *)
(* the other on.                                                           *)
LEMMA MetOrder ==
  ASSUME NEW n \in Nat, NEW nx \in [1..n -> 0..n], NEW e \in 0..n
  PROVE  /\ \A x \in Met(nx, e) : Met(nx, x) \subseteq Met(nx, e)
         /\ \A x, y \in Met(nx, e) : x \in Met(nx, y) \/ y \in Met(nx, x)
<1>1. \A x \in Met(nx, e) : Met(nx, x) \subseteq Met(nx, e)
  <2> TAKE x \in Met(nx, e)
  <2>1. Met(nx, e) \in SUBSET (1..n) /\ ClosedUnder(nx, Met(nx, e)) /\ x \in 0..n
    BY MetFacts
  <2> QED
    BY <2>1, MetFacts
<1>2. ASSUME NEW y \in Met(nx, e), NEW x \in Met(nx, e) PROVE x \in Met(nx, y) \/ y \in Met(nx, x)
  <2> DEFINE S == {z \in 1..n : z \in Met(nx, y) \/ y \in Met(nx, z)}
  <2>1. e \in 1..n /\ y \in 1..n /\ x \in 1..n
    BY MetFacts
  <2>2. ClosedUnder(nx, S)
    <3> SUFFICES ASSUME NEW z \in S, nx[z] # 0 PROVE nx[z] \in S
      BY DEF ClosedUnder
    <3>1. z \in 1..n /\ nx[z] \in 1..n /\ z \in 0..n /\ z # 0
      OBVIOUS
    <3>2. CASE z \in Met(nx, y)
      <4>1. ClosedUnder(nx, Met(nx, y))
        BY <2>1, MetFacts
      <4>2. nx[z] \in Met(nx, y)
        BY <4>1, <3>1, <3>2 DEF ClosedUnder
      <4> QED
        BY <4>2, <3>1
    <3>3. CASE y \in Met(nx, z)
      <4>1. Met(nx, z) = {z} \cup Met(nx, nx[z])
        <5> HIDE DEF S
        <5> QED
          BY <3>1, MetFacts
      <4>2. CASE y = z
        <5>1. z \in Met(nx, y)
          BY <4>2, <3>3
        <5> QED
          BY <5>1, <3>2
      <4>3. CASE y # z
        BY <4>1, <4>3, <3>1, <3>3
      <4> QED
        BY <4>2, <4>3
    <3> QED
      BY <3>2, <3>3
  <2>3. e \in S
    BY <2>1
  <2>4. Met(nx, e) \subseteq S
    <3>1. S \in SUBSET (1..n)
      OBVIOUS
    <3> HIDE DEF S
    <3> QED
      BY <2>2, <2>3, <3>1, MetFacts
  <2> QED
    BY <2>4
<1> QED
  BY <1>1, <1>2

(* Without a cycle, two that meet each other are one.                      *)
LEMMA MetOnce ==
  ASSUME NEW n \in Nat, NEW nx \in [1..n -> 0..n], Acyclic(nx),
         NEW x \in 1..n, NEW y \in 1..n, x \in Met(nx, y), y \in Met(nx, x)
  PROVE  x = y
<1> SUFFICES ASSUME x # y PROVE FALSE
  OBVIOUS
<1>0. nx[y] \in 0..n
  OBVIOUS
<1>1. x \in Met(nx, nx[y])
  BY MetFacts
<1>2. Met(nx, x) \subseteq Met(nx, nx[y])
  BY <1>0, <1>1, MetOrder
<1> QED
  BY <1>2 DEF Acyclic

(* Nearer the end less is met.                                             *)
LEMMA MetShrinks ==
  ASSUME NEW n \in Nat, NEW nx \in [1..n -> 0..n], Acyclic(nx),
         NEW y \in 1..n, NEW x \in 0..n, x # y, x \in Met(nx, y) \/ x = nx[y]
  PROVE  /\ Cardinality(Met(nx, x)) \in Nat /\ Cardinality(Met(nx, y)) \in Nat
         /\ Cardinality(Met(nx, x)) < Cardinality(Met(nx, y))
         /\ Cardinality(Met(nx, y)) <= n
<1>0. nx[y] \in 0..n /\ y \in 0..n /\ y # 0
  OBVIOUS
<1>1. Met(nx, y) = {y} \cup Met(nx, nx[y]) /\ Met(nx, x) \subseteq 1..n /\ Met(nx, y) \subseteq 1..n
  BY <1>0, MetFacts
<1>2. x \in Met(nx, nx[y]) \/ x = nx[y]
  BY <1>1
<1>3. Met(nx, x) \subseteq Met(nx, nx[y])
  BY <1>0, <1>2, MetOrder
<1>4. y \notin Met(nx, x) /\ Met(nx, x) \subseteq Met(nx, y) /\ y \in Met(nx, y)
  BY <1>1, <1>3 DEF Acyclic
<1>5. IsFiniteSet(1..n) /\ Cardinality(1..n) = n
  BY FS_Interval
<1>6. IsFiniteSet(Met(nx, y)) /\ Cardinality(Met(nx, y)) <= n
  BY <1>1, <1>5, FS_Subset
<1>7. IsFiniteSet(Met(nx, x)) /\ Met(nx, x) # Met(nx, y)
  BY <1>4, <1>6, FS_Subset
<1>8. Cardinality(Met(nx, x)) < Cardinality(Met(nx, y))
  <2> DEFINE A == Met(nx, x)
             B == Met(nx, y)
  <2>1. A \subseteq B /\ A # B /\ IsFiniteSet(B)
    BY <1>4, <1>6, <1>7
  <2>2. Cardinality(A) \in Nat /\ Cardinality(B) \in Nat
    BY <1>6, <1>7, FS_CardinalityType
  <2> HIDE DEF A, B
  <2>3. Cardinality(A) <= Cardinality(B) /\ (Cardinality(A) = Cardinality(B) => A = B)
    BY <2>1, FS_Subset
  <2>4. Cardinality(A) < Cardinality(B)
    BY <2>1, <2>2, <2>3
  <2> QED
    BY <2>4 DEF A, B
<1> QED
  BY <1>6, <1>7, <1>8, FS_CardinalityType

(* Some of one chain have a last one and a first one.                      *)
LEMMA ChainEnds ==
  ASSUME NEW n \in Nat, NEW nx \in [1..n -> 0..n], Acyclic(nx),
         NEW e \in 0..n
  PROVE  \A Q \in SUBSET Met(nx, e) : Q # {} =>
           /\ \E l \in Q : \A q \in Q : l \in Met(nx, q)
           /\ \E f \in Q : Q \subseteq Met(nx, f)
<1> SUFFICES ASSUME NEW Q \in SUBSET Met(nx, e), Q # {}
             PROVE  /\ \E l \in Q : \A q \in Q : l \in Met(nx, q)
                    /\ \E f \in Q : Q \subseteq Met(nx, f)
  OBVIOUS
<1> DEFINE Size0(q) == Cardinality(Met(nx, q))
<1>1. Q \subseteq 1..n
  BY MetFacts
<1>2. \A x, y \in Q : x \in Met(nx, y) \/ y \in Met(nx, x)
  BY MetOrder
<1>3. \A q \in Q : q \in Met(nx, q)
  BY <1>1, MetFacts
<1>4. \A q \in Q : Size0(q) \in Nat /\ Size0(q) <= n
  <2> TAKE q \in Q
  <2>1. IsFiniteSet(1..n) /\ Cardinality(1..n) = n
    BY FS_Interval
  <2>2. Met(nx, q) \subseteq 1..n
    BY <1>1, MetFacts
  <2> QED
    BY <2>1, <2>2, FS_Subset, FS_CardinalityType
<1>5. \A x, y \in Q : x \in Met(nx, y) /\ x # y => Size0(x) < Size0(y)
  <2> SUFFICES ASSUME NEW x \in Q, NEW y \in Q, x \in Met(nx, y), x # y PROVE Size0(x) < Size0(y)
    OBVIOUS
  <2>1. x \in 0..n /\ y \in 1..n
    BY <1>1
  <2> QED
    BY <2>1, MetShrinks
<1> HIDE DEF Size0
<1>6. \E l \in Q : \A q \in Q : l \in Met(nx, q)
  <2> DEFINE T == {Size0(q) : q \in Q}
  <2>1. T \subseteq Nat /\ T # {}
    BY <1>4
  <2>2. PICK m \in T : \A y \in T : m <= y
    BY <2>1, LeastNatural
  <2>3. PICK l \in Q : m = Size0(l)
    BY <2>2
  <2>4. ASSUME NEW q \in Q, l \notin Met(nx, q) PROVE FALSE
    <3>1. q \in Met(nx, l) /\ q # l
      BY <2>4, <1>2, <1>3
    <3>2. Size0(q) < Size0(l) /\ Size0(l) <= Size0(q)
      BY <3>1, <1>5, <2>2, <2>3
    <3> QED
      BY <3>2, <1>4
  <2> QED
    BY <2>4
<1>7. \E f \in Q : Q \subseteq Met(nx, f)
  <2> DEFINE T == {n - Size0(q) : q \in Q}
  <2>1. T \subseteq Nat /\ T # {}
    BY <1>4
  <2>2. PICK m \in T : \A y \in T : m <= y
    BY <2>1, LeastNatural
  <2>3. PICK f \in Q : m = n - Size0(f)
    BY <2>2
  <2>4. ASSUME NEW q \in Q, q \notin Met(nx, f) PROVE FALSE
    <3>1. f \in Met(nx, q) /\ q # f
      BY <2>4, <1>2, <1>3
    <3>2. Size0(f) < Size0(q) /\ n - Size0(f) <= n - Size0(q)
      BY <3>1, <1>5, <2>2, <2>3
    <3> QED
      BY <3>2, <1>4
  <2> QED
    BY <2>4
<1> QED
  BY <1>6, <1>7

NextOf(es) == [e \in 1..Len(es) |-> es[e].next]

(* ChainFrom, which is computed along the pointers, is what is met.        *)
LEMMA ChainIsMet ==
  ASSUME Len(entry) \in Nat, NextOf(entry) \in [1..Len(entry) -> 0..Len(entry)], Acyclic(NextOf(entry))
  PROVE  \A e \in 0..Len(entry) : ChainFrom(e) = Met(NextOf(entry), e)
<1> DEFINE n == Len(entry)
           nx == NextOf(entry)
           Step(g) == [x \in 0..n |-> IF x = 0 THEN {} ELSE {x} \cup g[entry[x].next]]
           f == [x \in 0..n |-> Met(nx, x)]
           met == CHOOSE g : g = Step(g)
<1>0. /\ n \in Nat /\ nx \in [1..n -> 0..n] /\ Acyclic(nx)
      /\ \A x \in 1..n : entry[x].next = nx[x] /\ nx[x] \in 0..n /\ x \in 0..n /\ x # 0
      /\ 0 \in 0..n
  BY DEF NextOf
<1>1. f = Step(f)
  <2> SUFFICES ASSUME NEW x \in 0..n PROVE f[x] = Step(f)[x]
    OBVIOUS
  <2>1. CASE x = 0
    <3>1. Met(nx, 0) = {}
      BY <1>0, MetFacts
    <3> QED
      BY <2>1, <3>1
  <2>2. CASE x # 0
    <3>0. x \in 1..n
      BY <2>2, <1>0
    <3>1. Met(nx, x) = {x} \cup Met(nx, nx[x])
      BY <1>0, <3>0, MetFacts
    <3> QED
      BY <3>0, <3>1, <1>0
  <2> QED
    BY <2>1, <2>2
<1>2. met = Step(met)
  BY <1>1
<1>3. met \in [0..n -> {met[x] : x \in 0..n}] /\ \A x \in 0..n : met[x] = IF x = 0 THEN {} ELSE {x} \cup met[entry[x].next]
  BY <1>2
<1>4. \A e \in 0..n : ChainFrom(e) = met[e]
  BY DEF ChainFrom
<1> HIDE DEF met, nx, f
<1>5. \A x \in 0..n : met[x] = Met(nx, x)
  <2> DEFINE Wrong == {x \in 0..n : met[x] # Met(nx, x)}
             T == {Cardinality(Met(nx, x)) : x \in Wrong}
  <2> SUFFICES ASSUME Wrong # {} PROVE FALSE
    OBVIOUS
  <2>1. \A x \in Wrong : x \in 1..n
    <3> SUFFICES ASSUME 0 \in Wrong PROVE FALSE
      OBVIOUS
    <3>1. Met(nx, 0) = {} /\ met[0] = {}
      BY <1>0, <1>3, MetFacts
    <3> QED
      BY <3>1
  <2>2. \A x \in Wrong : Cardinality(Met(nx, x)) \in Nat
    <3> TAKE x \in Wrong
    <3>1. x \in 0..n /\ IsFiniteSet(1..n)
      BY <1>0, FS_Interval
    <3>2. Met(nx, x) \subseteq 1..n
      BY <3>1, <1>0, MetFacts
    <3> QED
      BY <3>1, <3>2, FS_Subset, FS_CardinalityType
  <2>3. PICK m \in T : \A y \in T : m <= y
    <3>1. T \subseteq Nat /\ T # {}
      BY <2>2
    <3> HIDE DEF T
    <3> QED
      BY <3>1, LeastNatural
  <2>4. PICK x \in Wrong : m = Cardinality(Met(nx, x))
    BY <2>3
  <2>5. x \in 1..n /\ x \in 0..n /\ nx[x] \in 0..n
    BY <2>1, <1>0
  <2>6. Met(nx, x) = {x} \cup Met(nx, nx[x])
    BY <2>5, <1>0, MetFacts
  <2>7. met[x] = {x} \cup met[nx[x]]
    BY <2>5, <1>0, <1>3
  <2>8. nx[x] \in Wrong
    BY <2>5, <2>6, <2>7
  <2>9. nx[x] # x
    <3>1. x \notin Met(nx, nx[x]) /\ (nx[x] # 0 => nx[x] \in Met(nx, nx[x]))
      <4>1. n \in Nat /\ nx \in [1..n -> 0..n] /\ nx[x] \in 0..n /\ x \in DOMAIN nx
        BY <2>5, <1>0
      <4>2. x \notin Met(nx, nx[x])
        BY <4>1, <1>0 DEF Acyclic
      <4>3. nx[x] # 0 => nx[x] \in Met(nx, nx[x])
        BY <4>1, MetFacts
      <4> QED
        BY <4>2, <4>3
    <3> QED
      BY <3>1, <2>5
  <2>10. Cardinality(Met(nx, nx[x])) < Cardinality(Met(nx, x))
    BY <2>5, <2>9, <1>0, MetShrinks
  <2>11. Cardinality(Met(nx, x)) <= Cardinality(Met(nx, nx[x]))
    BY <2>3, <2>4, <2>8
  <2>12. Cardinality(Met(nx, nx[x])) \in Nat /\ Cardinality(Met(nx, x)) \in Nat
    BY <2>2, <2>8
  <2> QED
    BY <2>10, <2>11, <2>12
<1> QED
  BY <1>4, <1>5 DEF nx

(* What is met depends on what is not left: a set that both orders are     *)
(* closed on and agree on is met alike.                                    *)
LEMMA MetAgree ==
  ASSUME NEW n \in Nat, NEW nx \in [1..n -> 0..n],
         NEW m \in Nat, NEW ny \in [1..m -> 0..m], NEW z \in 0..n, z \in 0..m,
         Met(nx, z) \subseteq 1..m, \A y \in Met(nx, z) : ny[y] = nx[y]
  PROVE  Met(ny, z) = Met(nx, z)
<1>1. Met(nx, z) \subseteq 1..n /\ ClosedUnder(nx, Met(nx, z)) /\ z \in Met(nx, z) \cup {0}
  BY MetFacts
<1>2. Met(nx, z) \in SUBSET (1..m) /\ ClosedUnder(ny, Met(nx, z))
  BY <1>1 DEF ClosedUnder
<1>3. Met(ny, z) \subseteq Met(nx, z)
  BY <1>1, <1>2, MetFacts
<1>4. ClosedUnder(ny, Met(ny, z)) /\ z \in Met(ny, z) \cup {0}
  BY MetFacts
<1>5. Met(ny, z) \in SUBSET (1..n) /\ ClosedUnder(nx, Met(ny, z))
  BY <1>1, <1>3, <1>4 DEF ClosedUnder
<1>6. Met(nx, z) \subseteq Met(ny, z)
  BY <1>4, <1>5, MetFacts
<1> QED
  BY <1>3, <1>6

(* A new entry in front of a chain is met before the chain; the others     *)
(* meet what they met.                                                     *)
PushedLinks(n, nx, v, ny) ==
  /\ n \in Nat /\ nx \in [1..n -> 0..n] /\ Acyclic(nx) /\ v \in 0..n
  /\ ny \in [1..(n + 1) -> 0..(n + 1)]
  /\ \A y \in 1..n : ny[y] = nx[y]
  /\ ny[n + 1] = v

(* The new entry meets itself and then the chain, the others meet what     *)
(* they met, and there is no cycle.                                        *)
LEMMA PushMet ==
  ASSUME NEW n, NEW nx, NEW v, NEW ny, PushedLinks(n, nx, v, ny)
  PROVE  /\ \A z \in 0..n : Met(ny, z) = Met(nx, z)
         /\ Met(ny, n + 1) = {n + 1} \cup Met(nx, v)
         /\ Acyclic(ny)
<1> USE DEF PushedLinks
<1>0. n + 1 \in Nat /\ n + 1 \in 0..(n + 1) /\ n + 1 # 0 /\ 0..n \subseteq 0..(n + 1) /\ 1..n \subseteq 1..(n + 1)
  OBVIOUS
<1>1. ASSUME NEW z \in 0..n PROVE Met(ny, z) = Met(nx, z)
  <2>1. Met(nx, z) \subseteq 1..n
    BY MetFacts
  <2>2. z \in 0..(n + 1) /\ Met(nx, z) \subseteq 1..(n + 1) /\ \A y \in Met(nx, z) : ny[y] = nx[y]
    BY <2>1, <1>0
  <2> QED
    BY <2>2, <1>0, MetAgree
<1>2. Met(ny, n + 1) = {n + 1} \cup Met(nx, v)
  <2>1. Met(ny, n + 1) = {n + 1} \cup Met(ny, ny[n + 1])
    BY <1>0, MetFacts
  <2> QED
    BY <2>1, <1>1
<1>3. ASSUME NEW y \in 1..(n + 1) PROVE y \notin Met(ny, ny[y])
  <2>1. CASE y = n + 1
    <3>1. Met(ny, ny[y]) = Met(nx, v) /\ Met(nx, v) \subseteq 1..n
      BY <2>1, <1>1, MetFacts
    <3> QED
      BY <2>1, <3>1
  <2>2. CASE y \in 1..n
    <3>1. nx[y] \in 0..n /\ ny[y] = nx[y]
      BY <2>2
    <3>2. Met(ny, ny[y]) = Met(nx, nx[y])
      BY <3>1, <1>1
    <3> QED
      BY <3>2, <2>2 DEF Acyclic
  <2> QED
    BY <2>1, <2>2
<1> QED
  BY <1>1, <1>2, <1>3 DEF Acyclic

(* An entry taken out of its chain is passed over by those of the chain    *)
(* that pointed at it.  Nobody else is lost to anyone, not even to whoever *)
(* stands at an entry that is out already and still points at this one.    *)
UnlinkedLinks(n, nx, v, e, ny) ==
  /\ n \in Nat /\ nx \in [1..n -> 0..n] /\ Acyclic(nx) /\ v \in 0..n /\ e \in Met(nx, v)
  /\ ny \in [1..n -> 0..n]
  /\ \A p \in 1..n : ny[p] = IF p \in Met(nx, v) /\ nx[p] = e THEN nx[e] ELSE nx[p]

(* The chain is without the entry, and whoever stands anywhere meets all   *)
(* that it met but perhaps the entry.                                      *)
LEMMA UnlinkMet ==
  ASSUME NEW n, NEW nx, NEW v, NEW e, NEW ny, UnlinkedLinks(n, nx, v, e, ny)
  PROVE  /\ \A z \in 0..n : Met(ny, z) \subseteq Met(nx, z) /\ Met(nx, z) \ {e} \subseteq Met(ny, z)
         /\ \A z \in 0..n : e \notin Met(nx, z) => Met(ny, z) = Met(nx, z)
         /\ (\E p \in Met(nx, v) : nx[p] = e) => Met(ny, v) = Met(nx, v) \ {e}
         /\ ~(\E p \in Met(nx, v) : nx[p] = e) => e = v /\ Met(ny, nx[e]) = Met(nx, v) \ {e}
         /\ Acyclic(ny)
<1> USE DEF UnlinkedLinks
<1> DEFINE B == {p \in Met(nx, v) : nx[p] = e}
<1>0. e \in 1..n /\ e \in 0..n /\ e # 0 /\ Met(nx, v) \subseteq 1..n /\ nx[e] \in 0..n
  BY MetFacts
<1>1. e \notin B /\ e \notin Met(nx, nx[e]) /\ ny[e] = nx[e] /\ nx[e] # e
  <2>1. e \notin Met(nx, nx[e])
    BY <1>0 DEF Acyclic
  <2>2. nx[e] # e
    BY <2>1, <1>0, MetFacts
  <2> QED
    BY <2>1, <2>2, <1>0
<1>2. \A p \in B : ny[p] = nx[e] /\ p \in 1..n /\ nx[p] = e
  BY <1>0
<1>3. \A p \in (1..n) \ B : ny[p] = nx[p]
  OBVIOUS
<1>s. B \subseteq 1..n /\ B \subseteq Met(nx, v) /\ \A p \in Met(nx, v) : nx[p] = e => p \in B
  BY <1>0
<1> HIDE DEF B
<1>4. ASSUME NEW z \in 0..n PROVE Met(ny, z) \subseteq Met(nx, z)
  <2>1. Met(nx, z) \in SUBSET (1..n) /\ ClosedUnder(nx, Met(nx, z)) /\ z \in Met(nx, z) \cup {0}
    BY MetFacts
  <2>2. ClosedUnder(ny, Met(nx, z))
    <3> SUFFICES ASSUME NEW y \in Met(nx, z), ny[y] # 0 PROVE ny[y] \in Met(nx, z)
      BY DEF ClosedUnder
    <3>1. CASE y \in B
      <4>1. nx[y] = e /\ ny[y] = nx[e]
        BY <3>1, <1>2
      <4>2. e \in Met(nx, z)
        BY <4>1, <2>1, <1>0 DEF ClosedUnder
      <4> QED
        BY <4>1, <4>2, <2>1 DEF ClosedUnder
    <3>2. CASE y \notin B
      BY <3>2, <1>3, <2>1 DEF ClosedUnder
    <3> QED
      BY <3>1, <3>2
  <2> QED
    BY <2>1, <2>2, MetFacts
<1>5. ASSUME NEW z \in 0..n, e \notin Met(nx, z) PROVE Met(ny, z) = Met(nx, z)
  <2>1. Met(nx, z) \subseteq 1..n /\ ClosedUnder(nx, Met(nx, z))
    BY MetFacts
  <2>2. ASSUME NEW y \in Met(nx, z) PROVE ny[y] = nx[y]
    <3>1. nx[y] # e
      BY <2>1, <1>5, <1>0 DEF ClosedUnder
    <3> QED
      BY <3>1, <1>2, <1>3, <2>1
  <2> QED
    BY <2>1, <2>2, MetAgree
<1>6. ASSUME NEW z \in 0..n PROVE Met(nx, z) \ {e} \subseteq Met(ny, z)
  <2>0. CASE e \notin Met(nx, z)
    BY <2>0, <1>5
  <2>1. CASE e \in Met(nx, z)
    <3>1. Met(ny, z) \in SUBSET (1..n) /\ ClosedUnder(ny, Met(ny, z)) /\ z \in Met(ny, z) \cup {0}
      BY MetFacts
    <3>2. nx[e] \in Met(ny, z) \cup {0}
      <4>1. CASE e \in Met(ny, z)
        BY <4>1, <3>1, <1>1 DEF ClosedUnder
      <4>2. CASE \E p \in B : p \in Met(ny, z)
        BY <4>2, <3>1, <1>2 DEF ClosedUnder
      <4>3. CASE e \notin Met(ny, z) /\ ~ \E p \in B : p \in Met(ny, z)
        <5>1. ClosedUnder(nx, Met(ny, z))
          BY <4>3, <3>1, <1>3 DEF ClosedUnder
        <5>2. Met(nx, z) \subseteq Met(ny, z)
          BY <5>1, <3>1, MetFacts
        <5> QED
          BY <5>2, <4>3, <2>1
      <4> QED
        BY <4>1, <4>2, <4>3
    <3>3. ClosedUnder(nx, Met(ny, z) \cup {e})
      <4> SUFFICES ASSUME NEW y \in Met(ny, z) \cup {e}, nx[y] # 0 PROVE nx[y] \in Met(ny, z) \cup {e}
        BY DEF ClosedUnder
      <4>1. CASE y = e
        BY <4>1, <3>2
      <4>2. CASE y \in B
        BY <4>2, <1>2
      <4>3. CASE y # e /\ y \notin B
        BY <4>3, <3>1, <1>3 DEF ClosedUnder
      <4> QED
        BY <4>1, <4>2, <4>3
    <3>4. Met(ny, z) \cup {e} \in SUBSET (1..n)
      BY <3>1, <1>0
    <3>5. Met(nx, z) \subseteq Met(ny, z) \cup {e}
      <4> DEFINE S == Met(ny, z) \cup {e}
      <4>1. S \in SUBSET (1..n) /\ z \in S \cup {0} /\ ClosedUnder(nx, S)
        BY <3>1, <3>3, <3>4
      <4> HIDE DEF S
      <4>2. Met(nx, z) \subseteq S
        BY <4>1, MetFacts
      <4> QED
        BY <4>2 DEF S
    <3> QED
      BY <3>5
  <2> QED
    BY <2>0, <2>1
<1>7. ASSUME NEW p \in B PROVE Met(ny, v) = Met(nx, v) \ {e}
  <2>1. Met(nx, v) \subseteq 1..n /\ ClosedUnder(nx, Met(nx, v)) /\ v \in Met(nx, v) \cup {0} /\ p \in Met(nx, v)
    BY <1>s, MetFacts
  <2>2. v # e
    <3> SUFFICES ASSUME v = e PROVE FALSE
      OBVIOUS
    <3>1. p \in 1..n /\ nx[p] = e /\ p \in Met(nx, nx[p])
      BY <2>1, <1>2
    <3> QED
      BY <3>1 DEF Acyclic
  <2>3. ClosedUnder(ny, Met(nx, v) \ {e})
    <3> SUFFICES ASSUME NEW y \in Met(nx, v), y # e, ny[y] # 0 PROVE ny[y] \in Met(nx, v) /\ ny[y] # e
      BY DEF ClosedUnder
    <3>1. CASE y \in B
      BY <3>1, <1>1, <1>2, <2>1, <1>0 DEF ClosedUnder
    <3>2. CASE y \notin B
      BY <3>2, <1>3, <1>s, <2>1 DEF ClosedUnder
    <3> QED
      BY <3>1, <3>2
  <2>4. Met(nx, v) \ {e} \in SUBSET (1..n) /\ v \in (Met(nx, v) \ {e}) \cup {0}
    BY <2>1, <2>2
  <2>5. Met(ny, v) \subseteq Met(nx, v) \ {e}
    <3> DEFINE S == Met(nx, v) \ {e}
    <3>1. S \in SUBSET (1..n) /\ v \in S \cup {0} /\ ClosedUnder(ny, S)
      BY <2>3, <2>4
    <3> HIDE DEF S
    <3>2. Met(ny, v) \subseteq S
      BY <3>1, MetFacts
    <3> QED
      BY <3>2 DEF S
  <2> QED
    BY <2>5, <1>6
<1>8. ASSUME B = {} PROVE e = v /\ Met(ny, nx[e]) = Met(nx, v) \ {e}
  <2>1. Met(nx, v) \subseteq 1..n /\ ClosedUnder(nx, Met(nx, v)) /\ v \in Met(nx, v) \cup {0}
    BY MetFacts
  <2>2. e = v
    <3> SUFFICES ASSUME e # v PROVE FALSE
      OBVIOUS
    <3>1. ClosedUnder(nx, Met(nx, v) \ {e})
      BY <2>1, <1>8, <1>s DEF ClosedUnder
    <3>2. Met(nx, v) \ {e} \in SUBSET (1..n) /\ v \in (Met(nx, v) \ {e}) \cup {0}
      BY <2>1
    <3>3. Met(nx, v) \subseteq Met(nx, v) \ {e}
      BY <3>1, <3>2, MetFacts
    <3> QED
      BY <3>3
  <2>3. Met(nx, e) = {e} \cup Met(nx, nx[e])
    BY <1>0, MetFacts
  <2>4. Met(ny, nx[e]) = Met(nx, nx[e])
    BY <1>0, <1>1, <1>5
  <2> QED
    BY <2>2, <2>3, <2>4, <1>1
<1>9. ASSUME NEW y \in 1..n PROVE y \notin Met(ny, ny[y])
  <2>1. CASE y \in B
    <3>1. Met(ny, ny[y]) \subseteq Met(nx, nx[e]) /\ nx[y] = e
      BY <2>1, <1>0, <1>2, <1>4
    <3>2. Met(nx, e) = {e} \cup Met(nx, nx[e])
      BY <1>0, MetFacts
    <3> QED
      BY <3>1, <3>2 DEF Acyclic
  <2>2. CASE y \notin B
    <3>1. ny[y] = nx[y] /\ nx[y] \in 0..n
      BY <2>2, <1>3
    <3>2. Met(ny, ny[y]) \subseteq Met(nx, nx[y])
      BY <3>1, <1>4
    <3> QED
      BY <3>2 DEF Acyclic
  <2> QED
    BY <2>1, <2>2
<1>10. (\E p \in Met(nx, v) : nx[p] = e) => \E p \in B : TRUE
  BY <1>s
<1>11. (\E p \in B : TRUE) => (\E p \in Met(nx, v) : nx[p] = e)
  BY <1>s, <1>2
<1>12. Acyclic(ny)
  BY <1>9 DEF Acyclic
<1>13. (\E p \in Met(nx, v) : nx[p] = e) => Met(ny, v) = Met(nx, v) \ {e}
  BY <1>7, <1>10
<1>14. ~(\E p \in Met(nx, v) : nx[p] = e) => e = v /\ Met(ny, nx[e]) = Met(nx, v) \ {e}
  BY <1>8, <1>11
<1> QED
  BY <1>4, <1>5, <1>6, <1>12, <1>13, <1>14

(* A chain that growth makes: the kept ones of an old chain, each now      *)
(* pointing at the one that came before it, with the last of them in       *)
(* front.  From the front all of them are met, and nothing else.           *)
GrownChain(n, nx, ny, v, K, h) ==
  /\ n \in Nat /\ nx \in [1..n -> 0..n] /\ Acyclic(nx) /\ ny \in [1..n -> 0..n]
  /\ v \in 0..n /\ K \subseteq Met(nx, v)
  /\ K = {} => h = 0
  /\ K # {} => h \in K /\ \A q \in K : h \in Met(nx, q)
  /\ \A e \in K : (~ \E x \in K : x # e /\ e \in Met(nx, x)) => ny[e] = 0
  /\ \A e \in K : (\E x \in K : x # e /\ e \in Met(nx, x)) =>
                     /\ ny[e] \in K /\ ny[e] # e /\ e \in Met(nx, ny[e])
                     /\ \A q \in K : q # e /\ e \in Met(nx, q) => ny[e] \in Met(nx, q)

(* From the front of the new chain the kept ones are met and nothing else. *)
LEMMA GrowMet ==
  ASSUME NEW n, NEW nx, NEW ny, NEW v, NEW K, NEW h, GrownChain(n, nx, ny, v, K, h)
  PROVE  /\ Met(ny, h) = K
         /\ ClosedUnder(ny, K)
         /\ \A e \in K : e \notin Met(ny, ny[e])
<1> USE DEF GrownChain
<1>0. Met(nx, v) \subseteq 1..n /\ K \subseteq 1..n
  BY MetFacts
<1>1. ClosedUnder(ny, K)
  BY DEF ClosedUnder
<1>2. h \in 0..n /\ h \in K \cup {0}
  <2>1. CASE K = {}
    BY <2>1
  <2>2. CASE K # {}
    <3>1. h \in K
      BY <2>2
    <3> QED
      BY <3>1, <1>0
  <2> QED
    BY <2>1, <2>2
<1>E. \A Q \in SUBSET Met(nx, v) : Q # {} =>
        /\ \E l \in Q : \A q \in Q : l \in Met(nx, q)
        /\ \E f \in Q : Q \subseteq Met(nx, f)
  BY ChainEnds
<1>3. Met(ny, h) \subseteq K
  BY <1>0, <1>1, <1>2, MetFacts
<1>4. \A x, y \in K : x \in Met(nx, y) \/ y \in Met(nx, x)
  BY MetOrder
<1>5. \A x, y \in K : x \in Met(nx, y) /\ y \in Met(nx, x) => x = y
  BY <1>0, MetOnce
<1>6. \A x, y, z : x \in K /\ y \in Met(nx, x) /\ z \in Met(nx, y) => z \in Met(nx, x)
  <2> TAKE x, y, z
  <2> HAVE x \in K /\ y \in Met(nx, x) /\ z \in Met(nx, y)
  <2>1. x \in 0..n
    BY <1>0
  <2>2. Met(nx, y) \subseteq Met(nx, x)
    BY <2>1, MetOrder
  <2> QED
    BY <2>2
<1>7. ASSUME NEW e \in K PROVE e \notin Met(ny, ny[e])
  <2> DEFINE S == {f \in K : f # e /\ e \in Met(nx, f)}
  <2>1. S \in SUBSET (1..n) /\ ny[e] \in S \cup {0} /\ ny[e] \in 0..n
    BY <1>0
  <2>2. ClosedUnder(ny, S)
    <3> SUFFICES ASSUME NEW f \in S, ny[f] # 0 PROVE ny[f] \in S
      BY DEF ClosedUnder
    <3>1. f \in K /\ f # e /\ e \in Met(nx, f)
      OBVIOUS
    <3>2. ny[f] \in K /\ ny[f] # f /\ f \in Met(nx, ny[f])
      BY <3>1
    <3>3. e \in Met(nx, ny[f])
      BY <3>1, <3>2, <1>6
    <3>4. ny[f] # e
      BY <3>1, <3>2, <1>5
    <3> QED
      BY <3>2, <3>3, <3>4
  <2>3. e \notin S
    OBVIOUS
  <2> HIDE DEF S
  <2>4. Met(ny, ny[e]) \subseteq S
    <3>1. n \in Nat /\ ny \in [1..n -> 0..n]
      OBVIOUS
    <3> HIDE DEF GrownChain
    <3> QED
      BY <2>1, <2>2, <3>1, MetFacts
  <2> QED
    BY <2>3, <2>4
<1>8. K \subseteq Met(ny, h)
  <2> DEFINE Q == K \ Met(ny, h)
  <2> SUFFICES ASSUME Q # {} PROVE FALSE
    OBVIOUS
  <2>1. PICK l \in Q : \A q \in Q : l \in Met(nx, q)
    <3>1. Q \in SUBSET Met(nx, v)
      OBVIOUS
    <3> HIDE DEF Q
    <3> QED
      BY <3>1, <1>E
  <2>2. l \in K /\ h \in K /\ h \in Met(nx, l) /\ h # 0
    BY <1>0
  <2>3. h \in Met(ny, h) /\ ClosedUnder(ny, Met(ny, h))
    BY <1>2, <2>2, MetFacts
  <2> DEFINE S == {x \in K : x # l /\ x \in Met(nx, l)}
  <2>4. h \in S
    BY <2>2, <2>3
  <2>5. PICK m \in S : S \subseteq Met(nx, m)
    <3>1. S \in SUBSET Met(nx, v) /\ S # {}
      BY <2>4
    <3> HIDE DEF S
    <3> QED
      BY <3>1, <1>E
  <2>6. m \in K /\ m # l /\ m \in Met(nx, l)
    OBVIOUS
  <2>7. ny[m] \in K /\ ny[m] # m /\ m \in Met(nx, ny[m]) /\ ny[m] \in Met(nx, l)
    BY <2>2, <2>6
  <2>8. ny[m] = l
    <3> SUFFICES ASSUME ny[m] # l PROVE FALSE
      OBVIOUS
    <3>1. ny[m] \in S
      BY <2>7
    <3>2. ny[m] \in Met(nx, m)
      BY <3>1, <2>5
    <3> QED
      BY <3>2, <2>6, <2>7, <1>5
  <2>9. m \in Met(ny, h)
    <3> SUFFICES ASSUME m \in Q PROVE FALSE
      BY <2>6
    <3>1. l \in Met(nx, m)
      BY <2>1
    <3> QED
      BY <3>1, <2>2, <2>6, <1>5
  <2>10. l \in Met(ny, h)
    BY <2>2, <2>3, <2>8, <2>9, <1>0 DEF ClosedUnder
  <2> QED
    BY <2>10
<1> QED
  BY <1>1, <1>3, <1>7, <1>8

(* The others keep their next, and no cycle comes of it.                   *)
LEMMA GrowAcyclic ==
  ASSUME NEW n \in Nat, NEW nx \in [1..n -> 0..n], Acyclic(nx),
         NEW ny \in [1..n -> 0..n], NEW A \in SUBSET (1..n),
         ClosedUnder(ny, A), \A e \in A : e \notin Met(ny, ny[e]),
         \A d \in (1..n) \ A : ny[d] = nx[d]
  PROVE  Acyclic(ny)
<1> SUFFICES ASSUME NEW d \in 1..n, d \notin A PROVE d \notin Met(ny, ny[d])
  BY DEF Acyclic
<1> DEFINE T == A \cup Met(nx, nx[d])
<1>1. nx[d] \in 0..n /\ ny[d] = nx[d]
  OBVIOUS
<1>2. Met(nx, nx[d]) \subseteq 1..n /\ ClosedUnder(nx, Met(nx, nx[d])) /\ nx[d] \in Met(nx, nx[d]) \cup {0}
  BY <1>1, MetFacts
<1>3. T \in SUBSET (1..n) /\ ny[d] \in T \cup {0} /\ ny[d] \in 0..n
  BY <1>1, <1>2
<1>4. ClosedUnder(ny, T)
  <2> SUFFICES ASSUME NEW y \in T, ny[y] # 0 PROVE ny[y] \in T
    BY DEF ClosedUnder
  <2>1. CASE y \in A
    BY <2>1 DEF ClosedUnder
  <2>2. CASE y \notin A
    BY <2>2, <1>2 DEF ClosedUnder
  <2> QED
    BY <2>1, <2>2
<1>5. d \notin T
  BY DEF Acyclic
<1> HIDE DEF T
<1>6. Met(ny, ny[d]) \subseteq T
  BY <1>3, <1>4, MetFacts
<1> QED
  BY <1>5, <1>6

(* A table: the links form chains without a cycle, an entry is in the      *)
(* bucket of its key, of the live ones in the table no two have one key,   *)
(* and the table counts what is in it.                                     *)
Linked(es, v) == UNION {Met(NextOf(es), v[b]) : b \in 1..Len(v)}
TableSound(es, v, c) ==
  /\ Len(es) \in Nat /\ Len(v) \in Nat /\ Len(v) # 0
  /\ \A e \in 1..Len(es) : es[e].key \in Keys /\ es[e].next \in 0..Len(es)
  /\ \A b \in 1..Len(v) : v[b] \in 0..Len(es)
  /\ Acyclic(NextOf(es))
  /\ \A b \in 1..Len(v) : \A e \in Met(NextOf(es), v[b]) : Bucket(es[e].key, Len(v)) = b
  /\ \A e, f \in Linked(es, v) : es[e].alive /\ es[f].alive /\ es[e].key = es[f].key => e = f
  /\ c = Cardinality(Linked(es, v))

(* A key has one of the buckets.                                           *)
LEMMA BucketRange ==
  ASSUME NEW k \in Nat, NEW s \in Nat, s # 0
  PROVE  Bucket(k, s) \in 1..s
<1>1. k % s \in 0..(s - 1)
  OBVIOUS
<1> QED
  BY <1>1 DEF Bucket

(* Entries are finitely many, and no more than were made.                  *)
LEMMA SubsetOfInterval ==
  ASSUME NEW n \in Nat, NEW S, S \subseteq 1..n
  PROVE  IsFiniteSet(S) /\ Cardinality(S) \in 0..n
<1>1. IsFiniteSet(1..n) /\ Cardinality(1..n) = n
  BY FS_Interval
<1>2. IsFiniteSet(S) /\ Cardinality(S) <= n
  BY <1>1, FS_Subset
<1> QED
  BY <1>2, FS_CardinalityType

(* The place of a new entry is past the others.                            *)
LEMMA Successor ==
  ASSUME NEW n \in Nat
  PROVE  /\ n + 1 \in Nat /\ 0..n \subseteq 0..(n + 1) /\ 1..(n + 1) = (1..n) \cup {n + 1}
         /\ n + 1 \in 1..(n + 1) /\ n + 1 \in 0..(n + 1) /\ n + 1 \notin 1..n
OBVIOUS

(* The links of well-formed entries are a function on them.                *)
LEMMA NextFacts ==
  ASSUME NEW es, Len(es) \in Nat, \A e \in 1..Len(es) : es[e].next \in 0..Len(es)
  PROVE  NextOf(es) \in [1..Len(es) -> 0..Len(es)] /\ \A e \in 1..Len(es) : NextOf(es)[e] = es[e].next
BY DEF NextOf

(* What a sound table says of its links, its entries and its chains.       *)
LEMMA TableFacts ==
  ASSUME NEW es, NEW v, NEW c, TableSound(es, v, c)
  PROVE  /\ NextOf(es) \in [1..Len(es) -> 0..Len(es)]
         /\ \A e \in 1..Len(es) : NextOf(es)[e] = es[e].next
         /\ Linked(es, v) \subseteq 1..Len(es)
         /\ IsFiniteSet(Linked(es, v)) /\ c \in 0..Len(es)
         /\ \A b \in 1..Len(v) : Met(NextOf(es), v[b]) = {e \in Linked(es, v) : Bucket(es[e].key, Len(v)) = b}
         /\ \A k \in Keys : Bucket(k, Len(v)) \in 1..Len(v)
<1>1. Len(es) \in Nat /\ Len(v) \in Nat /\ Len(v) # 0
  BY DEF TableSound
<1>4. NextOf(es) \in [1..Len(es) -> 0..Len(es)] /\ \A e \in 1..Len(es) : NextOf(es)[e] = es[e].next
  BY NextFacts DEF TableSound
<1>5. \A b \in 1..Len(v) : v[b] \in 0..Len(es)
  BY DEF TableSound
<1>6. \A b \in 1..Len(v) : Met(NextOf(es), v[b]) \subseteq 1..Len(es)
  BY <1>1, <1>4, <1>5, MetFacts
<1>7. Linked(es, v) \subseteq 1..Len(es)
  BY <1>6 DEF Linked
<1>9. IsFiniteSet(Linked(es, v)) /\ Cardinality(Linked(es, v)) \in 0..Len(es)
  BY <1>1, <1>7, SubsetOfInterval
<1>10. c \in 0..Len(es)
  BY <1>9 DEF TableSound
<1>11. Acyclic(NextOf(es)) /\ \A b \in 1..Len(v) : \A e \in Met(NextOf(es), v[b]) : Bucket(es[e].key, Len(v)) = b
  BY DEF TableSound
<1>12. \A b \in 1..Len(v) : Met(NextOf(es), v[b]) = {e \in Linked(es, v) : Bucket(es[e].key, Len(v)) = b}
  BY <1>11 DEF Linked
<1>13. \A k \in Keys : Bucket(k, Len(v)) \in 1..Len(v)
  BY <1>1, KeysAssumption, BucketRange
<1> QED
  BY <1>4, <1>7, <1>9, <1>10, <1>12, <1>13

(* LT_IdentityDictionary_atPut pushes a new entry of a key that no live    *)
(* one has.                                                                *)
KeyPushed(es, v, k, fs, w) ==
  /\ Len(fs) = Len(es) + 1 /\ \A e \in 1..Len(es) : fs[e] = es[e]
  /\ fs[Len(es) + 1].key = k /\ fs[Len(es) + 1].next = v[Bucket(k, Len(v))]
  /\ Len(w) = Len(v)
  /\ \A a \in 1..Len(v) : w[a] = IF a = Bucket(k, Len(v)) THEN Len(es) + 1 ELSE v[a]

(* A sound table with one more entry is sound, and from the old entries    *)
(* what was met is met.                                                    *)
LEMMA PushTable ==
  ASSUME NEW es, NEW v, NEW c, TableSound(es, v, c), NEW k \in Keys,
         \A e \in Linked(es, v) : es[e].alive => es[e].key # k,
         NEW fs, NEW w, KeyPushed(es, v, k, fs, w)
  PROVE  /\ TableSound(fs, w, c + 1)
         /\ Linked(fs, w) = Linked(es, v) \cup {Len(es) + 1}
         /\ \A z \in 0..Len(es) : Met(NextOf(fs), z) = Met(NextOf(es), z)
<1> DEFINE n == Len(es)
           b == Bucket(k, Len(v))
           nx == NextOf(es)
           ny == NextOf(fs)
<1>1. /\ n \in Nat /\ Len(v) \in Nat /\ Len(v) # 0 /\ nx \in [1..n -> 0..n] /\ Acyclic(nx)
      /\ b \in 1..Len(v) /\ v[b] \in 0..n /\ \A a \in 1..Len(v) : v[a] \in 0..n
      /\ \A e \in 1..n : es[e].key \in Keys /\ es[e].next \in 0..n /\ nx[e] = es[e].next
  BY TableFacts DEF TableSound
<1>6. Len(fs) = n + 1 /\ (\A e \in 1..n : fs[e] = es[e]) /\ fs[n + 1].key = k /\ fs[n + 1].next = v[b]
  BY DEF KeyPushed
<1>7. Len(w) = Len(v) /\ \A a \in 1..Len(v) : w[a] = IF a = b THEN n + 1 ELSE v[a]
  BY DEF KeyPushed
<1>a. /\ \A a \in 1..Len(v) : \A e \in Met(nx, v[a]) : Bucket(es[e].key, Len(v)) = a
      /\ \A e, f \in Linked(es, v) : es[e].alive /\ es[f].alive /\ es[e].key = es[f].key => e = f
      /\ c = Cardinality(Linked(es, v)) /\ IsFiniteSet(Linked(es, v)) /\ Linked(es, v) \subseteq 1..n
  BY TableFacts DEF TableSound
<1>b. b = Bucket(k, Len(v))
  OBVIOUS
<1>c. \A x : x \in Linked(es, v) <=> \E a \in 1..Len(v) : x \in Met(nx, v[a])
  BY DEF Linked
<1>d. \A x : x \in Linked(fs, w) <=> \E a \in 1..Len(v) : x \in Met(ny, w[a])
  BY <1>7 DEF Linked
<1>e. ny = [e \in 1..(n + 1) |-> fs[e].next]
  BY <1>6 DEF NextOf
<1> HIDE DEF nx, ny, b, n
<1>2. 0..n \subseteq 0..(n + 1) /\ 1..(n + 1) = (1..n) \cup {n + 1} /\ n + 1 \in 1..(n + 1) /\ n + 1 \in 0..(n + 1) /\ n + 1 \notin 1..n
      /\ n + 1 \in Nat
  BY <1>1, Successor
<1>3. \A e \in 1..(n + 1) : fs[e].key \in Keys /\ fs[e].next \in 0..(n + 1)
  BY <1>1, <1>2, <1>6
<1>8. ny \in [1..(n + 1) -> 0..(n + 1)] /\ (\A y \in 1..n : ny[y] = nx[y]) /\ ny[n + 1] = v[b]
  <2>1. ny \in [1..(n + 1) -> 0..(n + 1)]
    BY <1>e, <1>3
  <2>2. \A y \in 1..n : ny[y] = nx[y]
    BY <1>e, <1>1, <1>2, <1>6
  <2>3. ny[n + 1] = v[b]
    BY <1>e, <1>2, <1>6
  <2> QED
    BY <2>1, <2>2, <2>3
<1>9. /\ \A z \in 0..n : Met(ny, z) = Met(nx, z)
      /\ Met(ny, n + 1) = {n + 1} \cup Met(nx, v[b])
      /\ Acyclic(ny)
  <2> DEFINE u == v[b]
  <2>1. u \in 0..n /\ ny[n + 1] = u
    BY <1>1, <1>8
  <2> HIDE DEF u
  <2>2. /\ \A z \in 0..n : Met(ny, z) = Met(nx, z)
        /\ Met(ny, n + 1) = {n + 1} \cup Met(nx, u)
        /\ Acyclic(ny)
    <3>1. PushedLinks(n, nx, u, ny)
      BY <1>1, <1>8, <2>1 DEF PushedLinks
    <3> QED
      BY <3>1, PushMet
  <2> QED
    BY <2>2 DEF u
<1>11. \A a \in 1..Len(v) : Met(ny, w[a]) = IF a = b THEN {n + 1} \cup Met(nx, v[a]) ELSE Met(nx, v[a])
  BY <1>1, <1>7, <1>9
<1>12. Linked(fs, w) = Linked(es, v) \cup {n + 1}
  BY <1>c, <1>d, <1>1, <1>11
<1>13. n + 1 \notin Linked(es, v)
  BY <1>2, <1>a
<1>14. Cardinality(Linked(fs, w)) = c + 1
  BY <1>12, <1>13, <1>a, FS_AddElement
<1>15. \A a \in 1..Len(w) : \A e \in Met(ny, w[a]) : Bucket(fs[e].key, Len(w)) = a
  <2> SUFFICES ASSUME NEW a \in 1..Len(v), NEW e \in Met(ny, w[a]) PROVE Bucket(fs[e].key, Len(v)) = a
    BY <1>7
  <2>1. CASE e \in Met(nx, v[a])
    <3>1. e \in 1..n
      BY <2>1, <1>a, <1>c
    <3>2. Bucket(es[e].key, Len(v)) = a
      BY <2>1, <1>a
    <3> QED
      BY <3>1, <3>2, <1>6
  <2>2. CASE e = n + 1 /\ a = b
    BY <2>2, <1>6, <1>b
  <2> QED
    BY <2>1, <2>2, <1>11
<1>16. \A e, f \in Linked(fs, w) : fs[e].alive /\ fs[f].alive /\ fs[e].key = fs[f].key => e = f
  <2>2. \A e \in Linked(es, v) : fs[e] = es[e] /\ (es[e].alive => es[e].key # k)
    BY <1>6, <1>a
  <2> QED
    BY <2>2, <1>a, <1>6, <1>12
<1>17. \A a \in 1..Len(w) : w[a] \in 0..(n + 1)
  BY <1>1, <1>2, <1>7
<1>18. TableSound(fs, w, c + 1)
  BY <1>1, <1>2, <1>3, <1>6, <1>7, <1>9, <1>14, <1>15, <1>16, <1>17 DEF TableSound, ny
<1> QED
  BY <1>9, <1>12, <1>18 DEF nx, ny, n

(* LT_IdentityDictionary_remove takes a linked entry out of its chain.     *)
Unlinked(es, v, e, fs, w) ==
  LET b == Bucket(es[e].key, Len(v))
      before == {p \in Met(NextOf(es), v[b]) : es[p].next = e} IN
  /\ Len(fs) = Len(es) /\ Len(w) = Len(v)
  /\ \A p \in 1..Len(es) : /\ fs[p].key = es[p].key /\ fs[p].alive = es[p].alive
                           /\ fs[p].next = IF p \in before THEN es[e].next ELSE es[p].next
  /\ \A a \in 1..Len(v) : w[a] = IF a = b /\ before = {} THEN es[e].next ELSE v[a]

(* A sound table without the entry is sound, and nobody misses another.    *)
LEMMA UnlinkTable ==
  ASSUME NEW es, NEW v, NEW c, TableSound(es, v, c), NEW e \in Linked(es, v),
         NEW fs, NEW w, Unlinked(es, v, e, fs, w)
  PROVE  /\ TableSound(fs, w, c - 1)
         /\ Linked(fs, w) = Linked(es, v) \ {e}
         /\ \A z \in 0..Len(es) : /\ Met(NextOf(fs), z) \subseteq Met(NextOf(es), z)
                                  /\ Met(NextOf(es), z) \ {e} \subseteq Met(NextOf(fs), z)
<1> DEFINE n == Len(es)
           b == Bucket(es[e].key, Len(v))
           u == v[b]
           nx == NextOf(es)
           ny == NextOf(fs)
           before == {p \in Met(nx, u) : es[p].next = e}
<1>1. /\ n \in Nat /\ Len(v) \in Nat /\ Len(v) # 0 /\ nx \in [1..n -> 0..n] /\ Acyclic(nx)
      /\ \A a \in 1..Len(v) : v[a] \in 0..n
      /\ \A p \in 1..n : es[p].key \in Keys /\ es[p].next \in 0..n /\ nx[p] = es[p].next
      /\ \A a \in 1..Len(v) : Met(nx, v[a]) = {p \in Linked(es, v) : Bucket(es[p].key, Len(v)) = a}
      /\ \A k \in Keys : Bucket(k, Len(v)) \in 1..Len(v)
      /\ Linked(es, v) \subseteq 1..n /\ IsFiniteSet(Linked(es, v)) /\ c = Cardinality(Linked(es, v))
      /\ \A x, y \in Linked(es, v) : es[x].alive /\ es[y].alive /\ es[x].key = es[y].key => x = y
  BY TableFacts DEF TableSound
<1>2. e \in 1..n /\ b \in 1..Len(v) /\ u \in 0..n /\ e \in Met(nx, u) /\ es[e].next \in 0..n
  BY <1>1
<1>3. /\ Len(fs) = n /\ Len(w) = Len(v)
      /\ \A p \in 1..n : /\ fs[p].key = es[p].key /\ fs[p].alive = es[p].alive
                         /\ fs[p].next = IF p \in before THEN es[e].next ELSE es[p].next
      /\ \A a \in 1..Len(v) : w[a] = IF a = b /\ before = {} THEN es[e].next ELSE v[a]
  BY DEF Unlinked
<1>4. Met(nx, u) \subseteq 1..n /\ before \subseteq Met(nx, u)
      /\ \A p \in Met(nx, u) : p \in before <=> nx[p] = e
  BY <1>1, <1>2
<1>c. \A x : x \in Linked(es, v) <=> \E a \in 1..Len(v) : x \in Met(nx, v[a])
  BY DEF Linked
<1>d. \A x : x \in Linked(fs, w) <=> \E a \in 1..Len(v) : x \in Met(ny, w[a])
  BY <1>3 DEF Linked
<1>e. ny = [p \in 1..n |-> fs[p].next]
  BY <1>3 DEF NextOf
<1>u. u = v[b] /\ b = Bucket(es[e].key, Len(v))
  OBVIOUS
<1> HIDE DEF nx, ny, b, n, u, before
<1>5. \A p \in 1..n : fs[p].key \in Keys /\ fs[p].next \in 0..n
  BY <1>1, <1>2, <1>3
<1>6. ny \in [1..n -> 0..n] /\ \A p \in 1..n : ny[p] = IF p \in Met(nx, u) /\ nx[p] = e THEN nx[e] ELSE nx[p]
  <2>1. ny \in [1..n -> 0..n] /\ \A p \in 1..n : ny[p] = fs[p].next
    BY <1>e, <1>5
  <2>2. \A p \in 1..n : nx[p] = es[p].next /\ (p \in before <=> p \in Met(nx, u) /\ nx[p] = e)
    BY <1>1, <1>4
  <2>3. ASSUME NEW p \in 1..n PROVE ny[p] = IF p \in Met(nx, u) /\ nx[p] = e THEN nx[e] ELSE nx[p]
    <3>1. ny[p] = IF p \in before THEN es[e].next ELSE es[p].next
      BY <2>1, <1>3
    <3>2. nx[e] = es[e].next /\ nx[p] = es[p].next
      BY <2>2, <1>2
    <3> QED
      BY <3>1, <3>2, <2>2
  <2> QED
    BY <2>1, <2>3
<1>7. /\ \A z \in 0..n : Met(ny, z) \subseteq Met(nx, z) /\ Met(nx, z) \ {e} \subseteq Met(ny, z)
      /\ \A z \in 0..n : e \notin Met(nx, z) => Met(ny, z) = Met(nx, z)
      /\ (\E p \in Met(nx, u) : nx[p] = e) => Met(ny, u) = Met(nx, u) \ {e}
      /\ ~(\E p \in Met(nx, u) : nx[p] = e) => e = u /\ Met(ny, nx[e]) = Met(nx, u) \ {e}
      /\ Acyclic(ny)
  <2>1. UnlinkedLinks(n, nx, u, e, ny)
    BY <1>1, <1>2, <1>6 DEF UnlinkedLinks
  <2> QED
    BY <2>1, UnlinkMet
<1>8. \A a \in 1..Len(v) : Met(ny, w[a]) = Met(nx, v[a]) \ {e}
  <2> TAKE a \in 1..Len(v)
  <2>1. CASE a # b
    <3>1. e \notin Met(nx, v[a])
      BY <2>1, <1>1, <1>u
    <3>2. Met(ny, v[a]) = Met(nx, v[a])
      BY <3>1, <1>1, <1>7
    <3>3. w[a] = v[a]
      BY <2>1, <1>3
    <3> QED
      BY <3>1, <3>2, <3>3
  <2>2. CASE a = b /\ before = {}
    <3>1. w[a] = nx[e] /\ v[a] = u
      BY <2>2, <1>1, <1>2, <1>3, <1>u
    <3>2. ~(\E p \in Met(nx, u) : nx[p] = e)
      BY <2>2, <1>4
    <3>3. Met(ny, nx[e]) = Met(nx, u) \ {e}
      BY <3>2, <1>7
    <3> QED
      BY <3>1, <3>3
  <2>3. CASE a = b /\ before # {}
    <3>1. w[a] = u /\ v[a] = u
      BY <2>3, <1>3, <1>u
    <3>2. \E p \in Met(nx, u) : nx[p] = e
      BY <2>3, <1>4
    <3>3. Met(ny, u) = Met(nx, u) \ {e}
      BY <3>2, <1>7
    <3> QED
      BY <3>1, <3>3
  <2> QED
    BY <2>1, <2>2, <2>3
<1>9. Linked(fs, w) = Linked(es, v) \ {e}
  <2>1. \A x : x \in Linked(fs, w) <=> \E a \in 1..Len(v) : x \in Met(nx, v[a]) /\ x # e
    BY <1>d, <1>8
  <2>2. \A x : x \in Linked(fs, w) <=> x \in Linked(es, v) /\ x # e
    BY <2>1, <1>c, Zenon
  <2> QED
    BY <2>2
<1>10. c - 1 = Cardinality(Linked(fs, w))
  BY <1>1, <1>9, FS_RemoveElement
<1>11. \A a \in 1..Len(w) : \A p \in Met(ny, w[a]) : Bucket(fs[p].key, Len(w)) = a
  <2> SUFFICES ASSUME NEW a \in 1..Len(v), NEW p \in Met(ny, w[a]) PROVE Bucket(fs[p].key, Len(v)) = a
    BY <1>3
  <2>1. p \in Met(nx, v[a])
    BY <1>8
  <2>2. p \in 1..n /\ Bucket(es[p].key, Len(v)) = a
    BY <2>1, <1>1
  <2> QED
    BY <2>2, <1>3
<1>12. \A x, y \in Linked(fs, w) : fs[x].alive /\ fs[y].alive /\ fs[x].key = fs[y].key => x = y
  <2>1. \A x \in Linked(es, v) : fs[x].alive = es[x].alive /\ fs[x].key = es[x].key
    BY <1>1, <1>3
  <2> QED
    BY <2>1, <1>1, <1>9
<1>13. \A a \in 1..Len(w) : w[a] \in 0..n
  BY <1>1, <1>2, <1>3
<1>14. TableSound(fs, w, c - 1)
  BY <1>1, <1>3, <1>5, <1>7, <1>10, <1>11, <1>12, <1>13 DEF TableSound, ny
<1> QED
  BY <1>7, <1>9, <1>14 DEF nx, ny, n

(* The collector clears the key of an entry.                               *)
LEMMA DeadTable ==
  ASSUME NEW es, NEW v, NEW c, TableSound(es, v, c), NEW fs, Len(fs) = Len(es),
         \A p \in 1..Len(es) : fs[p].key = es[p].key /\ fs[p].next = es[p].next /\ (fs[p].alive => es[p].alive)
  PROVE  TableSound(fs, v, c) /\ NextOf(fs) = NextOf(es) /\ Linked(fs, v) = Linked(es, v)
<1>1. NextOf(fs) = NextOf(es)
  BY DEF NextOf
<1>2. Linked(fs, v) = Linked(es, v)
  BY <1>1 DEF Linked
<1>3. Linked(es, v) \subseteq 1..Len(es)
  BY TableFacts
<1>4. \A b \in 1..Len(v) : Met(NextOf(es), v[b]) \subseteq 1..Len(es)
  BY <1>3 DEF Linked
<1> QED
  BY <1>1, <1>2, <1>3, <1>4 DEF TableSound

(* The two buckets an old one is split into.                               *)
LEMMA BucketOfDouble ==
  ASSUME NEW k \in Nat, NEW s \in Nat, s # 0
  PROVE  ((Bucket(k, 2 * s) - 1) % s) + 1 = Bucket(k, s)
<1> DEFINE m == 2 * s
           q == k \div m
           r == k % m
           p == r \div s
           t == r % s
<1>1. m \in Nat /\ m # 0 /\ m = s + s
  OBVIOUS
<1>2. q \in Nat /\ r \in 0..(m - 1) /\ k = m * q + r
  <2> HIDE DEF m
  <2> QED
    BY <1>1
<1>3. r \in Nat /\ p \in Nat /\ t \in 0..(s - 1) /\ r = s * p + t
  <2>1. r \in Nat
    BY <1>2, <1>1
  <2> HIDE DEF r
  <2> QED
    BY <2>1
<1>4. (r + 1) - 1 = r
  BY <1>3
<1> HIDE DEF q, r, p, t
<1>5. k = s * (2 * q + p) + t
  BY <1>1, <1>2, <1>3
<1>6. k % s = t
  <2> DEFINE u == 2 * q + p
  <2>1. u \in Nat /\ k = s * u + t
    BY <1>5, <1>2, <1>3
  <2> HIDE DEF u
  <2> QED
    BY <2>1, <1>3
<1> QED
  BY <1>3, <1>4, <1>6 DEF Bucket, r, t

(* dictionary_grow_table splits each old chain into two new ones.          *)
LiveOf(es, S) == {e \in S : es[e].alive}
KeptOf(es, v, b) ==
  {e \in LiveOf(es, Met(NextOf(es), v[((b - 1) % Len(v)) + 1])) : Bucket(es[e].key, 2 * Len(v)) = b}
Grown(es, v, fs, w) ==
  /\ Len(fs) = Len(es) /\ Len(w) = 2 * Len(v)
  /\ \A e \in 1..Len(es) : fs[e].key = es[e].key /\ fs[e].alive = es[e].alive
  /\ \A b \in 1..(2 * Len(v)) :
       LET K == KeptOf(es, v, b) IN
       /\ K = {} => w[b] = 0
       /\ K # {} => w[b] \in K /\ \A q \in K : w[b] \in Met(NextOf(es), q)
       /\ \A e \in K : (~ \E x \in K : x # e /\ e \in Met(NextOf(es), x)) => fs[e].next = 0
       /\ \A e \in K : (\E x \in K : x # e /\ e \in Met(NextOf(es), x)) =>
            /\ fs[e].next \in K /\ fs[e].next # e /\ e \in Met(NextOf(es), fs[e].next)
            /\ \A q \in K : q # e /\ e \in Met(NextOf(es), q) => fs[e].next \in Met(NextOf(es), q)
  /\ \A e \in 1..Len(es) : e \notin KeptOf(es, v, Bucket(es[e].key, 2 * Len(v))) => fs[e].next = es[e].next

(* A grown table is sound and has the live entries of the old one.         *)
LEMMA GrowTable ==
  ASSUME NEW es, NEW v, NEW c, TableSound(es, v, c), NEW fs, NEW w, Grown(es, v, fs, w)
  PROVE  /\ TableSound(fs, w, Cardinality(LiveOf(es, Linked(es, v))))
         /\ Linked(fs, w) = LiveOf(es, Linked(es, v))
<1> DEFINE n == Len(es)
           s == Len(v)
           m == 2 * Len(v)
           nx == NextOf(es)
           ny == NextOf(fs)
           K(b) == KeptOf(es, v, b)
           Old(b) == ((b - 1) % s) + 1
           A == LiveOf(es, Linked(es, v))
<1>1. /\ n \in Nat /\ s \in Nat /\ s # 0 /\ nx \in [1..n -> 0..n] /\ Acyclic(nx)
      /\ \A a \in 1..s : v[a] \in 0..n
      /\ \A p \in 1..n : es[p].key \in Keys /\ es[p].next \in 0..n /\ nx[p] = es[p].next
      /\ \A a \in 1..s : Met(nx, v[a]) = {p \in Linked(es, v) : Bucket(es[p].key, s) = a}
      /\ Linked(es, v) \subseteq 1..n
      /\ \A x, y \in Linked(es, v) : es[x].alive /\ es[y].alive /\ es[x].key = es[y].key => x = y
  BY TableFacts DEF TableSound
<1>2. m \in Nat /\ m # 0 /\ \A b \in 1..m : Old(b) \in 1..s
  <2>1. m \in Nat /\ m # 0
    BY <1>1
  <2>2. ASSUME NEW b \in 1..m PROVE Old(b) \in 1..s
    <3> DEFINE j == b - 1
    <3>1. j \in Nat
      BY <2>1
    <3>2. j % s \in 0..(s - 1)
      <4> HIDE DEF j
      <4> QED
        BY <3>1, <1>1
    <3> QED
      BY <3>2, <1>1
  <2> QED
    BY <2>1, <2>2
<1>3. /\ Len(fs) = n /\ Len(w) = m
      /\ \A e \in 1..n : fs[e].key = es[e].key /\ fs[e].alive = es[e].alive
      /\ \A e \in 1..n : e \notin K(Bucket(es[e].key, m)) => fs[e].next = es[e].next
  BY DEF Grown
<1>4. ASSUME NEW b \in 1..m
      PROVE  /\ K(b) = {} => w[b] = 0
             /\ K(b) # {} => w[b] \in K(b) /\ \A q \in K(b) : w[b] \in Met(nx, q)
             /\ \A e \in K(b) : (~ \E x \in K(b) : x # e /\ e \in Met(nx, x)) => fs[e].next = 0
             /\ \A e \in K(b) : (\E x \in K(b) : x # e /\ e \in Met(nx, x)) =>
                  /\ fs[e].next \in K(b) /\ fs[e].next # e /\ e \in Met(nx, fs[e].next)
                  /\ \A q \in K(b) : q # e /\ e \in Met(nx, q) => fs[e].next \in Met(nx, q)
  BY DEF Grown
<1>5. \A b, e : e \in K(b) <=> e \in Met(nx, v[Old(b)]) /\ es[e].alive /\ Bucket(es[e].key, m) = b
  BY DEF KeptOf, LiveOf
<1>6. \A e : e \in A <=> e \in Linked(es, v) /\ es[e].alive
  BY DEF LiveOf
<1>7. \A k \in Keys : Bucket(k, m) \in 1..m /\ Bucket(k, s) \in 1..s /\ Old(Bucket(k, m)) = Bucket(k, s)
  BY <1>1, <1>2, KeysAssumption, BucketRange, BucketOfDouble
<1>d. \A x : x \in Linked(fs, w) <=> \E a \in 1..m : x \in Met(ny, w[a])
  BY <1>3 DEF Linked
<1>e. ny = [p \in 1..n |-> fs[p].next]
  BY <1>3 DEF NextOf
<1> HIDE DEF n, s, m, nx, ny, K, Old, A
<1>8. \A b \in 1..m : K(b) \subseteq Met(nx, v[Old(b)]) /\ K(b) \subseteq A
  BY <1>1, <1>2, <1>5, <1>6
<1>9. \A e \in A : e \in 1..n /\ e \in K(Bucket(es[e].key, m)) /\ Bucket(es[e].key, m) \in 1..m
  BY <1>1, <1>5, <1>6, <1>7
<1>10. \A e : e \in A <=> \E b \in 1..m : e \in K(b)
  BY <1>8, <1>9
<1>11. A \subseteq 1..n
  BY <1>9
<1>12. \A e \in 1..n : fs[e].next \in 0..n
  <2> TAKE e \in 1..n
  <2> DEFINE b == Bucket(es[e].key, m)
  <2>0. b \in 1..m
    BY <1>1, <1>7
  <2>1. CASE e \notin K(b)
    BY <2>1, <1>1, <1>3
  <2>2. CASE e \in K(b)
    <3>1. fs[e].next = 0 \/ fs[e].next \in K(b)
      BY <2>0, <2>2, <1>4
    <3>2. K(b) \subseteq 1..n
      BY <2>0, <1>8, <1>11
    <3> QED
      BY <3>1, <3>2, <1>1
  <2> QED
    BY <2>1, <2>2
<1>13. ny \in [1..n -> 0..n] /\ \A p \in 1..n : ny[p] = fs[p].next
  BY <1>e, <1>12
<1>14. ASSUME NEW b \in 1..m
       PROVE  Met(ny, w[b]) = K(b) /\ ClosedUnder(ny, K(b)) /\ \A e \in K(b) : e \notin Met(ny, ny[e])
  <2> DEFINE u == v[Old(b)]
             h == w[b]
  <2>1. u \in 0..n /\ K(b) \subseteq Met(nx, u) /\ K(b) \subseteq 1..n
    BY <1>1, <1>2, <1>8, <1>11
  <2>2. \A e \in K(b) : ny[e] = fs[e].next
    BY <2>1, <1>13
  <2>3. GrownChain(n, nx, ny, u, K(b), h)
    <3> HIDE DEF u
    <3> QED
      BY <2>1, <2>2, <1>1, <1>4, <1>13 DEF GrownChain
  <2> HIDE DEF u, h
  <2>4. Met(ny, h) = K(b) /\ ClosedUnder(ny, K(b)) /\ \A e \in K(b) : e \notin Met(ny, ny[e])
    BY <2>3, GrowMet
  <2> QED
    BY <2>4 DEF h
<1>15. Linked(fs, w) = A
  BY <1>d, <1>10, <1>14
<1>16. Acyclic(ny)
  <2>1. ClosedUnder(ny, A)
    BY <1>10, <1>14 DEF ClosedUnder
  <2>2. \A e \in A : e \notin Met(ny, ny[e])
    BY <1>10, <1>14
  <2>3. \A d \in (1..n) \ A : ny[d] = nx[d]
    <3> TAKE d \in (1..n) \ A
    <3>1. d \notin K(Bucket(es[d].key, m))
      BY <1>1, <1>7, <1>8
    <3> QED
      BY <3>1, <1>1, <1>3, <1>13
  <2> QED
    BY <2>1, <2>2, <2>3, <1>1, <1>11, <1>13, GrowAcyclic
<1>17. \A b \in 1..Len(w) : w[b] \in 0..n
  <2> TAKE b \in 1..Len(w)
  <2>1. b \in 1..m /\ K(b) \subseteq 1..n
    BY <1>3, <1>8, <1>11
  <2>2. w[b] = 0 \/ w[b] \in K(b)
    BY <2>1, <1>4
  <2> QED
    BY <2>1, <2>2, <1>1
<1>18. \A b \in 1..Len(w) : \A e \in Met(ny, w[b]) : Bucket(fs[e].key, Len(w)) = b
  <2> SUFFICES ASSUME NEW b \in 1..m, NEW e \in K(b) PROVE Bucket(fs[e].key, m) = b
    BY <1>3, <1>14
  <2>1. e \in 1..n /\ Bucket(es[e].key, m) = b
    BY <1>5, <1>8, <1>11
  <2> QED
    BY <2>1, <1>3
<1>19. \A x, y \in Linked(fs, w) : fs[x].alive /\ fs[y].alive /\ fs[x].key = fs[y].key => x = y
  <2>1. \A x \in A : x \in Linked(es, v) /\ es[x].alive /\ fs[x].key = es[x].key
    BY <1>3, <1>6, <1>11
  <2> QED
    BY <2>1, <1>1, <1>15
<1>20. \A e \in 1..Len(fs) : fs[e].key \in Keys /\ fs[e].next \in 0..Len(fs)
  BY <1>1, <1>3, <1>12
<1>21. TableSound(fs, w, Cardinality(A))
  BY <1>1, <1>2, <1>3, <1>15, <1>16, <1>17, <1>18, <1>19, <1>20 DEF TableSound, ny
<1> QED
  BY <1>15, <1>21 DEF A

(* The chains of the program are what is met, and a key is found at the    *)
(* live entry in the table that has it.                                    *)
LEMMA DictionaryFacts ==
  ASSUME TableSound(entry, vector, count)
  PROVE  /\ \A e \in 0..Len(entry) : ChainFrom(e) = Met(NextOf(entry), e)
         /\ \A b \in 1..Size : Chain(b) = Met(NextOf(entry), vector[b])
         /\ \A k \in Keys : Found(k) = {e \in Linked(entry, vector) : entry[e].alive /\ entry[e].key = k}
<1>1. /\ Len(entry) \in Nat /\ NextOf(entry) \in [1..Len(entry) -> 0..Len(entry)] /\ Acyclic(NextOf(entry))
      /\ \A b \in 1..Size : vector[b] \in 0..Len(entry)
      /\ \A b \in 1..Size : Met(NextOf(entry), vector[b]) = {e \in Linked(entry, vector) : Bucket(entry[e].key, Size) = b}
      /\ \A k \in Keys : Bucket(k, Size) \in 1..Size
  BY TableFacts DEF TableSound, Size
<1>2. \A e \in 0..Len(entry) : ChainFrom(e) = Met(NextOf(entry), e)
  BY <1>1, ChainIsMet
<1>3. \A b \in 1..Size : Chain(b) = Met(NextOf(entry), vector[b])
  BY <1>1, <1>2 DEF Chain
<1>4. ASSUME NEW k \in Keys
      PROVE  Found(k) = {e \in Linked(entry, vector) : entry[e].alive /\ entry[e].key = k}
  <2>1. Chain(Bucket(k, Size)) = {e \in Linked(entry, vector) : Bucket(entry[e].key, Size) = Bucket(k, Size)}
    BY <1>1, <1>3
  <2> QED
    BY <2>1 DEF Found, Live
<1> QED
  BY <1>2, <1>3, <1>4

(* The table that the program grows is split as dictionary_grow_table      *)
(* says, and is counted anew.                                              *)
LEMMA GrownIsGrown ==
  ASSUME TableSound(entry, vector, count), DictionaryTypeOK
  PROVE  /\ Grown(entry, vector, GrownEntry, GrownVector)
         /\ LiveCount = Cardinality(LiveOf(entry, Linked(entry, vector)))
<1> DEFINE n == Len(entry)
           m == 2 * Size
           nx == NextOf(entry)
           R == [key : Keys, next : 0..MaxEntries, alive : BOOLEAN]
           K(b) == KeptOf(entry, vector, b)
           Old(b) == ((b - 1) % Size) + 1
           Kb(e) == K(Bucket(entry[e].key, m))
           Earlier(e) == {x \in Kb(e) : x # e /\ e \in ChainFrom(x)}
           IsLast(l, S) == l \in S /\ \A q \in S : l \in Met(nx, q)
<1>1. /\ n \in Nat /\ Size \in Nat /\ Size # 0 /\ nx \in [1..n -> 0..n] /\ Acyclic(nx)
      /\ \A b \in 1..Size : vector[b] \in 0..n
      /\ \A b \in 1..Size : Met(nx, vector[b]) \subseteq 1..n
      /\ \A e \in 1..n : entry[e].key \in Keys /\ entry[e] \in R
      /\ \A k \in Keys : Bucket(k, m) \in 1..m
  <2>1. /\ n \in Nat /\ Size \in Nat /\ Size # 0 /\ nx \in [1..n -> 0..n] /\ Acyclic(nx)
        /\ \A b \in 1..Size : vector[b] \in 0..n
        /\ \A e \in 1..n : entry[e].key \in Keys
    BY TableFacts DEF TableSound, Size
  <2>2. \A b \in 1..Size : Met(nx, vector[b]) \subseteq 1..n
    BY <2>1, MetFacts
  <2>3. \A e \in 1..n : entry[e] \in R
    <3>1. entry \in Seq(R)
      BY DEF DictionaryTypeOK
    <3> HIDE DEF R
    <3> QED
      BY <3>1
  <2>4. m \in Nat /\ m # 0
    BY <2>1
  <2>5. \A k \in Keys : Bucket(k, m) \in 1..m
    <3> HIDE DEF m
    <3> QED
      BY <2>4, KeysAssumption, BucketRange
  <2> QED
    BY <2>1, <2>2, <2>3, <2>5
<1>2. \A b \in 1..m : Old(b) \in 1..Size
  <2> TAKE b \in 1..m
  <2> DEFINE j == b - 1
  <2>1. j \in Nat
    BY <1>1
  <2>2. j % Size \in 0..(Size - 1)
    <3> HIDE DEF j
    <3> QED
      BY <2>1, <1>1
  <2> QED
    BY <2>2, <1>1
<1>3. ASSUME NEW b \in 1..m PROVE Kept(b) = K(b) /\ K(b) \subseteq Met(nx, vector[Old(b)])
  <2>1. Chain(Old(b)) = Met(nx, vector[Old(b)])
    BY <1>2, DictionaryFacts
  <2> QED
    BY <2>1 DEF Kept, KeptOf, Live, LiveOf, Size
<1>4. \A x \in 0..n : ChainFrom(x) = Met(nx, x)
  BY DictionaryFacts
<1>5. \A b \in 1..m : K(b) \subseteq 1..n
  BY <1>1, <1>2, <1>3
<1>6. ASSUME NEW b \in 1..m, NEW S \in SUBSET K(b), S # {} PROVE IsLast(LastOf(S), S)
  <2>1. S \subseteq Met(nx, vector[Old(b)]) /\ vector[Old(b)] \in 0..n /\ S \subseteq 1..n
    BY <1>1, <1>2, <1>3, <1>5
  <2>2. \E l \in S : \A q \in S : l \in Met(nx, q)
    <3> DEFINE u == vector[Old(b)]
    <3>1. u \in 0..n /\ S \in SUBSET Met(nx, u)
      BY <2>1
    <3> HIDE DEF u, nx, n
    <3>2. \A Q \in SUBSET Met(nx, u) : Q # {} =>
            /\ \E l \in Q : \A q \in Q : l \in Met(nx, q)
            /\ \E f \in Q : Q \subseteq Met(nx, f)
      <4>1. n \in Nat /\ nx \in [1..n -> 0..n] /\ Acyclic(nx) /\ u \in 0..n
        BY <1>1, <3>1
      <4> QED
        BY <4>1, ChainEnds
    <3> QED
      BY <3>1, <3>2, <1>6
  <2>3. \A q \in S : ChainFrom(q) = Met(nx, q)
    BY <2>1, <1>4, <1>1
  <2>4. \E l \in S : \A q \in S : l \in ChainFrom(q)
    BY <2>2, <2>3
  <2>5. LastOf(S) \in S /\ \A q \in S : LastOf(S) \in ChainFrom(q)
    BY <2>4 DEF LastOf
  <2> QED
    BY <2>3, <2>5
<1>7. \A e \in 1..n : Bucket(entry[e].key, m) \in 1..m /\ Kept(Bucket(entry[e].key, m)) = Kb(e) /\ PushedBefore(e) = Earlier(e)
  BY <1>1, <1>3 DEF PushedBefore
<1>8. /\ Len(GrownEntry) = n
      /\ \A e \in 1..n : /\ GrownEntry[e].key = entry[e].key /\ GrownEntry[e].alive = entry[e].alive
                         /\ e \in Kb(e) => GrownEntry[e].next = TopOf(Earlier(e))
                         /\ e \notin Kb(e) => GrownEntry[e].next = entry[e].next
  <2>1. GrownEntry = [e \in 1..n |-> IF e \in Kb(e) THEN [entry[e] EXCEPT !.next = TopOf(Earlier(e))] ELSE entry[e]]
    BY <1>7 DEF GrownEntry, Entries
  <2> HIDE DEF Kb, Earlier, n
  <2>2. Len(GrownEntry) = n
    BY <2>1, <1>1
  <2>3. \A e \in 1..n : GrownEntry[e] = IF e \in Kb(e) THEN [entry[e] EXCEPT !.next = TopOf(Earlier(e))] ELSE entry[e]
    BY <2>1
  <2>4. \A e \in 1..n : /\ GrownEntry[e].key = entry[e].key /\ GrownEntry[e].alive = entry[e].alive
                        /\ e \in Kb(e) => GrownEntry[e].next = TopOf(Earlier(e))
                        /\ e \notin Kb(e) => GrownEntry[e].next = entry[e].next
    BY <2>3, <1>1
  <2> QED
    BY <2>2, <2>4
<1>9. Len(GrownVector) = m /\ \A b \in 1..m : GrownVector[b] = TopOf(K(b))
  <2>1. m \in Nat
    BY <1>1
  <2> HIDE DEF K
  <2> QED
    BY <2>1, <1>3 DEF GrownVector
<1>10. \A b \in 1..m : \A e \in K(b) : Bucket(entry[e].key, m) = b /\ Kb(e) = K(b)
  BY DEF KeptOf, Size
<1>11. LiveCount = Cardinality(LiveOf(entry, Linked(entry, vector)))
  <2>1. \A b \in 1..Size : Chain(b) = Met(nx, vector[b])
    BY DictionaryFacts
  <2>2. UNION {Chain(b) : b \in 1..Size} = Linked(entry, vector)
    BY <2>1 DEF Linked, Size
  <2> QED
    BY <2>2 DEF LiveCount, Live, LiveOf
<1> HIDE DEF K, Kb
<1>12. ASSUME NEW b \in 1..m
       PROVE  /\ K(b) = {} => GrownVector[b] = 0
              /\ K(b) # {} => GrownVector[b] \in K(b) /\ \A q \in K(b) : GrownVector[b] \in Met(nx, q)
  BY <1>6, <1>9 DEF TopOf
<1>13. ASSUME NEW b \in 1..m, NEW e \in K(b)
       PROVE  /\ (~ \E x \in K(b) : x # e /\ e \in Met(nx, x)) => GrownEntry[e].next = 0
              /\ (\E x \in K(b) : x # e /\ e \in Met(nx, x)) =>
                   /\ GrownEntry[e].next \in K(b) /\ GrownEntry[e].next # e /\ e \in Met(nx, GrownEntry[e].next)
                   /\ \A q \in K(b) : q # e /\ e \in Met(nx, q) => GrownEntry[e].next \in Met(nx, q)
  <2> DEFINE S == {x \in K(b) : x # e /\ e \in Met(nx, x)}
  <2>1. e \in 1..n /\ Kb(e) = K(b)
    BY <1>5, <1>10
  <2>2. GrownEntry[e].next = TopOf(Earlier(e))
    BY <2>1, <1>8
  <2>3. Earlier(e) = S
    <3>1. \A x \in K(b) : ChainFrom(x) = Met(nx, x)
      BY <1>4, <1>5, <1>1
    <3> QED
      BY <2>1, <3>1
  <2>4. S \in SUBSET K(b)
    OBVIOUS
  <2>5. S # {} => IsLast(LastOf(S), S)
    <3> HIDE DEF S, IsLast
    <3> QED
      BY <2>4, <1>6
  <2>6. GrownEntry[e].next = IF S = {} THEN 0 ELSE LastOf(S)
    BY <2>2, <2>3 DEF TopOf
  <2> QED
    BY <2>5, <2>6
<1> QED
  <2>1. \A b \in 1..(2 * Len(vector)) : KeptOf(entry, vector, b) = K(b)
    BY DEF K
  <2>2. \A e \in 1..Len(entry) : KeptOf(entry, vector, Bucket(entry[e].key, 2 * Len(vector))) = Kb(e)
    BY DEF Kb, K, Size
  <2>3. m = 2 * Len(vector)
    BY DEF Size
  <2> HIDE DEF IsLast, Earlier, Old, m, R
  <2>4. Grown(entry, vector, GrownEntry, GrownVector)
    BY <1>8, <1>9, <1>12, <1>13, <2>1, <2>2, <2>3 DEF Grown
  <2> QED
    BY <2>4, <1>11

EntryType == [key : Keys, next : 0..MaxEntries, alive : BOOLEAN]

(* A pushed entry is an entry.                                             *)
LEMMA PushTyped ==
  ASSUME NEW es \in Seq(EntryType), NEW v \in Seq(0..MaxEntries), NEW c, TableSound(es, v, c),
         Len(es) < MaxEntries, NEW k \in Keys, PushOn(v, es, k)
  PROVE  /\ KeyPushed(es, v, k, entry', vector')
         /\ entry' \in Seq(EntryType) /\ vector' \in Seq(0..MaxEntries) /\ Len(entry') <= MaxEntries
<1> DEFINE b == Bucket(k, Len(v))
           r == [key |-> k, next |-> v[b], alive |-> TRUE]
           n == Len(es)
<1>1. n \in Nat /\ Len(v) \in Nat /\ b \in 1..Len(v)
  BY TableFacts DEF TableSound
<1>2. entry' = Append(es, r) /\ vector' = [v EXCEPT ![b] = n + 1]
  BY DEF PushOn
<1>3. v[b] \in 0..MaxEntries /\ n + 1 \in 0..MaxEntries /\ n + 1 <= MaxEntries
  BY <1>1, MaxEntriesAssumption
<1>4. r \in EntryType /\ r.key = k /\ r.next = v[b]
  BY <1>3 DEF EntryType
<1>b. b = Bucket(k, Len(v))
  OBVIOUS
<1> HIDE DEF r, b
<1>5. entry' \in Seq(EntryType) /\ Len(entry') = n + 1 /\ entry'[n + 1] = r /\ \A e \in 1..n : entry'[e] = es[e]
  BY <1>1, <1>2, <1>4
<1>6. vector' \in Seq(0..MaxEntries) /\ Len(vector') = Len(v)
      /\ \A a \in 1..Len(v) : vector'[a] = IF a = b THEN n + 1 ELSE v[a]
  BY <1>1, <1>2, <1>3
<1>7. KeyPushed(es, v, k, entry', vector')
  BY <1>4, <1>5, <1>6, <1>b DEF KeyPushed
<1> QED
  BY <1>3, <1>5, <1>6, <1>7

(* A table that grew is one of entries still.                              *)
LEMMA GrownTyped ==
  ASSUME TableSound(entry, vector, count), DictionaryTypeOK
  PROVE  /\ TableSound(GrownEntry, GrownVector, LiveCount)
         /\ Linked(GrownEntry, GrownVector) = LiveOf(entry, Linked(entry, vector))
         /\ GrownEntry \in Seq(EntryType) /\ GrownVector \in Seq(0..MaxEntries)
         /\ Len(GrownEntry) = Len(entry)
         /\ \A e \in 1..Len(entry) : GrownEntry[e].key = entry[e].key /\ GrownEntry[e].alive = entry[e].alive
<1>1. Grown(entry, vector, GrownEntry, GrownVector) /\ LiveCount = Cardinality(LiveOf(entry, Linked(entry, vector)))
  BY GrownIsGrown
<1>2. /\ TableSound(GrownEntry, GrownVector, LiveCount)
      /\ Linked(GrownEntry, GrownVector) = LiveOf(entry, Linked(entry, vector))
  BY <1>1, GrowTable
<1>3. /\ Len(GrownEntry) = Len(entry)
      /\ \A e \in 1..Len(entry) : GrownEntry[e].key = entry[e].key /\ GrownEntry[e].alive = entry[e].alive
  BY <1>1 DEF Grown
<1>4. /\ \A e \in 1..Len(entry) : GrownEntry[e].next \in 0..Len(entry)
      /\ \A b \in 1..Len(GrownVector) : GrownVector[b] \in 0..Len(entry)
      /\ Len(entry) \in Nat /\ Len(GrownVector) \in Nat
  BY <1>2, <1>3 DEF TableSound
<1>5. entry \in Seq(EntryType) /\ Len(entry) <= MaxEntries
  BY DEF DictionaryTypeOK, EntryType
<1>6. 0..Len(entry) \subseteq 0..MaxEntries
  BY <1>4, <1>5, MaxEntriesAssumption
<1>7. ASSUME NEW e \in 1..Len(entry) PROVE GrownEntry[e] \in EntryType
  <2>1. entry[e] \in EntryType /\ GrownEntry[e].next \in 0..MaxEntries
    BY <1>4, <1>5, <1>6
  <2>2. GrownEntry[e] = entry[e] \/ \E t : GrownEntry[e] = [entry[e] EXCEPT !.next = t]
    BY DEF GrownEntry, Entries
  <2> QED
    BY <2>1, <2>2 DEF EntryType
<1>8. GrownEntry \in Seq(EntryType)
  <2>1. GrownEntry = [e \in 1..Len(entry) |-> GrownEntry[e]]
    BY DEF GrownEntry, Entries
  <2> DEFINE n == Len(entry)
             g == GrownEntry
  <2>2. g = [e \in 1..n |-> g[e]] /\ n \in Nat /\ \A e \in 1..n : g[e] \in EntryType
    BY <2>1, <1>4, <1>7
  <2> HIDE DEF g, n
  <2>3. g \in Seq(EntryType)
    BY <2>2
  <2> QED
    BY <2>3 DEF g
<1>9. GrownVector \in Seq(0..MaxEntries)
  <2>1. GrownVector = [b \in 1..(2 * Size) |-> GrownVector[b]] /\ Size \in Nat
    BY DEF GrownVector, TableSound, Size
  <2> DEFINE m == 2 * Size
             g == GrownVector
             P == 0..MaxEntries
  <2>2. g = [b \in 1..m |-> g[b]] /\ m \in Nat
    BY <2>1
  <2>4. m = Len(GrownVector)
    BY <1>1 DEF Grown, Size
  <2>5. \A b \in 1..m : g[b] \in P
    BY <2>4, <1>4, <1>6
  <2> HIDE DEF g, m, P
  <2>3. g \in Seq(P)
    BY <2>2, <2>5
  <2> QED
    BY <2>3 DEF g, P
<1> QED
  BY <1>2, <1>3, <1>8, <1>9

(* What an iteration still has to meet: the rest of the chain it is in,    *)
(* but for the current entry, which it has answered, and the buckets from  *)
(* bucket_index on.                                                        *)
Ahead(e) == \/ iter.bucket <= Bucket(entry[e].key, Size)
            \/ e \in Met(NextOf(entry), iter.entry) /\ ~(iter.at = "current" /\ e = iter.entry)
InTable(e) == e \in Linked(entry, vector) /\ entry[e].alive
RestSound ==
  \A y \in Met(NextOf(entry), iter.entry) :
    /\ Bucket(entry[y].key, Size) + 1 = iter.bucket
    /\ entry[y].alive /\ entry[y].key \in stayed => InTable(y)
StayersPresent == \A k \in stayed : \E e \in Linked(entry, vector) : InTable(e) /\ entry[e].key = k
AnsweredOnce ==
  \A e \in Linked(entry, vector) :
    InTable(e) /\ entry[e].key \in stayed => visits[entry[e].key] = IF Ahead(e) THEN 0 ELSE 1
IteratorSound == RestSound /\ StayersPresent /\ AnsweredOnce
DictionaryInv ==
  /\ DictionaryTypeOK
  /\ TableSound(entry, vector, count)
  /\ iter.entry \in 0..Len(entry)
  /\ iter.at = "current" => iter.entry # 0
  /\ iter.at = "none" => iter = NoIterator /\ \A k \in Keys : visits[k] = 0
  /\ iter.at \in {"find", "current"} /\ ~grown => IteratorSound
  /\ StayersVisitedOnce

(* A new dictionary has empty buckets and no iterator.                     *)
LEMMA DictionaryBegins == DictionaryInit => DictionaryInv
<1> SUFFICES ASSUME DictionaryInit PROVE DictionaryInv
  OBVIOUS
<1> DEFINE m == InitialMask + 1
<1>1. m \in Nat /\ m # 0 /\ 0 \in 0..MaxEntries /\ 0 \in Nat /\ 1 \in Nat \ {0}
  BY InitialMaskAssumption, MaxEntriesAssumption
<1>2. entry = <<>> /\ vector = [b \in 1..m |-> 0] /\ count = 0 /\ iter = NoIterator
      /\ visits = [k \in Keys |-> 0] /\ stayed = {} /\ grown = FALSE
  BY DEF DictionaryInit
<1> HIDE DEF m
<1>3. Len(entry) = 0 /\ entry \in Seq(EntryType) /\ 1..Len(entry) = {} /\ 0..Len(entry) = {0}
  BY <1>2
<1>4. Len(vector) = m /\ vector \in Seq(0..MaxEntries) /\ \A b \in 1..m : vector[b] = 0
  BY <1>1, <1>2
<1>5. NextOf(entry) \in [1..Len(entry) -> 0..Len(entry)]
  BY <1>3 DEF NextOf
<1>6. Met(NextOf(entry), 0) = {}
  BY <1>3, <1>5, MetFacts
<1>7. Linked(entry, vector) = {}
  BY <1>4, <1>6 DEF Linked
<1>8. Acyclic(NextOf(entry))
  BY <1>3 DEF Acyclic, NextOf
<1>9. TableSound(entry, vector, count)
  BY <1>1, <1>2, <1>3, <1>4, <1>6, <1>7, <1>8, FS_EmptySet DEF TableSound
<1>10. iter.at = "none" /\ iter.bucket = 1 /\ iter.entry = 0
      /\ iter \in [at : {"none", "find", "current", "end"}, bucket : Nat \ {0}, entry : 0..MaxEntries]
  BY <1>1, <1>2 DEF NoIterator
<1>11. visits \in [Keys -> Nat] /\ \A k \in Keys : visits[k] = 0
  BY <1>1, <1>2
<1>12. DictionaryTypeOK
  <2>1. Len(entry) <= MaxEntries /\ count \in 0..MaxEntries /\ stayed \subseteq Keys /\ grown \in BOOLEAN
    <3>1. Len(entry) <= MaxEntries
      BY <1>3, MaxEntriesAssumption
    <3>2. count \in 0..MaxEntries
      BY <1>1, <1>2
    <3>3. stayed \subseteq Keys
      BY <1>2
    <3>4. grown \in BOOLEAN
      BY <1>2
    <3> QED
      BY <3>1, <3>2, <3>3, <3>4
  <2>2. entry \in Seq(EntryType)
    BY <1>3
  <2> QED
    BY <2>1, <2>2, <1>4, <1>10, <1>11 DEF DictionaryTypeOK, EntryType
<1> QED
  BY <1>2, <1>3, <1>9, <1>10, <1>11, <1>12 DEF DictionaryInv, StayersVisitedOnce

(* LT_IdentityDictionary_atPut: the iterator keeps what it had ahead, and  *)
(* the key that comes is none that stayed; or the table grows.             *)
LEMMA AtPutKeeps == ASSUME DictionaryInv, NEW k \in Keys, AtPut(k) PROVE DictionaryInv'
<1>1. /\ DictionaryTypeOK /\ TableSound(entry, vector, count) /\ iter.entry \in 0..Len(entry)
      /\ entry \in Seq(EntryType) /\ vector \in Seq(0..MaxEntries) /\ Len(entry) \in Nat
  BY DEF DictionaryInv, DictionaryTypeOK, EntryType, TableSound
<1>2. Len(entry) < MaxEntries /\ UNCHANGED <<iter, visits, stayed>>
  BY DEF AtPut
<1>3. \A e \in Linked(entry, vector) : entry[e].alive => entry[e].key # k
  <2>1. Found(k) = {e \in Linked(entry, vector) : entry[e].alive /\ entry[e].key = k}
    BY <1>1, DictionaryFacts
  <2> QED
    BY <2>1 DEF AtPut
<1>4. ASSUME NEW es \in Seq(EntryType), NEW v \in Seq(0..MaxEntries), NEW c, TableSound(es, v, c),
             Len(es) = Len(entry), \A e \in Linked(es, v) : es[e].alive => es[e].key # k,
             PushOn(v, es, k), count' = c + 1, grown' \in BOOLEAN
      PROVE  /\ DictionaryTypeOK' /\ TableSound(entry, vector, count)' /\ iter'.entry \in 0..Len(entry')
             /\ KeyPushed(es, v, k, entry', vector')
  <2>1. /\ KeyPushed(es, v, k, entry', vector')
        /\ entry' \in Seq(EntryType) /\ vector' \in Seq(0..MaxEntries) /\ Len(entry') <= MaxEntries
    BY <1>2, <1>4, PushTyped
  <2>2. TableSound(entry', vector', count')
    BY <1>4, <2>1, PushTable
  <2>3. count' \in 0..Len(entry') /\ Len(entry') \in Nat
    BY <2>2, TableFacts DEF TableSound
  <2>4. count' \in 0..MaxEntries
    BY <2>1, <2>3, MaxEntriesAssumption
  <2>5. DictionaryTypeOK'
    BY <1>1, <1>2, <1>4, <2>1, <2>4 DEF DictionaryTypeOK, EntryType
  <2>6. Len(entry') = Len(entry) + 1
    BY <2>1, <1>4 DEF KeyPushed
  <2> QED
    BY <1>1, <1>2, <2>1, <2>2, <2>5, <2>6
<1>5. ASSUME DictionaryTypeOK', TableSound(entry, vector, count)', iter'.entry \in 0..Len(entry'),
             grown' = FALSE => grown = FALSE,
             iter.at \in {"find", "current"} /\ ~grown' => IteratorSound'
      PROVE  DictionaryInv'
  <2>1. grown \in BOOLEAN /\ grown' \in BOOLEAN
    BY <1>1, <1>5 DEF DictionaryTypeOK
  <2>2. StayersVisitedOnce'
    BY <1>2, <1>5, <2>1 DEF DictionaryInv, StayersVisitedOnce
  <2> QED
    BY <1>2, <1>5, <2>2 DEF DictionaryInv
<1>6. CASE count > Size - 1
  <2>1. PushOn(GrownVector, GrownEntry, k) /\ count' = LiveCount + 1 /\ grown' = TRUE
    BY <1>6 DEF AtPut
  <2>2. /\ TableSound(GrownEntry, GrownVector, LiveCount)
        /\ Linked(GrownEntry, GrownVector) = LiveOf(entry, Linked(entry, vector))
        /\ GrownEntry \in Seq(EntryType) /\ GrownVector \in Seq(0..MaxEntries)
        /\ Len(GrownEntry) = Len(entry)
        /\ \A e \in 1..Len(entry) : GrownEntry[e].key = entry[e].key /\ GrownEntry[e].alive = entry[e].alive
    BY <1>1, GrownTyped
  <2>3. \A e \in Linked(GrownEntry, GrownVector) : GrownEntry[e].alive => GrownEntry[e].key # k
    <3>1. Linked(entry, vector) \subseteq 1..Len(entry)
      BY <1>1, TableFacts
    <3> QED
      BY <3>1, <2>2, <1>3 DEF LiveOf
  <2>4. DictionaryTypeOK' /\ TableSound(entry, vector, count)' /\ iter'.entry \in 0..Len(entry')
    BY <2>1, <2>2, <2>3, <1>4
  <2> QED
    BY <2>1, <2>4, <1>5
<1>7. CASE ~(count > Size - 1)
  <2>1. PushOn(vector, entry, k) /\ count' = count + 1 /\ grown' = grown
    BY <1>7 DEF AtPut
  <2>2. grown \in BOOLEAN
    BY <1>1 DEF DictionaryTypeOK
  <2>3. /\ DictionaryTypeOK' /\ TableSound(entry, vector, count)' /\ iter'.entry \in 0..Len(entry')
        /\ KeyPushed(entry, vector, k, entry', vector')
    BY <2>1, <2>2, <1>1, <1>3, <1>4
  <2>4. ASSUME iter.at \in {"find", "current"}, ~grown' PROVE IteratorSound'
    <3> DEFINE n == Len(entry)
               L == Linked(entry, vector)
               Lp == Linked(entry', vector')
               M == Met(NextOf(entry), iter.entry)
    <3>1. Lp = L \cup {n + 1} /\ Met(NextOf(entry'), iter'.entry) = M
      <4>1. /\ Lp = L \cup {n + 1}
            /\ \A z \in 0..n : Met(NextOf(entry'), z) = Met(NextOf(entry), z)
        BY <1>1, <1>3, <2>3, PushTable
      <4> QED
        BY <4>1, <1>1, <1>2
    <3>2. /\ Len(vector') = Len(vector) /\ entry'[n + 1].key = k
          /\ \A e \in 1..n : entry'[e] = entry[e]
      BY <2>3 DEF KeyPushed
    <3>3. L \subseteq 1..n /\ M \subseteq 1..n
      <4>1. NextOf(entry) \in [1..n -> 0..n] /\ L \subseteq 1..n
        BY <1>1, TableFacts
      <4> QED
        BY <4>1, <1>1, MetFacts
    <3>4. RestSound /\ StayersPresent /\ AnsweredOnce
      BY <2>1, <2>4 DEF DictionaryInv, IteratorSound
    <3>5. k \notin stayed
      BY <3>4, <1>3 DEF StayersPresent, InTable
    <3>6. \A e \in L : (InTable(e)' <=> InTable(e)) /\ (Ahead(e)' <=> Ahead(e))
      <4>1. Size' = Size
        BY <3>2 DEF Size
      <4> QED
        BY <4>1, <3>1, <3>2, <3>3, <1>2 DEF InTable, Ahead
    <3> HIDE DEF n, L, M, Lp
    <3>7. RestSound'
      <4>1. Size' = Size
        BY <3>2 DEF Size
      <4>2. \A y \in M : entry'[y] = entry[y] /\ (InTable(y) => InTable(y)')
        BY <3>2, <3>3, <3>6 DEF InTable, L
      <4>3. \A y \in M : /\ Bucket(entry[y].key, Size) + 1 = iter.bucket
                         /\ entry[y].alive /\ entry[y].key \in stayed => InTable(y)
        BY <3>4 DEF RestSound, M
      <4> QED
        BY <4>1, <4>2, <4>3, <3>1, <1>2 DEF RestSound, Bucket
    <3>8. StayersPresent'
      <4>1. \A x \in stayed : \E e \in L : InTable(e) /\ entry[e].key = x
        BY <3>4 DEF StayersPresent, L
      <4>2. \A x \in stayed : \E e \in Lp : InTable(e)' /\ entry'[e].key = x
        BY <4>1, <3>1, <3>2, <3>3, <3>6
      <4> QED
        BY <4>2, <1>2 DEF StayersPresent, Lp
    <3>9. AnsweredOnce'
      <4>1. \A e \in L : InTable(e) /\ entry[e].key \in stayed => visits[entry[e].key] = IF Ahead(e) THEN 0 ELSE 1
        BY <3>4 DEF AnsweredOnce, L
      <4>2. ASSUME NEW e \in Lp, InTable(e)', entry'[e].key \in stayed
            PROVE  visits[entry'[e].key] = IF Ahead(e)' THEN 0 ELSE 1
        <5>1. e \in L
          BY <4>2, <3>1, <3>2, <3>5
        <5> QED
          BY <5>1, <4>1, <4>2, <3>2, <3>3, <3>6
      <4> QED
        BY <4>2, <1>2 DEF AnsweredOnce, Lp
    <3> QED
      BY <3>7, <3>8, <3>9 DEF IteratorSound
  <2> QED
    BY <2>1, <2>3, <2>4, <1>5
<1> QED
  BY <1>6, <1>7

(* LT_IdentityDictionary_remove: who stands at the entry that is taken     *)
(* out, or at one that was taken out before, misses no other.              *)
LEMMA RemoveKeyKeeps == ASSUME DictionaryInv, NEW k \in Keys, RemoveKey(k) PROVE DictionaryInv'
<1> DEFINE n == Len(entry)
           L == Linked(entry, vector)
           M == Met(NextOf(entry), iter.entry)
           Lp == Linked(entry', vector')
           Mp == Met(NextOf(entry'), iter.entry)
<1>1. /\ DictionaryTypeOK /\ TableSound(entry, vector, count) /\ iter.entry \in 0..n
      /\ entry \in Seq(EntryType) /\ vector \in Seq(0..MaxEntries) /\ n \in Nat
      /\ \A a \in 1..Size : vector[a] \in 0..n
      /\ \A x, y \in L : entry[x].alive /\ entry[y].alive /\ entry[x].key = entry[y].key => x = y
  BY DEF DictionaryInv, DictionaryTypeOK, EntryType, TableSound, Size
<1>2. Found(k) = {e \in L : entry[e].alive /\ entry[e].key = k} /\ \A b \in 1..Size : Chain(b) = Met(NextOf(entry), vector[b])
  BY <1>1, DictionaryFacts
<1>3. /\ NextOf(entry) \in [1..n -> 0..n] /\ L \subseteq 1..n
      /\ \A e \in 1..n : NextOf(entry)[e] = entry[e].next
      /\ Bucket(k, Size) \in 1..Size
  BY <1>1, TableFacts DEF Size
<1> DEFINE b == Bucket(k, Size)
           before(e) == {p \in Chain(b) : entry[p].next = e}
<1>4. PICK e \in Found(k) :
        /\ IF before(e) = {}
           THEN vector' = [vector EXCEPT ![b] = entry[e].next] /\ UNCHANGED entry
           ELSE /\ entry' = [p \in Entries |-> IF p \in before(e) THEN [entry[p] EXCEPT !.next = entry[e].next]
                                               ELSE entry[p]]
                /\ UNCHANGED vector
        /\ count' = count - 1 /\ stayed' = stayed \ {k} /\ UNCHANGED <<iter, visits, grown>>
  BY DEF RemoveKey
<1>5. e \in L /\ entry[e].alive /\ entry[e].key = k /\ e \in 1..n /\ entry[e].next \in 0..n /\ entry[e].next \in 0..MaxEntries
  <2>1. e \in L /\ entry[e].alive /\ entry[e].key = k /\ e \in 1..n
    BY <1>2, <1>3
  <2>2. entry[e] \in EntryType
    BY <2>1, <1>1
  <2> QED
    BY <2>1, <2>2, <1>3 DEF EntryType
<1>6. before(e) = {p \in Met(NextOf(entry), vector[b]) : entry[p].next = e}
  BY <1>2, <1>3
<1>m. Met(NextOf(entry), vector[b]) \subseteq 1..n
  <2> DEFINE u == vector[b]
             nx == NextOf(entry)
  <2>1. u \in 0..n /\ n \in Nat /\ nx \in [1..n -> 0..n]
    BY <1>1, <1>3
  <2> HIDE DEF u, n, nx
  <2>2. Met(nx, u) \subseteq 1..n
    BY <2>1, MetFacts
  <2> QED
    BY <2>2 DEF u, nx
<1>n. before(e) \subseteq 1..n
  BY <1>6, <1>m
<1>7. /\ entry' \in Seq(EntryType) /\ Len(entry') = n
      /\ \A p \in 1..n : /\ entry'[p].key = entry[p].key /\ entry'[p].alive = entry[p].alive
                         /\ entry'[p].next = IF p \in before(e) THEN entry[e].next ELSE entry[p].next
  <2>1. CASE before(e) = {}
    BY <2>1, <1>1, <1>4
  <2>2. CASE before(e) # {}
    <3> DEFINE B == before(e)
               x == entry[e].next
    <3>1. entry' = [p \in 1..n |-> IF p \in B THEN [entry[p] EXCEPT !.next = x] ELSE entry[p]]
      BY <2>2, <1>4 DEF Entries
    <3>2. x \in 0..MaxEntries /\ n \in Nat /\ \A p \in 1..n : entry[p] \in EntryType
      BY <1>1, <1>5
    <3> HIDE DEF B, x, n
    <3>3. \A p \in 1..n : (IF p \in B THEN [entry[p] EXCEPT !.next = x] ELSE entry[p]) \in EntryType
      BY <3>2 DEF EntryType
    <3>4. entry' \in Seq(EntryType) /\ Len(entry') = n
      BY <3>1, <3>2, <3>3
    <3>5. \A p \in 1..n : entry'[p] = IF p \in B THEN [entry[p] EXCEPT !.next = x] ELSE entry[p]
      BY <3>1
    <3>6. \A p \in 1..n : /\ entry'[p].key = entry[p].key /\ entry'[p].alive = entry[p].alive
                          /\ entry'[p].next = IF p \in B THEN x ELSE entry[p].next
      BY <3>2, <3>5 DEF EntryType
    <3> QED
      BY <3>4, <3>6 DEF B, x
  <2> QED
    BY <2>1, <2>2
<1>8. /\ vector' \in Seq(0..MaxEntries) /\ Len(vector') = Size
      /\ \A a \in 1..Size : vector'[a] = IF a = b /\ before(e) = {} THEN entry[e].next ELSE vector[a]
  <2>1. CASE before(e) = {}
    <3>1. vector' = [vector EXCEPT ![b] = entry[e].next]
      BY <2>1, <1>4
    <3> DEFINE P == 0..MaxEntries
               x == entry[e].next
    <3>2. vector \in Seq(P) /\ x \in P /\ vector' = [vector EXCEPT ![b] = x]
      BY <3>1, <1>1, <1>5
    <3> HIDE DEF b, P, x
    <3>3. vector' \in Seq(P) /\ Len(vector') = Len(vector)
          /\ \A a \in 1..Len(vector) : vector'[a] = IF a = b THEN x ELSE vector[a]
      <4>1. vector' \in Seq(P)
        <5> DEFINE m == Len(vector)
                   g == [a \in 1..m |-> IF a = b THEN x ELSE vector[a]]
        <5>1. m \in Nat /\ vector' = g /\ \A a \in 1..m : g[a] \in P
          <6>1. m \in Nat /\ vector \in [1..m -> P]
            BY <3>2
          <6>2. x \in P /\ vector' = [vector EXCEPT ![b] = x]
            BY <3>2
          <6> HIDE DEF m
          <6>3. vector' = g
            BY <6>1, <6>2
          <6>4. \A a \in 1..m : g[a] \in P
            BY <6>1, <6>2
          <6> QED
            BY <6>1, <6>3, <6>4
        <5>2. g = [a \in 1..m |-> g[a]]
          OBVIOUS
        <5> HIDE DEF g, m
        <5>3. g \in Seq(P)
          BY <5>1, <5>2
        <5> QED
          BY <5>1, <5>3
      <4>2. Len(vector') = Len(vector)
        BY <3>2
      <4>3. \A a \in 1..Len(vector) : vector'[a] = IF a = b THEN x ELSE vector[a]
        BY <3>2
      <4> QED
        BY <4>1, <4>2, <4>3
    <3> QED
      BY <3>3, <2>1 DEF Size, P, x
  <2>2. CASE before(e) # {}
    BY <2>2, <1>1, <1>4 DEF Size
  <2> QED
    BY <2>1, <2>2
<1>9. Unlinked(entry, vector, e, entry', vector')
  <2>1. b = Bucket(entry[e].key, Len(vector))
    BY <1>5 DEF Size
  <2> HIDE DEF b
  <2> QED
    BY <1>6, <1>7, <1>8, <2>1 DEF Unlinked, Size
<1>10. /\ TableSound(entry', vector', count - 1) /\ Lp = L \ {e}
       /\ \A z \in 0..n : /\ Met(NextOf(entry'), z) \subseteq Met(NextOf(entry), z)
                          /\ Met(NextOf(entry), z) \ {e} \subseteq Met(NextOf(entry'), z)
  BY <1>1, <1>5, <1>9, UnlinkTable
<1> HIDE DEF b, before
<1>11. DictionaryTypeOK' /\ TableSound(entry, vector, count)'
  <2>1. TableSound(entry', vector', count')
    BY <1>4, <1>10
  <2>2. count' \in 0..n
    BY <2>1, <1>7, TableFacts
  <2>3. count' \in 0..MaxEntries /\ n <= MaxEntries
    BY <2>2, <1>1, MaxEntriesAssumption DEF DictionaryTypeOK
  <2>4. /\ entry' \in Seq(EntryType) /\ Len(entry') <= MaxEntries /\ vector' \in Seq(0..MaxEntries)
        /\ iter' = iter /\ visits' = visits /\ grown' = grown /\ stayed' \subseteq stayed
    BY <2>3, <1>4, <1>7, <1>8
  <2>5. DictionaryTypeOK'
    BY <2>3, <2>4, <1>1 DEF DictionaryTypeOK, EntryType
  <2> QED
    BY <2>1, <2>5
<1>12. Mp \subseteq M /\ M \ {e} \subseteq Mp /\ M \subseteq 1..n /\ iter' = iter
  <2>1. M \subseteq 1..n
    BY <1>1, <1>3, MetFacts
  <2> QED
    BY <2>1, <1>1, <1>4, <1>10
<1>13. Size' = Size
  BY <1>8 DEF Size
<1>14. ASSUME iter.at \in {"find", "current"}, ~grown' PROVE IteratorSound'
  <2>1. RestSound /\ StayersPresent /\ AnsweredOnce
    BY <1>4, <1>14 DEF DictionaryInv, IteratorSound
  <2>2. \A x \in 1..n : entry'[x].key = entry[x].key /\ entry'[x].alive = entry[x].alive
    BY <1>7
  <2>3. \A x \in 1..n : x # e => (InTable(x)' <=> InTable(x)) /\ (Ahead(x)' <=> Ahead(x))
    <3> TAKE x \in 1..n
    <3> HAVE x # e
    <3>1. x \in Lp <=> x \in L
      BY <1>10
    <3>2. x \in Mp <=> x \in M
      BY <1>12
    <3> QED
      BY <2>2, <3>1, <3>2, <1>12, <1>13 DEF InTable, Ahead
  <2>4. \A x \in 1..n : entry[x].key \in stayed' => x # e /\ entry[x].key \in stayed
    BY <1>4, <1>5
  <2> HIDE DEF L, M, Lp, Mp, n
  <2>5. RestSound'
    <3>1. \A y \in M : /\ Bucket(entry[y].key, Size) + 1 = iter.bucket
                       /\ entry[y].alive /\ entry[y].key \in stayed => InTable(y)
      BY <2>1 DEF RestSound, M
    <3>2. ASSUME NEW y \in Mp
          PROVE  /\ Bucket(entry'[y].key, Size) + 1 = iter.bucket
                 /\ entry'[y].alive /\ entry'[y].key \in stayed' => InTable(y)'
      <4>1. y \in M /\ y \in 1..n
        BY <1>12
      <4> QED
        BY <4>1, <3>1, <2>2, <2>3, <2>4
    <3> QED
      BY <3>2, <1>12, <1>13 DEF RestSound, Mp, Bucket
  <2>6. StayersPresent'
    <3>1. \A x \in stayed : \E y \in L : InTable(y) /\ entry[y].key = x
      BY <2>1 DEF StayersPresent, L
    <3>2. ASSUME NEW x \in stayed' PROVE \E y \in Lp : InTable(y)' /\ entry'[y].key = x
      <4>1. x \in stayed /\ x # k
        BY <1>4
      <4>2. PICK y \in L : InTable(y) /\ entry[y].key = x
        BY <3>1, <4>1
      <4>3. y # e /\ y \in 1..n
        BY <4>1, <4>2, <1>3, <1>5 DEF n
      <4> QED
        BY <4>2, <4>3, <2>2, <2>3, <1>10
    <3> QED
      BY <3>2 DEF StayersPresent, Lp
  <2>7. AnsweredOnce'
    <3>1. \A y \in L : InTable(y) /\ entry[y].key \in stayed => visits[entry[y].key] = IF Ahead(y) THEN 0 ELSE 1
      BY <2>1 DEF AnsweredOnce, L
    <3>2. ASSUME NEW y \in Lp, InTable(y)', entry'[y].key \in stayed'
          PROVE  visits'[entry'[y].key] = IF Ahead(y)' THEN 0 ELSE 1
      <4>1. y \in L /\ y # e /\ y \in 1..n
        BY <1>10, <1>3
      <4>2. entry'[y].key = entry[y].key /\ InTable(y) /\ (Ahead(y)' <=> Ahead(y)) /\ entry[y].key \in stayed
        BY <4>1, <3>2, <2>2, <2>3, <2>4
      <4> QED
        BY <4>1, <4>2, <3>1, <1>4
    <3> QED
      BY <3>2 DEF AnsweredOnce, Lp
  <2> QED
    BY <2>5, <2>6, <2>7 DEF IteratorSound
<1>15. StayersVisitedOnce'
  BY <1>4 DEF DictionaryInv, StayersVisitedOnce
<1>16. iter'.entry \in 0..Len(entry')
  BY <1>1, <1>7, <1>12
<1> QED
  BY <1>4, <1>11, <1>14, <1>15, <1>16 DEF DictionaryInv

(* The collector takes a key, and an iteration has it no more to answer.   *)
LEMMA KeyDiesKeeps == ASSUME DictionaryInv, NEW e \in Entries, KeyDies(e) PROVE DictionaryInv'
<1> DEFINE n == Len(entry)
           L == Linked(entry, vector)
<1>1. /\ DictionaryTypeOK /\ TableSound(entry, vector, count) /\ iter.entry \in 0..n
      /\ entry \in Seq(EntryType) /\ n \in Nat /\ e \in 1..n /\ entry[e] \in EntryType
  <2>1. DictionaryTypeOK /\ TableSound(entry, vector, count) /\ iter.entry \in 0..n
    BY DEF DictionaryInv
  <2>2. entry \in Seq(EntryType)
    BY <2>1 DEF DictionaryTypeOK, EntryType
  <2>3. n \in Nat /\ e \in 1..n
    BY <2>1 DEF TableSound, Entries
  <2>4. entry[e] \in EntryType
    BY <2>2, <2>3
  <2> QED
    BY <2>1, <2>2, <2>3, <2>4
<1>2. /\ entry[e].alive /\ entry' = [entry EXCEPT ![e].alive = FALSE]
      /\ stayed' = IF e \in Found(entry[e].key) THEN stayed \ {entry[e].key} ELSE stayed
      /\ UNCHANGED <<vector, count, iter, visits, grown>>
  BY DEF KeyDies
<1>3. Found(entry[e].key) = {x \in L : entry[x].alive /\ entry[x].key = entry[e].key}
  BY <1>1, DictionaryFacts DEF EntryType
<1>4. /\ entry' \in Seq(EntryType) /\ Len(entry') = n
      /\ \A p \in 1..n : /\ entry'[p].key = entry[p].key /\ entry'[p].next = entry[p].next
                         /\ entry'[p].alive = (entry[p].alive /\ p # e)
  <2>1. entry' = [entry EXCEPT ![e] = [entry[e] EXCEPT !.alive = FALSE]]
    BY <1>2
  <2> DEFINE r == [entry[e] EXCEPT !.alive = FALSE]
  <2>2. r \in EntryType /\ r.key = entry[e].key /\ r.next = entry[e].next /\ r.alive = FALSE
    BY <1>1 DEF EntryType
  <2>3. entry' = [entry EXCEPT ![e] = r]
    BY <2>1
  <2> HIDE DEF r
  <2>4. entry' \in Seq(EntryType) /\ Len(entry') = n /\ \A p \in 1..n : entry'[p] = IF p = e THEN r ELSE entry[p]
    BY <2>2, <2>3, <1>1
  <2>5. \A p \in 1..n : entry[p].alive \in BOOLEAN
    <3>1. \A p \in 1..n : entry[p] \in EntryType
      BY <1>1
    <3> QED
      BY <3>1 DEF EntryType
  <2>6. ASSUME NEW p \in 1..n
        PROVE  /\ entry'[p].key = entry[p].key /\ entry'[p].next = entry[p].next
               /\ entry'[p].alive = (entry[p].alive /\ p # e)
    <3>1. CASE p = e
      BY <3>1, <2>2, <2>4
    <3>2. CASE p # e
      BY <3>2, <2>4, <2>5
    <3> QED
      BY <3>1, <3>2
  <2> QED
    BY <2>4, <2>6
<1>5. /\ TableSound(entry', vector', count')
      /\ NextOf(entry') = NextOf(entry) /\ Linked(entry', vector') = L
  <2>1. TableSound(entry', vector, count) /\ NextOf(entry') = NextOf(entry) /\ Linked(entry', vector) = L
    BY <1>1, <1>4, DeadTable
  <2> QED
    BY <2>1, <1>2
<1>6. L \subseteq 1..n /\ Met(NextOf(entry), iter.entry) \subseteq 1..n
  <2>1. NextOf(entry) \in [1..n -> 0..n] /\ L \subseteq 1..n
    BY <1>1, TableFacts
  <2> QED
    BY <2>1, <1>1, MetFacts
<1>7. DictionaryTypeOK'
  BY <1>1, <1>2, <1>4 DEF DictionaryTypeOK, EntryType
<1>8. ASSUME iter.at \in {"find", "current"}, ~grown' PROVE IteratorSound'
  <2>1. RestSound /\ StayersPresent /\ AnsweredOnce
    BY <1>2, <1>8 DEF DictionaryInv, IteratorSound
  <2>2. Size' = Size /\ iter' = iter /\ visits' = visits /\ stayed' \subseteq stayed
    BY <1>2 DEF Size
  <2>3. \A x \in 1..n : /\ entry'[x].key = entry[x].key /\ (Ahead(x)' <=> Ahead(x))
                        /\ InTable(x)' <=> InTable(x) /\ x # e
    BY <2>2, <1>4, <1>5 DEF InTable, Ahead
  <2>4. e \in L => entry[e].key \notin stayed'
    BY <1>2, <1>3
  <2> HIDE DEF n, L
  <2>5. RestSound'
    <3>1. \A y \in Met(NextOf(entry), iter.entry) :
             /\ Bucket(entry[y].key, Size) + 1 = iter.bucket
             /\ entry[y].alive /\ entry[y].key \in stayed => InTable(y)
      BY <2>1 DEF RestSound
    <3>2. ASSUME NEW y \in Met(NextOf(entry), iter.entry)
          PROVE  /\ Bucket(entry'[y].key, Size) + 1 = iter.bucket
                 /\ entry'[y].alive /\ entry'[y].key \in stayed' => InTable(y)'
      <4>1. y \in 1..n
        BY <1>6
      <4> QED
        BY <4>1, <3>1, <2>2, <2>3, <1>4
    <3> QED
      BY <3>2, <2>2, <1>5 DEF RestSound, Bucket
  <2>6. StayersPresent'
    <3>1. \A x \in stayed : \E y \in L : InTable(y) /\ entry[y].key = x
      BY <2>1 DEF StayersPresent, L
    <3>2. \A x \in stayed' : \E y \in L : InTable(y)' /\ entry'[y].key = x
      BY <3>1, <2>2, <2>3, <2>4, <1>6
    <3> QED
      BY <3>2, <1>5 DEF StayersPresent
  <2>7. AnsweredOnce'
    <3>1. \A y \in L : InTable(y) /\ entry[y].key \in stayed => visits[entry[y].key] = IF Ahead(y) THEN 0 ELSE 1
      BY <2>1 DEF AnsweredOnce, L
    <3>2. ASSUME NEW y \in L, InTable(y)', entry'[y].key \in stayed'
          PROVE  visits'[entry'[y].key] = IF Ahead(y)' THEN 0 ELSE 1
      <4>1. y \in 1..n
        BY <1>6
      <4> QED
        BY <4>1, <3>1, <3>2, <2>2, <2>3
    <3> QED
      BY <3>2, <1>5 DEF AnsweredOnce
  <2> QED
    BY <2>5, <2>6, <2>7 DEF IteratorSound
<1>9. StayersVisitedOnce'
  <2>1. stayed' \subseteq stayed
    BY <1>2
  <2> QED
    BY <2>1, <1>2 DEF DictionaryInv, StayersVisitedOnce
<1> QED
  BY <1>1, <1>2, <1>4, <1>5, <1>7, <1>8, <1>9 DEF DictionaryInv

(* The table as an iterator's step finds it, which changes none of it.     *)
LEMMA IteratorFacts ==
  ASSUME DictionaryInv
  PROVE  /\ DictionaryTypeOK /\ TableSound(entry, vector, count) /\ iter.entry \in 0..Len(entry)
         /\ Len(entry) \in Nat /\ Size \in Nat /\ Len(entry) <= MaxEntries
         /\ NextOf(entry) \in [1..Len(entry) -> 0..Len(entry)] /\ Acyclic(NextOf(entry))
         /\ Linked(entry, vector) \subseteq 1..Len(entry)
         /\ Met(NextOf(entry), iter.entry) \subseteq 1..Len(entry)
         /\ \A e \in 1..Len(entry) : entry[e].key \in Keys /\ NextOf(entry)[e] = entry[e].next
         /\ \A k \in Keys : Bucket(k, Size) \in 1..Size
         /\ \A b \in 1..Size : vector[b] \in 0..Len(entry)
         /\ \A b \in 1..Size : Chain(b) = {e \in Linked(entry, vector) : Bucket(entry[e].key, Size) = b}
         /\ \A b \in 1..Size : Chain(b) = Met(NextOf(entry), vector[b])
         /\ \A e \in 0..Len(entry) : ChainFrom(e) = Met(NextOf(entry), e)
         /\ iter.bucket \in Nat \ {0}
<1>1. DictionaryTypeOK /\ TableSound(entry, vector, count) /\ iter.entry \in 0..Len(entry)
  BY DEF DictionaryInv
<1>2. /\ Len(entry) \in Nat /\ Size \in Nat /\ Acyclic(NextOf(entry))
      /\ \A e \in 1..Len(entry) : entry[e].key \in Keys
      /\ \A b \in 1..Size : vector[b] \in 0..Len(entry)
  BY <1>1 DEF TableSound, Size
<1>3. /\ NextOf(entry) \in [1..Len(entry) -> 0..Len(entry)]
      /\ \A e \in 1..Len(entry) : NextOf(entry)[e] = entry[e].next
      /\ Linked(entry, vector) \subseteq 1..Len(entry)
      /\ \A b \in 1..Size : Met(NextOf(entry), vector[b]) = {e \in Linked(entry, vector) : Bucket(entry[e].key, Size) = b}
      /\ \A k \in Keys : Bucket(k, Size) \in 1..Size
  BY <1>1, TableFacts DEF Size
<1>4. Met(NextOf(entry), iter.entry) \subseteq 1..Len(entry)
  BY <1>1, <1>2, <1>3, MetFacts
<1>5. /\ \A b \in 1..Size : Chain(b) = Met(NextOf(entry), vector[b])
      /\ \A e \in 0..Len(entry) : ChainFrom(e) = Met(NextOf(entry), e)
  BY <1>1, DictionaryFacts
<1>6. iter.bucket \in Nat \ {0} /\ Len(entry) <= MaxEntries
  BY <1>1 DEF DictionaryTypeOK
<1> QED
  BY <1>1, <1>2, <1>3, <1>4, <1>5, <1>6

(* identity_dictionary_iterator_new has the whole table ahead.             *)
LEMMA NewIteratorKeeps == ASSUME DictionaryInv, NewIterator PROVE DictionaryInv'
<1> DEFINE n == Len(entry)
           L == Linked(entry, vector)
<1>1. /\ DictionaryTypeOK /\ TableSound(entry, vector, count)
      /\ n \in Nat /\ NextOf(entry) \in [1..n -> 0..n] /\ L \subseteq 1..n
      /\ \A e \in 1..n : entry[e].key \in Keys
      /\ \A k \in Keys : Bucket(k, Size) \in 1..Size
      /\ Size \in Nat
  BY IteratorFacts
<1>2. /\ iter.at = "none" /\ iter' = [NoIterator EXCEPT !.at = "find"]
      /\ stayed' = PresentKeys /\ grown' = FALSE
      /\ UNCHANGED <<entry, vector, count, visits>>
  BY DEF NewIterator
<1>3. iter'.at = "find" /\ iter'.bucket = 1 /\ iter'.entry = 0
      /\ iter' \in [at : {"none", "find", "current", "end"}, bucket : Nat \ {0}, entry : 0..MaxEntries]
  <2>1. 0 \in 0..MaxEntries /\ 1 \in Nat \ {0}
    BY MaxEntriesAssumption
  <2> QED
    BY <2>1, <1>2 DEF NoIterator
<1>4. \A k \in Keys : visits[k] = 0
  BY <1>2 DEF DictionaryInv
<1>5. PresentKeys \subseteq Keys /\ \A k \in PresentKeys : \E e \in L : entry[e].alive /\ entry[e].key = k
  <2>1. \A k \in Keys : Found(k) = {e \in L : entry[e].alive /\ entry[e].key = k}
    BY <1>1, DictionaryFacts
  <2> QED
    BY <2>1 DEF PresentKeys
<1>6. DictionaryTypeOK'
  BY <1>1, <1>2, <1>3, <1>5 DEF DictionaryTypeOK
<1>7. TableSound(entry, vector, count)' /\ Linked(entry', vector') = L /\ Size' = Size
  BY <1>1, <1>2 DEF Size
<1>8. Met(NextOf(entry), 0) = {}
  BY <1>1, MetFacts
<1>9. RestSound'
  BY <1>2, <1>3, <1>8 DEF RestSound
<1>10. StayersPresent'
  BY <1>2, <1>5, <1>7 DEF StayersPresent, InTable
<1>11. AnsweredOnce'
  <2>1. ASSUME NEW e \in L PROVE Ahead(e)' /\ visits'[entry'[e].key] = 0
    <3>1. entry'[e].key \in Keys /\ Bucket(entry'[e].key, Size') \in 1..Size
      BY <1>1, <1>2, <1>7
    <3>2. iter'.bucket <= Bucket(entry'[e].key, Size')
      BY <3>1, <1>1, <1>3
    <3> QED
      BY <3>1, <3>2, <1>2, <1>4 DEF Ahead
  <2> QED
    BY <2>1, <1>7 DEF AnsweredOnce
<1>12. iter'.entry \in 0..Len(entry')
  BY <1>1, <1>2, <1>3
<1> QED
  BY <1>3, <1>6, <1>7, <1>9, <1>10, <1>11, <1>12 DEF DictionaryInv, IteratorSound, StayersVisitedOnce

(* identity_dictionary_iterator_advance goes on after the current entry.   *)
LEMMA AdvanceKeeps == ASSUME DictionaryInv, Advance PROVE DictionaryInv'
<1> DEFINE n == Len(entry)
           L == Linked(entry, vector)
           nx == NextOf(entry)
           c == iter.entry
<1>1. /\ DictionaryTypeOK /\ TableSound(entry, vector, count)
      /\ n \in Nat /\ nx \in [1..n -> 0..n] /\ Acyclic(nx) /\ L \subseteq 1..n /\ n <= MaxEntries
      /\ \A e \in 1..n : nx[e] = entry[e].next
      /\ c \in 0..n
  BY IteratorFacts
<1>2. /\ iter.at = "current" /\ iter' = [iter EXCEPT !.at = "find", !.entry = entry[c].next]
      /\ UNCHANGED <<entry, vector, count, visits, stayed, grown>>
  BY DEF Advance
<1>3. c \in 1..n /\ entry[c].next = nx[c] /\ nx[c] \in 0..n /\ nx[c] \in 0..MaxEntries
  <2>1. c # 0
    BY <1>2 DEF DictionaryInv
  <2>2. c \in 1..n
    BY <2>1, <1>1
  <2>3. nx[c] \in 0..n
    BY <2>2, <1>1
  <2> QED
    BY <2>2, <2>3, <1>1, MaxEntriesAssumption
<1>4. iter'.at = "find" /\ iter'.entry = nx[c] /\ iter'.bucket = iter.bucket
      /\ iter' \in [at : {"none", "find", "current", "end"}, bucket : Nat \ {0}, entry : 0..MaxEntries]
  <2>1. iter \in [at : {"none", "find", "current", "end"}, bucket : Nat \ {0}, entry : 0..MaxEntries]
    BY <1>1 DEF DictionaryTypeOK
  <2> HIDE DEF nx, c
  <2> QED
    BY <2>1, <1>2, <1>3
<1>5. Met(nx, c) = {c} \cup Met(nx, nx[c]) /\ c \notin Met(nx, nx[c])
  <2>1. c \in 0..n /\ c # 0 /\ DOMAIN nx = 1..n
    BY <1>1, <1>3
  <2>2. Met(nx, c) = {c} \cup Met(nx, nx[c])
    <3> HIDE DEF nx, c, n
    <3> QED
      BY <2>1, <1>1, MetFacts
  <2> QED
    BY <2>2, <2>1, <1>1, <1>3 DEF Acyclic
<1>6. DictionaryTypeOK'
  BY <1>1, <1>2, <1>4 DEF DictionaryTypeOK
<1>7. TableSound(entry, vector, count)' /\ Linked(entry', vector') = L /\ Size' = Size
  BY <1>1, <1>2 DEF Size
<1>8. ASSUME ~grown' PROVE IteratorSound'
  <2>1. RestSound /\ StayersPresent /\ AnsweredOnce
    BY <1>2, <1>8 DEF DictionaryInv, IteratorSound
  <2>2. \A e : InTable(e)' <=> InTable(e)
    BY <1>2, <1>7 DEF InTable
  <2>3. \A e : Ahead(e)' <=> Ahead(e)
    <3> TAKE e
    <3>1. Ahead(e)' <=> \/ iter.bucket <= Bucket(entry[e].key, Size)
                        \/ e \in Met(nx, nx[c])
      BY <1>2, <1>4, <1>7 DEF Ahead
    <3>2. Ahead(e) <=> \/ iter.bucket <= Bucket(entry[e].key, Size)
                       \/ e \in Met(nx, c) /\ e # c
      BY <1>2 DEF Ahead
    <3> QED
      BY <3>1, <3>2, <1>5
  <2>4. RestSound'
    BY <2>1, <2>2, <1>2, <1>4, <1>5, <1>7 DEF RestSound
  <2>5. StayersPresent'
    BY <2>1, <2>2, <1>2, <1>7 DEF StayersPresent
  <2>6. AnsweredOnce'
    BY <2>1, <2>2, <2>3, <1>2, <1>7 DEF AnsweredOnce
  <2> QED
    BY <2>4, <2>5, <2>6 DEF IteratorSound
<1>9. iter'.entry \in 0..Len(entry')
  BY <1>2, <1>3, <1>4
<1> QED
  BY <1>4, <1>6, <1>7, <1>8, <1>9 DEF DictionaryInv, StayersVisitedOnce

(* From the first live entry of a chain all the live ones of it are met.   *)
LEMMA FirstIsFirst ==
  ASSUME DictionaryInv
  PROVE  \A z \in 0..Len(entry) : Live(ChainFrom(z)) # {} =>
           LET S == Live(ChainFrom(z))
               e == FirstOf(S) IN
           e \in S /\ S \subseteq Met(NextOf(entry), e) /\ Met(NextOf(entry), e) \subseteq ChainFrom(z)
<1> DEFINE n == Len(entry)
           nx == NextOf(entry)
<1>1. n \in Nat /\ nx \in [1..n -> 0..n] /\ Acyclic(nx) /\ \A e \in 0..n : ChainFrom(e) = Met(nx, e)
  BY IteratorFacts
<1> HIDE DEF n, nx
<1>2. SUFFICES ASSUME NEW z \in 0..n, NEW S, S = Live(ChainFrom(z)), S # {}
               PROVE  FirstOf(S) \in S /\ S \subseteq Met(nx, FirstOf(S)) /\ Met(nx, FirstOf(S)) \subseteq ChainFrom(z)
  BY DEF n, nx
<1>3. S \in SUBSET Met(nx, z) /\ Met(nx, z) \subseteq 1..n
  <2>1. Met(nx, z) \subseteq 1..n
    BY <1>1, MetFacts
  <2> QED
    BY <2>1, <1>1, <1>2 DEF Live
<1>4. \A Q \in SUBSET Met(nx, z) : Q # {} =>
        /\ \E l \in Q : \A q \in Q : l \in Met(nx, q)
        /\ \E f \in Q : Q \subseteq Met(nx, f)
  <2>1. n \in Nat /\ nx \in [1..n -> 0..n] /\ Acyclic(nx) /\ z \in 0..n
    BY <1>1
  <2> QED
    BY <2>1, ChainEnds
<1>5. PICK f \in S : S \subseteq Met(nx, f)
  BY <1>2, <1>3, <1>4
<1>6. \A q \in S : ChainFrom(q) = Met(nx, q)
  <2>1. \A q \in S : q \in 0..n
    BY <1>1, <1>3
  <2> QED
    BY <2>1, <1>1
<1>7. FirstOf(S) \in S /\ S \subseteq ChainFrom(FirstOf(S))
  <2>1. f \in S /\ S \subseteq ChainFrom(f)
    BY <1>5, <1>6
  <2> QED
    BY <2>1 DEF FirstOf
<1>8. Met(nx, FirstOf(S)) \subseteq Met(nx, z)
  BY <1>1, <1>3, <1>7, MetOrder
<1> QED
  BY <1>1, <1>6, <1>7, <1>8

(* identity_dictionary_iterator_find_current: the first live entry of the  *)
(* rest of the chain, or of the first bucket from bucket_index on that has *)
(* one, leaves the others ahead; without one everything is answered.       *)
LEMMA FindCurrentKeeps == ASSUME DictionaryInv, FindCurrent PROVE DictionaryInv'
<1> DEFINE n == Len(entry)
           L == Linked(entry, vector)
           nx == NextOf(entry)
           M == Met(nx, iter.entry)
           here == Live(ChainFrom(iter.entry))
           later == {b \in iter.bucket..Size : Live(Chain(b)) # {}}
           b == CHOOSE x \in later : \A y \in later : x <= y
           S == IF here # {} THEN here ELSE Live(Chain(b))
           e == FirstOf(S)
           IterType == [at : {"none", "find", "current", "end"}, bucket : Nat \ {0}, entry : 0..MaxEntries]
<1>1. /\ DictionaryTypeOK /\ TableSound(entry, vector, count) /\ iter.entry \in 0..n
      /\ n \in Nat /\ Size \in Nat /\ nx \in [1..n -> 0..n] /\ L \subseteq 1..n /\ n <= MaxEntries
      /\ M \subseteq 1..n
      /\ \A x \in 1..n : entry[x].key \in Keys
      /\ \A k \in Keys : Bucket(k, Size) \in 1..Size
      /\ \A a \in 1..Size : vector[a] \in 0..n
      /\ \A a \in 1..Size : Chain(a) = {x \in L : Bucket(entry[x].key, Size) = a}
      /\ \A a \in 1..Size : Chain(a) = ChainFrom(vector[a])
      /\ ChainFrom(iter.entry) = M
      /\ iter.bucket \in Nat \ {0}
  BY IteratorFacts DEF Chain
<1>2. iter.at = "find" /\ UNCHANGED <<entry, vector, count, stayed, grown>>
  BY DEF FindCurrent
<1>3. /\ here = {} /\ later = {} =>
           /\ iter' = [at |-> "end", entry |-> 0, bucket |-> IF iter.bucket > Size THEN iter.bucket ELSE Size + 1]
           /\ visits' = visits
      /\ ~(here = {} /\ later = {}) =>
           /\ iter' = [at |-> "current", entry |-> e, bucket |-> IF here # {} THEN iter.bucket ELSE b + 1]
           /\ visits' = [visits EXCEPT ![entry[e].key] = @ + 1]
  BY DEF FindCurrent
<1>4. later # {} => b \in later /\ \A y \in later : b <= y
  <2> SUFFICES ASSUME later # {} PROVE b \in later /\ \A y \in later : b <= y
    OBVIOUS
  <2>1. later \subseteq Nat
    BY <1>1
  <2>2. \E x \in later : \A y \in later : x <= y
    <3> HIDE DEF later
    <3> QED
      BY <2>1, LeastNatural
  <2> HIDE DEF later
  <2> QED
    BY <2>2
<1>5. \A z \in 0..n : Live(ChainFrom(z)) # {} =>
        LET T == Live(ChainFrom(z))
            f == FirstOf(T) IN
        f \in T /\ T \subseteq Met(nx, f) /\ Met(nx, f) \subseteq ChainFrom(z)
  BY FirstIsFirst
<1>6. \A x : x \in here <=> x \in M /\ entry[x].alive
  BY <1>1 DEF Live
<1>7. \A a \in 1..Size : \A x : x \in Live(Chain(a)) <=> InTable(x) /\ Bucket(entry[x].key, Size) = a
  BY <1>1 DEF Live, InTable
<1>8. \A a : a \in later <=> a \in iter.bucket..Size /\ Live(Chain(a)) # {}
  OBVIOUS
<1>9. iter.bucket..Size \subseteq 1..Size
  BY <1>1
<1>s. e = FirstOf(S) /\ S = IF here # {} THEN here ELSE Live(Chain(b))
  OBVIOUS
<1>h. here = Live(ChainFrom(iter.entry))
  OBVIOUS
<1>10. TableSound(entry, vector, count)' /\ Linked(entry', vector') = L /\ Size' = Size /\ NextOf(entry') = nx
  BY <1>1, <1>2 DEF Size
<1>11. \A x, y \in L : InTable(x) /\ InTable(y) /\ entry[x].key = entry[y].key => x = y
  BY <1>1 DEF TableSound, InTable
<1>12. \A x : InTable(x) => x \in L /\ x \in 1..n /\ entry[x].key \in Keys /\ Bucket(entry[x].key, Size) \in 1..Size
  BY <1>1 DEF InTable
<1> HIDE DEF here, later, b, S, e, n, L, nx, M
<1>13. ASSUME IteratorSound
       PROVE  /\ \A y \in M : /\ Bucket(entry[y].key, Size) + 1 = iter.bucket
                              /\ entry[y].alive /\ entry[y].key \in stayed => InTable(y)
              /\ \A k \in stayed : \E x \in L : InTable(x) /\ entry[x].key = k
              /\ \A x : InTable(x) /\ entry[x].key \in stayed =>
                   visits[entry[x].key] = IF iter.bucket <= Bucket(entry[x].key, Size) \/ x \in M THEN 0 ELSE 1
  <2>1. RestSound /\ StayersPresent /\ AnsweredOnce
    BY <1>13 DEF IteratorSound
  <2>2. \A x : Ahead(x) <=> iter.bucket <= Bucket(entry[x].key, Size) \/ x \in M
    BY <1>2 DEF Ahead, M, nx
  <2> QED
    BY <2>1, <2>2, <1>12 DEF RestSound, StayersPresent, AnsweredOnce, M, nx, L
<1>14. CASE here = {} /\ later = {}
  <2> DEFINE c == IF iter.bucket > Size THEN iter.bucket ELSE Size + 1
  <2>1. iter' = [at |-> "end", entry |-> 0, bucket |-> c] /\ visits' = visits /\ c \in Nat \ {0} /\ 0 \in 0..MaxEntries
    BY <1>1, <1>3, <1>14, MaxEntriesAssumption
  <2> HIDE DEF c
  <2>2. iter' \in IterType /\ iter'.at = "end" /\ iter'.entry = 0
    BY <2>1
  <2>3. DictionaryTypeOK'
    BY <2>1, <2>2, <1>1, <1>2 DEF DictionaryTypeOK
  <2>4. ASSUME ~grown' PROVE \A k \in stayed : visits[k] = 1
    <3>1. IteratorSound
      BY <2>4, <1>2 DEF DictionaryInv
    <3> SUFFICES ASSUME NEW k \in stayed PROVE visits[k] = 1
      OBVIOUS
    <3>2. PICK x \in L : InTable(x) /\ entry[x].key = k
      BY <3>1, <1>13
    <3>3. x \notin M
      BY <3>2, <1>6, <1>14 DEF InTable
    <3>4. ~(iter.bucket <= Bucket(entry[x].key, Size))
      <4> SUFFICES ASSUME iter.bucket <= Bucket(entry[x].key, Size) PROVE FALSE
        OBVIOUS
      <4> DEFINE a == Bucket(entry[x].key, Size)
      <4>1. a \in 1..Size /\ iter.bucket <= a
        BY <3>2, <1>12
      <4>2. x \in Live(Chain(a))
        BY <3>2, <4>1, <1>7
      <4>3. a \in iter.bucket..Size
        <5> HIDE DEF a
        <5> QED
          BY <4>1, <1>1
      <4> QED
        BY <4>2, <4>3, <1>8, <1>14
    <3> QED
      BY <3>1, <3>2, <3>3, <3>4, <1>13
  <2>5. StayersVisitedOnce'
    BY <2>1, <2>4, <1>2 DEF StayersVisitedOnce
  <2>6. iter'.entry \in 0..Len(entry')
    BY <2>2, <1>1, <1>2 DEF n
  <2> QED
    BY <2>2, <2>3, <2>5, <2>6, <1>10 DEF DictionaryInv
<1>15. CASE ~(here = {} /\ later = {})
  <2> DEFINE c == IF here # {} THEN iter.bucket ELSE b + 1
  <2>1. iter' = [at |-> "current", entry |-> e, bucket |-> c] /\ visits' = [visits EXCEPT ![entry[e].key] = @ + 1]
    BY <1>3, <1>15
  <2>2. here = {} => b \in 1..Size /\ b \in iter.bucket..Size /\ Live(Chain(b)) # {}
    BY <1>4, <1>8, <1>9, <1>15
  <2>3. e \in S /\ S \subseteq Met(nx, e) /\ entry[e].alive /\ e \in 1..n
        /\ (here # {} => Met(nx, e) \subseteq M) /\ (here = {} => Met(nx, e) \subseteq Chain(b))
    <3>1. CASE here # {}
      <4>1. e = FirstOf(here) /\ S = here
        BY <3>1, <1>s
      <4>2. e \in here /\ here \subseteq Met(nx, e) /\ Met(nx, e) \subseteq M
        BY <3>1, <4>1, <1>1, <1>5, <1>h
      <4> QED
        BY <3>1, <4>1, <4>2, <1>1, <1>6
    <3>2. CASE here = {}
      <4>1. e = FirstOf(Live(Chain(b))) /\ S = Live(Chain(b)) /\ vector[b] \in 0..n /\ Chain(b) = ChainFrom(vector[b])
        BY <3>2, <2>2, <1>1, <1>s
      <4>2. e \in S /\ S \subseteq Met(nx, e) /\ Met(nx, e) \subseteq Chain(b)
        BY <3>2, <4>1, <2>2, <1>5
      <4>3. InTable(e)
        <5>1. b \in 1..Size /\ e \in Live(Chain(b))
          BY <3>2, <4>1, <4>2, <2>2
        <5> QED
          BY <5>1, <1>7
      <4> QED
        BY <3>2, <4>2, <4>3, <1>12 DEF InTable
    <3> QED
      BY <3>1, <3>2
  <2>4. c \in Nat \ {0} /\ e \in 0..MaxEntries /\ e # 0
    BY <2>2, <2>3, <1>1, MaxEntriesAssumption
  <2> HIDE DEF c
  <2>5. iter' \in IterType /\ iter'.at = "current" /\ iter'.entry = e /\ iter'.bucket = c
    BY <2>1, <2>4
  <2>6. visits' \in [Keys -> Nat] /\ entry[e].key \in Keys
        /\ \A k \in Keys : visits'[k] = IF k = entry[e].key THEN visits[k] + 1 ELSE visits[k]
    <3> DEFINE k0 == entry[e].key
    <3>1. visits \in [Keys -> Nat] /\ k0 \in Keys
      BY <2>3, <1>1 DEF DictionaryTypeOK
    <3>2. visits' = [visits EXCEPT ![k0] = @ + 1]
      BY <2>1
    <3> HIDE DEF k0
    <3>3. visits' \in [Keys -> Nat] /\ \A k \in Keys : visits'[k] = IF k = k0 THEN visits[k] + 1 ELSE visits[k]
      BY <3>1, <3>2
    <3> QED
      BY <3>1, <3>3 DEF k0
  <2>7. DictionaryTypeOK'
    BY <2>5, <2>6, <1>1, <1>2 DEF DictionaryTypeOK
  <2>8. ASSUME ~grown' PROVE IteratorSound'
    <3>1. IteratorSound
      BY <2>8, <1>2 DEF DictionaryInv
    <3>2. \A x : (InTable(x)' <=> InTable(x))
                 /\ (Ahead(x)' <=> c <= Bucket(entry[x].key, Size) \/ (x \in Met(nx, e) /\ x # e))
      BY <2>5, <1>2, <1>10 DEF InTable, Ahead, L
    <3>3. \A y \in Met(nx, e) : /\ Bucket(entry[y].key, Size) + 1 = c
                                /\ entry[y].alive /\ entry[y].key \in stayed => InTable(y)
      <4>1. CASE here # {}
        BY <4>1, <2>3, <3>1, <1>13 DEF c
      <4>2. CASE here = {}
        <5>1. b \in 1..Size /\ Met(nx, e) \subseteq Chain(b) /\ c = b + 1
          BY <4>2, <2>2, <2>3 DEF c
        <5>2. Chain(b) = {y \in L : Bucket(entry[y].key, Size) = b}
          BY <5>1, <1>1
        <5> QED
          BY <5>1, <5>2 DEF InTable, L
      <4> QED
        BY <4>1, <4>2
    <3>4. RestSound'
      BY <3>2, <3>3, <2>5, <1>2, <1>10 DEF RestSound
    <3>5. StayersPresent'
      BY <3>1, <3>2, <1>2, <1>10, <1>13 DEF StayersPresent
    <3>6. e \in Met(nx, e) /\ (entry[e].key \in stayed => InTable(e))
      BY <2>3, <3>3
    <3>7. ASSUME NEW x, InTable(x), entry[x].key \in stayed
          PROVE  visits'[entry[x].key] = IF Ahead(x)' THEN 0 ELSE 1
      <4> DEFINE a == Bucket(entry[x].key, Size)
      <4>1. x \in L /\ entry[x].key \in Keys /\ a \in 1..Size /\ x \in Live(Chain(a)) /\ entry[x].alive
        BY <3>7, <1>7, <1>12 DEF InTable
      <4>2. visits[entry[x].key] = IF iter.bucket <= a \/ x \in M THEN 0 ELSE 1
        BY <3>1, <3>7, <1>13
      <4>3. Ahead(x)' <=> c <= a \/ (x \in Met(nx, e) /\ x # e)
        BY <3>2
      <4>4. x = e => iter.bucket <= a \/ x \in M
        <5>1. CASE here # {}
          BY <5>1, <3>6, <2>3
        <5>2. CASE here = {}
          <6>1. x = e => a = b
            BY <5>2, <4>1, <2>2, <2>3, <3>6, <1>1
          <6> QED
            BY <5>2, <6>1, <2>2, <1>1
        <5> QED
          BY <5>1, <5>2
      <4>5. x = e => ~(c <= a)
        <5>1. x = e => a + 1 = c
          BY <3>3, <3>6
        <5> HIDE DEF a
        <5> QED
          BY <5>1, <4>1, <2>4
      <4>6. x # e => ((iter.bucket <= a \/ x \in M) <=> (c <= a \/ x \in Met(nx, e)))
        <5>1. CASE here # {}
          <6>1. S = here
            BY <5>1, <1>s
          <6>2. x \in M <=> x \in Met(nx, e)
            BY <5>1, <6>1, <4>1, <2>3, <1>6
          <6> QED
            BY <5>1, <6>2 DEF c
        <5>2. CASE here = {}
          <6>1. x \notin M
            BY <5>2, <4>1, <1>6
          <6>2. x \in Met(nx, e) <=> a = b
            <7>1. S = Live(Chain(b))
              BY <5>2, <1>s
            <7>2. x \in Met(nx, e) => x \in Chain(b)
              BY <5>2, <2>3
            <7>3. x \in Chain(b) => a = b
              BY <5>2, <2>2, <1>1
            <7>4. a = b => x \in Met(nx, e)
              BY <7>1, <4>1, <2>3
            <7> QED
              BY <7>2, <7>3, <7>4
          <6>3. iter.bucket <= a => a \in later
            <7>1. iter.bucket <= a => a \in iter.bucket..Size
              <8> HIDE DEF a
              <8> QED
                BY <4>1, <1>1
            <7> QED
              BY <7>1, <4>1, <1>8
          <6>4. a \in later => b <= a
            BY <1>4
          <6>5. c = b + 1 /\ b \in Nat /\ iter.bucket <= b /\ a \in Nat
            <7>1. c = b + 1
              BY <5>2 DEF c
            <7>2. b \in 1..Size /\ b \in iter.bucket..Size
              BY <5>2, <2>2
            <7> HIDE DEF a
            <7> QED
              BY <7>1, <7>2, <4>1, <1>1
          <6> HIDE DEF a
          <6>6. iter.bucket <= a <=> b <= a
            BY <6>3, <6>4, <6>5, <1>1
          <6>7. b <= a <=> (b + 1 <= a \/ a = b)
            BY <6>5
          <6> QED
            BY <6>1, <6>2, <6>5, <6>6, <6>7
        <5> QED
          BY <5>1, <5>2
      <4>7. x # e => entry[x].key # entry[e].key
        BY <3>6, <3>7, <4>1, <1>11, <1>12
      <4>8. visits'[entry[x].key] = IF x = e THEN visits[entry[x].key] + 1 ELSE visits[entry[x].key]
        BY <4>1, <4>7, <2>6
      <4> HIDE DEF a
      <4>9. CASE x = e
        BY <4>9, <4>2, <4>3, <4>4, <4>5, <4>8
      <4>10. CASE x # e
        BY <4>10, <4>2, <4>3, <4>6, <4>8
      <4> QED
        BY <4>9, <4>10
    <3>8. AnsweredOnce'
      BY <3>2, <3>7, <1>2 DEF AnsweredOnce
    <3> QED
      BY <3>4, <3>5, <3>8 DEF IteratorSound
  <2>9. iter'.entry \in 0..Len(entry')
    BY <2>3, <2>5, <1>1, <1>2 DEF n
  <2> QED
    BY <2>4, <2>5, <2>7, <2>8, <2>9, <1>10 DEF DictionaryInv, StayersVisitedOnce
<1> QED
  BY <1>14, <1>15

(* Every step of the dictionary keeps the invariant.                       *)
LEMMA DictionaryHolds == DictionarySpec => []DictionaryInv
<1>1. DictionaryInit => DictionaryInv
  BY DictionaryBegins
<1>2. ASSUME DictionaryInv, [DictionaryNext]_dictionaryVars PROVE DictionaryInv'
  <2>1. ASSUME NEW k \in Keys, AtPut(k) PROVE DictionaryInv'
    BY <1>2, <2>1, AtPutKeeps
  <2>2. ASSUME NEW k \in Keys, RemoveKey(k) PROVE DictionaryInv'
    BY <1>2, <2>2, RemoveKeyKeeps
  <2>3. ASSUME NEW e \in Entries, KeyDies(e) PROVE DictionaryInv'
    BY <1>2, <2>3, KeyDiesKeeps
  <2>4. CASE NewIterator
    BY <1>2, <2>4, NewIteratorKeeps
  <2>5. CASE Advance
    BY <1>2, <2>5, AdvanceKeeps
  <2>6. CASE FindCurrent
    BY <1>2, <2>6, FindCurrentKeeps
  <2>7. CASE UNCHANGED dictionaryVars
    <3>1. /\ entry' = entry /\ vector' = vector /\ count' = count /\ iter' = iter /\ visits' = visits
          /\ stayed' = stayed /\ grown' = grown
      BY <2>7 DEF dictionaryVars
    <3>2. DictionaryTypeOK' /\ (StayersVisitedOnce' <=> StayersVisitedOnce) /\ Size' = Size
      BY <1>2, <3>1 DEF DictionaryInv, DictionaryTypeOK, StayersVisitedOnce, Size
    <3>3. \A e : (InTable(e)' <=> InTable(e)) /\ (Ahead(e)' <=> Ahead(e))
      BY <3>1, <3>2 DEF InTable, Ahead
    <3>4. (RestSound' <=> RestSound) /\ (StayersPresent' <=> StayersPresent) /\ (AnsweredOnce' <=> AnsweredOnce)
      BY <3>1, <3>2, <3>3 DEF RestSound, StayersPresent, AnsweredOnce
    <3> QED
      BY <1>2, <3>1, <3>2, <3>4 DEF DictionaryInv, IteratorSound
  <2> QED
    BY <1>2, <2>1, <2>2, <2>3, <2>4, <2>5, <2>6, <2>7 DEF DictionaryNext
<1> QED
  BY <1>1, <1>2, PTL DEF DictionarySpec

(* A key that was in the dictionary all the time is answered once by an    *)
(* iteration that ends, in every dictionary and whatever is put, removed   *)
(* or dies meanwhile, if the table does not grow.                          *)
THEOREM StayersAreVisitedOnce == DictionarySpec => []StayersVisitedOnce
<1>1. DictionaryInv => StayersVisitedOnce
  BY DEF DictionaryInv
<1> QED
  BY <1>1, DictionaryHolds, PTL

(* The table, the iterator and the histories are of their types.           *)
THEOREM DictionaryTypes == DictionarySpec => []DictionaryTypeOK
<1>1. DictionaryInv => DictionaryTypeOK
  BY DEF DictionaryInv
<1> QED
  BY <1>1, DictionaryHolds, PTL

-----------------------------------------------------------------------------
(* loader.c: the invariant of the loads in progress.                       *)

(* A list that a provide has made has the module on it, and none twice.    *)
MadeList(f) == f.list # <<>> => f.module \in ToSet(f.list) /\ IsInjective(f.list)

FramesSound == \A t \in Requirers : \A i \in DOMAIN loading[t] :
                 /\ MadeList(loading[t][i])
                 /\ i < Len(loading[t]) => loading[t][i].at # 1

(* Provided, or on the way to its provide, is what a module owes to one of *)
(* its loads; every other load it owes to a charge.                        *)
Owed(m) == m \in ToSet(provided) \/ \E t \in Requirers : AtProvide(t, m)
Charged == \A m \in Modules : /\ loads[m] <= again[m] + 1
                              /\ Owed(m) \/ loads[m] <= again[m]

LoaderInv == LoaderTypeOK /\ FramesSound /\ Charged

(* A charge adds one to the count of each module charged.                  *)
LEMMA ChargeAdds ==
  ASSUME again \in [Modules -> Nat], NEW lost, Charge(lost)
  PROVE  /\ again' \in [Modules -> Nat]
         /\ \A m \in Modules : again'[m] = IF m \in lost THEN again[m] + 1 ELSE again[m]
BY DEF Charge

(* A step that charges the modules whose claim to a load it ends, and      *)
(* begins none, keeps the count.                                           *)
LEMMA ChargedKeeps ==
  ASSUME LoaderTypeOK, Charged, loads' = loads, again' \in [Modules -> Nat],
         \A m \in Modules : \/ again'[m] = again[m] + 1
                            \/ again'[m] = again[m] /\ (Owed(m) => Owed(m)')
  PROVE  Charged'
<1> SUFFICES ASSUME NEW m \in Modules
             PROVE  loads'[m] <= again'[m] + 1 /\ (Owed(m)' \/ loads'[m] <= again'[m])
  BY DEF Charged
<1>1. loads'[m] = loads[m] /\ loads[m] \in Nat /\ again[m] \in Nat /\ again'[m] \in Nat
  BY DEF LoaderTypeOK
<1>2. loads[m] <= again[m] + 1 /\ (Owed(m) \/ loads[m] <= again[m])
  BY DEF Charged
<1>3. CASE again'[m] = again[m] + 1
  BY <1>1, <1>2, <1>3
<1>4. CASE again'[m] = again[m] /\ (Owed(m) => Owed(m)')
  BY <1>1, <1>2, <1>4
<1> QED
  BY <1>3, <1>4

(* The frames below the innermost one.                                     *)
LEMMA FrontFrames ==
  ASSUME NEW s \in Seq(Frames), s # <<>>
  PROVE  /\ Len(s) \in Nat \ {0}
         /\ Front(s) \in Seq(Frames) /\ Len(Front(s)) = Len(s) - 1
         /\ \A i \in 1..(Len(s) - 1) : Front(s)[i] = s[i]
         /\ Last(s) = s[Len(s)] /\ Last(s) \in Frames
<1>1. Len(s) \in Nat \ {0} /\ s \in [1..Len(s) -> Frames]
  OBVIOUS
<1>2. Front(s) = [i \in 1..(Len(s) - 1) |-> s[i]]
  BY <1>1 DEF Front
<1>3. Front(s) \in Seq(Frames) /\ Len(Front(s)) = Len(s) - 1
  BY <1>1, <1>2
<1>4. Last(s) = s[Len(s)] /\ Last(s) \in Frames
  BY <1>1 DEF Last
<1> QED
  BY <1>1, <1>2, <1>3, <1>4

(* The innermost frame is replaced, the rest stay.                         *)
LEMMA ReplaceLast ==
  ASSUME NEW s \in Seq(Frames), s # <<>>, NEW f \in Frames
  PROVE  LET r == Append(Front(s), f) IN
         /\ r \in Seq(Frames) /\ Len(r) = Len(s) /\ r[Len(s)] = f
         /\ \A i \in 1..(Len(s) - 1) : r[i] = s[i]
<1>1. /\ Len(s) \in Nat \ {0}
      /\ Front(s) \in Seq(Frames) /\ Len(Front(s)) = Len(s) - 1
      /\ \A i \in 1..(Len(s) - 1) : Front(s)[i] = s[i]
  BY FrontFrames
<1> HIDE DEF Frames
<1> QED
  BY <1>1

(* A list with a module in front that was not on it has none twice.        *)
LEMMA ConsInjective ==
  ASSUME NEW m \in Modules, NEW s \in Seq(Modules), IsInjective(s), m \notin ToSet(s)
  PROVE  /\ <<m>> \o s \in Seq(Modules) /\ <<m>> \o s # <<>>
         /\ IsInjective(<<m>> \o s) /\ m \in ToSet(<<m>> \o s)
<1> DEFINE r == <<m>> \o s
<1>1. r \in Seq(Modules) /\ Len(r) = Len(s) + 1 /\ r[1] = m /\ Len(s) \in Nat
  OBVIOUS
<1>2. \A i \in 2..Len(r) : r[i] = s[i - 1] /\ i - 1 \in 1..Len(s)
  OBVIOUS
<1>3. DOMAIN r = 1..Len(r) /\ DOMAIN s = 1..Len(s)
  BY <1>1
<1> HIDE DEF r
<1>4. \A i \in 2..Len(r) : r[i] \in ToSet(s)
  BY <1>2, <1>3 DEF ToSet
<1>5. ASSUME NEW i \in DOMAIN r, NEW j \in DOMAIN r, r[i] = r[j] PROVE i = j
  <2>1. i \in Nat /\ j \in Nat /\ (i = 1 \/ i \in 2..Len(r)) /\ (j = 1 \/ j \in 2..Len(r))
    BY <1>1, <1>3
  <2>2. CASE i = 1
    BY <2>1, <2>2, <1>1, <1>4, <1>5
  <2>3. CASE j = 1
    BY <2>1, <2>3, <1>1, <1>4, <1>5
  <2>4. CASE i \in 2..Len(r) /\ j \in 2..Len(r)
    <3>1. s[i - 1] = s[j - 1] /\ i - 1 \in DOMAIN s /\ j - 1 \in DOMAIN s
      BY <2>4, <1>2, <1>3, <1>5
    <3>2. i - 1 = j - 1
      BY <3>1 DEF IsInjective
    <3> QED
      BY <3>2, <2>1
  <2> QED
    BY <2>1, <2>2, <2>3, <2>4
<1>6. IsInjective(r)
  BY <1>5 DEF IsInjective
<1>7. m \in ToSet(r)
  BY <1>1, <1>3 DEF ToSet
<1> QED
  BY <1>1, <1>6, <1>7 DEF r

(* A step that only replaces a thread's innermost frame, by one of the     *)
(* same module, leaves every module at its provide there, save its own     *)
(* when the frame moves on.                                                *)
LEMMA InFrameKeeps ==
  ASSUME LoaderInv, NEW t \in Requirers, loading[t] # <<>>,
         NEW f \in Frames, f.module = Inner(t).module, MadeList(f), InFrame(t, f)
  PROVE  /\ loading' \in [Requirers -> Seq(Frames)]
         /\ FramesSound'
         /\ \A u \in Requirers, m \in Modules :
              AtProvide(u, m) => \/ AtProvide(u, m)'
                                 \/ Inner(t).at = 1 /\ f.at # 1 /\ m = f.module
<1>0. loading \in [Requirers -> Seq(Frames)] /\ FramesSound
  BY DEF LoaderInv, LoaderTypeOK
<1> DEFINE s == loading[t]
           r == Append(Front(s), f)
<1>1. s \in Seq(Frames) /\ s # <<>>
  BY <1>0
<1>2. r \in Seq(Frames) /\ Len(r) = Len(s) /\ r[Len(s)] = f
      /\ \A i \in 1..(Len(s) - 1) : r[i] = s[i]
  BY <1>1, ReplaceLast
<1>3. Len(s) \in Nat \ {0} /\ Inner(t) = s[Len(s)]
  BY <1>1, FrontFrames DEF Inner
<1>4. loading' = [loading EXCEPT ![t] = r]
  BY DEF InFrame
<1>5. loading' \in [Requirers -> Seq(Frames)] /\ loading'[t] = r
      /\ \A u \in Requirers \ {t} : loading'[u] = loading[u]
  BY <1>0, <1>2, <1>4
<1>6. DOMAIN r = 1..Len(s) /\ DOMAIN s = 1..Len(s)
  BY <1>1, <1>2
<1> HIDE DEF s, r
<1>7. \A i \in 1..Len(s) : (i = Len(s) /\ r[i] = f) \/ (i \in 1..(Len(s) - 1) /\ r[i] = s[i])
  BY <1>2, <1>3
<1>8. \A u \in Requirers : \A i \in DOMAIN loading'[u] :
        \/ loading'[u][i] = f
        \/ i \in DOMAIN loading[u] /\ loading'[u][i] = loading[u][i]
  BY <1>5, <1>6, <1>7 DEF s
<1>9. FramesSound'
  <2>1. ASSUME NEW u \in Requirers, NEW i \in DOMAIN loading'[u]
        PROVE  MadeList(loading'[u][i])
    BY <2>1, <1>8, <1>0 DEF FramesSound
  <2>2. ASSUME NEW u \in Requirers, NEW i \in DOMAIN loading'[u], i < Len(loading'[u])
        PROVE  loading'[u][i].at # 1
    <3>1. CASE u # t
      BY <3>1, <2>2, <1>5, <1>0 DEF FramesSound
    <3>2. CASE u = t
      <4>1. i \in 1..Len(s) /\ i # Len(s)
        BY <3>2, <2>2, <1>5, <1>6, <1>2, <1>3
      <4>2. r[i] = s[i] /\ i \in DOMAIN s
        BY <4>1, <1>7, <1>6
      <4>3. i < Len(s)
        BY <4>1, <1>3
      <4> QED
        BY <4>2, <4>3, <3>2, <1>5, <1>0 DEF FramesSound, s
    <3> QED
      BY <3>1, <3>2
  <2> QED
    BY <2>1, <2>2 DEF FramesSound, MadeList
<1>10. ASSUME NEW u \in Requirers, NEW m \in Modules, AtProvide(u, m)
       PROVE  \/ AtProvide(u, m)'
              \/ Inner(t).at = 1 /\ f.at # 1 /\ m = f.module
  <2>1. CASE u # t
    BY <2>1, <1>10, <1>5 DEF AtProvide
  <2>2. CASE u = t
    <3>1. PICK i \in 1..Len(s) : s[i].module = m /\ s[i].at = 1
      BY <2>2, <1>10, <1>6 DEF AtProvide, s
    <3>2. CASE r[i] = s[i]
      BY <3>1, <3>2, <2>2, <1>5, <1>6 DEF AtProvide
    <3>3. CASE i = Len(s) /\ r[i] = f
      <4>1. Inner(t).at = 1 /\ m = f.module
        BY <3>1, <3>3, <1>3
      <4>2. f.at = 1 => AtProvide(u, m)'
        BY <4>1, <3>1, <3>3, <2>2, <1>5, <1>6 DEF AtProvide
      <4> QED
        BY <4>1, <4>2
    <3> QED
      BY <3>1, <3>2, <3>3, <1>7
  <2> QED
    BY <2>1, <2>2
<1> QED
  BY <1>5, <1>9, <1>10

(* A load that is begun adds one to the loads of its module; when another  *)
(* thread is on the way to provide it, that is charged.                    *)
LEMMA BeginLoadInv ==
  ASSUME LoaderInv, NEW t \in Requirers, NEW m \in Modules,
         m \notin ToSet(provided),
         loading[t] # <<>> => Inner(t).at # 1,
         BeginLoad(t, m), UNCHANGED provided, requires' \in 0..MaxRequires
  PROVE  LoaderInv'
<1>0. LoaderTypeOK /\ FramesSound /\ Charged
  BY DEF LoaderInv
<1>1. loading \in [Requirers -> Seq(Frames)] /\ again \in [Modules -> Nat]
      /\ loads \in [Modules -> Nat]
  BY <1>0 DEF LoaderTypeOK
<1> DEFINE s == loading[t]
           g == [module |-> m, at |-> 1, list |-> <<>>]
           r == Append(s, g)
<1>2. g \in Frames /\ MadeList(g) /\ g.at = 1 /\ g.module = m
  BY DEF Frames, MadeList
<1> HIDE DEF g
<1>3. s \in Seq(Frames) /\ Len(s) \in Nat /\ DOMAIN s = 1..Len(s)
  BY <1>1
<1>4. r \in Seq(Frames) /\ Len(r) = Len(s) + 1 /\ DOMAIN r = 1..(Len(s) + 1)
      /\ r[Len(s) + 1] = g /\ \A i \in 1..Len(s) : r[i] = s[i]
  BY <1>3, <1>2
<1>5. loading' \in [Requirers -> Seq(Frames)] /\ loading'[t] = r
      /\ \A u \in Requirers \ {t} : loading'[u] = loading[u]
  BY <1>1, <1>4 DEF BeginLoad, g
<1> HIDE DEF r
<1>6. \A i \in 1..(Len(s) + 1) : (i = Len(s) + 1 /\ r[i] = g) \/ (i \in 1..Len(s) /\ r[i] = s[i])
  BY <1>3, <1>4
<1>7. \A i \in DOMAIN s : s[i].at # 1
  <2>1. ASSUME NEW i \in DOMAIN s PROVE s[i].at # 1
    <3>1. CASE i < Len(s)
      BY <3>1, <1>0 DEF FramesSound
    <3>2. CASE ~(i < Len(s))
      <4>1. i = Len(s) /\ s # <<>>
        BY <3>2, <1>3
      <4> QED
        BY <4>1 DEF Inner, Last
    <3> QED
      BY <3>1, <3>2
  <2> QED
    BY <2>1
<1> HIDE DEF s
<1>8. \A u \in Requirers : \A i \in DOMAIN loading'[u] :
        \/ loading'[u][i] = g
        \/ i \in DOMAIN loading[u] /\ loading'[u][i] = loading[u][i]
  BY <1>3, <1>4, <1>5, <1>6 DEF s
<1> DEFINE extra == \E u \in Requirers \ {t} : AtProvide(u, m)
<1>9. /\ again' \in [Modules -> Nat]
      /\ again'[m] = IF extra THEN again[m] + 1 ELSE again[m]
      /\ \A n \in Modules \ {m} : again'[n] = again[n]
  <2> DEFINE lost == {n \in {m} : \E u \in Requirers \ {t} : AtProvide(u, n)}
  <2>1. Charge(lost)
    BY DEF BeginLoad
  <2>2. (m \in lost <=> extra) /\ \A n \in Modules \ {m} : n \notin lost
    OBVIOUS
  <2> HIDE DEF lost, extra
  <2>3. /\ again' \in [Modules -> Nat]
        /\ \A n \in Modules : again'[n] = IF n \in lost THEN again[n] + 1 ELSE again[n]
    BY <1>1, <2>1, ChargeAdds
  <2> QED
    BY <2>2, <2>3
<1>10. FramesSound'
  <2>1. ASSUME NEW u \in Requirers, NEW i \in DOMAIN loading'[u]
        PROVE  MadeList(loading'[u][i])
    BY <2>1, <1>8, <1>2, <1>0 DEF FramesSound
  <2>2. ASSUME NEW u \in Requirers, NEW i \in DOMAIN loading'[u], i < Len(loading'[u])
        PROVE  loading'[u][i].at # 1
    <3>1. CASE u # t
      BY <3>1, <2>2, <1>5, <1>0 DEF FramesSound
    <3>2. CASE u = t
      <4>1. i \in 1..(Len(s) + 1) /\ i # Len(s) + 1
        BY <3>2, <2>2, <1>5, <1>4, <1>3
      <4> QED
        BY <4>1, <3>2, <1>3, <1>5, <1>6, <1>7
    <3> QED
      BY <3>1, <3>2
  <2> QED
    BY <2>1, <2>2 DEF FramesSound, MadeList
<1>11. ASSUME NEW n \in Modules, NEW u \in Requirers, AtProvide(u, n)
       PROVE  AtProvide(u, n)'
  <2>1. CASE u # t
    BY <2>1, <1>11, <1>5 DEF AtProvide
  <2>2. CASE u = t
    <3>1. PICK i \in 1..Len(s) : s[i].module = n /\ s[i].at = 1
      BY <2>2, <1>11, <1>3 DEF AtProvide, s
    <3> QED
      BY <3>1, <1>3, <1>7
  <2> QED
    BY <2>1, <2>2
<1>12. AtProvide(t, m)'
  <2>1. Len(s) + 1 \in DOMAIN r /\ r[Len(s) + 1].module = m /\ r[Len(s) + 1].at = 1
    BY <1>2, <1>3, <1>4
  <2> QED
    BY <2>1, <1>5 DEF AtProvide
<1>13. ~AtProvide(t, m)
  BY <1>7 DEF AtProvide, s
<1>14. loads' = [loads EXCEPT ![m] = @ + 1]
  BY DEF BeginLoad
<1>15. Charged'
  <2> SUFFICES ASSUME NEW n \in Modules
               PROVE  loads'[n] <= again'[n] + 1 /\ (Owed(n)' \/ loads'[n] <= again'[n])
    BY DEF Charged
  <2>t. loads[n] \in Nat /\ again[n] \in Nat
    BY <1>1
  <2>c. loads[n] <= again[n] + 1 /\ (Owed(n) \/ loads[n] <= again[n])
    BY <1>0 DEF Charged
  <2>o. Owed(n) => Owed(n)'
    BY <1>11 DEF Owed
  <2>1. CASE n = m
    <3>1. loads'[n] = loads[n] + 1
      BY <2>1, <1>14, <1>1
    <3>2. Owed(n)'
      BY <2>1, <1>12 DEF Owed
    <3>3. CASE extra
      <4> HIDE DEF extra
      <4>1. again'[n] = again[n] + 1
        BY <2>1, <1>9, <3>3
      <4> QED
        BY <2>t, <2>c, <3>1, <3>2, <4>1
    <3>4. CASE ~extra
      <4>1. ~Owed(n)
        BY <2>1, <3>4, <1>13 DEF Owed
      <4> HIDE DEF extra
      <4>2. again'[n] = again[n]
        BY <2>1, <1>9, <3>4
      <4> QED
        BY <2>t, <2>c, <3>1, <3>2, <4>1, <4>2
    <3> QED
      BY <3>3, <3>4
  <2>2. CASE n # m
    <3>1. loads'[n] = loads[n] /\ again'[n] = again[n]
      BY <2>2, <1>14, <1>1, <1>9
    <3> QED
      BY <3>1, <2>c, <2>o
  <2> QED
    BY <2>1, <2>2
<1>16. LoaderTypeOK'
  BY <1>0, <1>1, <1>5, <1>9, <1>14 DEF LoaderTypeOK
<1> QED
  BY <1>10, <1>15, <1>16 DEF LoaderInv

(* What stays when a thread's innermost frame is replaced and the lists of *)
(* modules and of begun loads are left alone.                              *)
LEMMA InFrameInv ==
  ASSUME LoaderInv, NEW t \in Requirers, loading[t] # <<>>,
         NEW f \in Frames, f.module = Inner(t).module, MadeList(f), InFrame(t, f),
         Inner(t).at = 1 /\ f.at # 1 => f.module \in ToSet(provided),
         UNCHANGED <<provided, loads, again, requires>>
  PROVE  LoaderInv'
<1>0. LoaderTypeOK /\ FramesSound /\ Charged
  BY DEF LoaderInv
<1>1. /\ loading' \in [Requirers -> Seq(Frames)]
      /\ FramesSound'
      /\ \A u \in Requirers, m \in Modules :
           AtProvide(u, m) => \/ AtProvide(u, m)'
                              \/ Inner(t).at = 1 /\ f.at # 1 /\ m = f.module
  BY InFrameKeeps
<1>2. \A m \in Modules : Owed(m) => Owed(m)'
  BY <1>1 DEF Owed
<1>3. LoaderTypeOK'
  BY <1>0, <1>1 DEF LoaderTypeOK
<1>4. again' = again /\ again \in [Modules -> Nat]
  BY <1>0 DEF LoaderTypeOK
<1>5. Charged'
  BY <1>0, <1>2, <1>4, ChargedKeeps
<1> QED
  BY <1>1, <1>3, <1>5 DEF LoaderInv

(* The innermost frame of a load in progress and the form it is at.        *)
LEMMA InnerFrame ==
  ASSUME LoaderInv, NEW t \in Requirers, loading[t] # <<>>
  PROVE  /\ Inner(t) \in Frames /\ MadeList(Inner(t))
         /\ Form(t) \in Modules => Inner(t).at # 1
         /\ Form(t) = "none" => Inner(t).at # 1
<1>0. loading \in [Requirers -> Seq(Frames)] /\ FramesSound
  BY DEF LoaderInv, LoaderTypeOK
<1>1. Inner(t) = loading[t][Len(loading[t])] /\ Inner(t) \in Frames
      /\ Len(loading[t]) \in DOMAIN loading[t]
  BY <1>0, FrontFrames DEF Inner
<1>2. MadeList(Inner(t))
  BY <1>0, <1>1 DEF FramesSound
<1>3. Inner(t).module \in Modules
  BY <1>1 DEF Frames
<1>4. Inner(t).at = 1 => Form(t) = "provide"
  <2>1. Body[Inner(t).module] # <<>> /\ Body[Inner(t).module] \in Seq(Forms)
        /\ Body[Inner(t).module][1] = "provide"
    BY <1>3, BodyAssumption
  <2>2. Len(Body[Inner(t).module]) >= 1 /\ Len(Body[Inner(t).module]) \in Nat
    BY <2>1
  <2> QED
    BY <2>1, <2>2 DEF Form
<1> QED
  BY <1>1, <1>2, <1>4, BodyAssumption

(* The list a frame holds is let go when it passes to its next form.       *)
LEMMA NextFrame ==
  ASSUME NEW f \in Frames
  PROVE  LET g == [f EXCEPT !.at = @ + 1, !.list = <<>>] IN
         g \in Frames /\ g.module = f.module /\ g.at # 1 /\ MadeList(g)
<1> DEFINE g == [f EXCEPT !.at = @ + 1, !.list = <<>>]
<1>1. f \in [module : Modules, at : Nat \ {0}, list : Seq(Modules)]
  BY DEF Frames
<1>2. f.at + 1 \in Nat \ {0} /\ f.at + 1 # 1
  BY <1>1
<1> DEFINE n == f.at + 1
<1>3. n \in Nat \ {0} /\ n # 1
  BY <1>2
<1> HIDE DEF n
<1> DEFINE e == <<>>
<1>e. e \in Seq(Modules)
  OBVIOUS
<1> HIDE DEF e
<1>4. [f EXCEPT !.at = n, !.list = e] \in Frames
  BY <1>1, <1>3, <1>e DEF Frames
<1>5. LET h == [f EXCEPT !.at = n, !.list = e] IN
      h.module = f.module /\ h.at = n /\ h.list = e
  BY <1>1
<1>6. g = [f EXCEPT !.at = n, !.list = e]
  BY DEF n, e
<1> QED
  BY <1>3, <1>4, <1>5, <1>6 DEF MadeList, e

(* A require of a form or of a command line.                               *)
LEMMA RequireInv ==
  ASSUME LoaderInv, NEW t \in Requirers,
         (\E m \in Modules : RequireModule(t, m)) \/ RequireForm(t)
  PROVE  LoaderInv'
<1>0. LoaderTypeOK
  BY DEF LoaderInv
<1>1. ASSUME NEW m \in Modules, RequireModule(t, m) PROVE LoaderInv'
  <2>1. requires' \in 0..MaxRequires
    BY <1>0, <1>1, MaxRequiresAssumption DEF RequireModule, LoaderTypeOK
  <2>2. CASE m \in ToSet(provided)
    BY <2>1, <2>2, <1>1
    DEF RequireModule, LoaderInv, LoaderTypeOK, FramesSound, Charged, Owed,
        AtProvide, MadeList
  <2>3. CASE m \notin ToSet(provided)
    BY <2>1, <2>3, <1>1, BeginLoadInv DEF RequireModule
  <2> QED
    BY <2>2, <2>3
<1>2. ASSUME RequireForm(t) PROVE LoaderInv'
  <2>1. Form(t) \in Modules /\ UNCHANGED <<provided, requires>>
    BY <1>2 DEF RequireForm
  <2>n. loading[t] # <<>>
    BY <2>1, BodyAssumption DEF Form
  <2>2. CASE Form(t) \in ToSet(provided) /\ loading[t] # <<>>
    <3> DEFINE f == [Inner(t) EXCEPT !.at = @ + 1, !.list = <<>>]
    <3>1. Inner(t) \in Frames /\ Inner(t).at # 1
      BY <2>1, <2>2, InnerFrame
    <3>2. f \in Frames /\ f.module = Inner(t).module /\ MadeList(f)
      BY <3>1, NextFrame
    <3>3. InFrame(t, f) /\ UNCHANGED <<provided, loads, again, requires>>
      BY <1>2, <2>2 DEF RequireForm, NextForm
    <3> HIDE DEF f
    <3> QED
      BY <2>2, <3>1, <3>2, <3>3, InFrameInv
  <2>3. CASE Form(t) \notin ToSet(provided) /\ loading[t] # <<>>
    <3>1. Inner(t).at # 1 /\ requires' \in 0..MaxRequires
      BY <2>1, <2>3, <1>0, InnerFrame DEF LoaderTypeOK
    <3>2. BeginLoad(t, Form(t))
      BY <1>2, <2>3 DEF RequireForm
    <3> QED
      BY <2>1, <2>3, <3>1, <3>2, BeginLoadInv
  <2> QED
    BY <2>n, <2>2, <2>3
<1> QED
  BY <1>1, <1>2

(* The first half of a provide.                                            *)
LEMMA ProvideReadInv ==
  ASSUME LoaderInv, NEW t \in Requirers, ProvideRead(t)
  PROVE  LoaderInv'
<1>1. loading[t] # <<>>
  BY BodyAssumption DEF ProvideRead, Form
<1> DEFINE m == Inner(t).module
           f == [Inner(t) EXCEPT !.at = @ + 1, !.list = <<>>]
           g == [Inner(t) EXCEPT !.list = <<m>> \o provided]
<1>2. Inner(t) \in Frames
  BY <1>1, InnerFrame
<1>3. Inner(t) \in [module : Modules, at : Nat \ {0}, list : Seq(Modules)]
  BY <1>2 DEF Frames
<1>4. UNCHANGED <<provided, loads, again, requires>>
  BY DEF ProvideRead
<1>5. CASE m \in ToSet(provided)
  <2>1. f \in Frames /\ f.module = m /\ MadeList(f)
    BY <1>2, NextFrame
  <2>2. InFrame(t, f)
    BY <1>5 DEF ProvideRead, NextForm
  <2> HIDE DEF f
  <2> QED
    BY <1>1, <1>4, <1>5, <2>1, <2>2, InFrameInv
<1>6. CASE m \notin ToSet(provided)
  <2>1. provided \in Seq(Modules) /\ IsInjective(provided)
    BY DEF LoaderInv, LoaderTypeOK
  <2> DEFINE l == <<m>> \o provided
  <2>2. l \in Seq(Modules) /\ l # <<>> /\ IsInjective(l) /\ m \in ToSet(l)
    BY <1>3, <1>6, <2>1, ConsInjective
  <2>3. InFrame(t, g)
    BY <1>6 DEF ProvideRead
  <2> HIDE DEF l
  <2>4. g = [Inner(t) EXCEPT !.list = l]
    BY DEF l
  <2> HIDE DEF g
  <2>5. g \in Frames /\ g.module = m /\ g.at = Inner(t).at /\ g.list = l
    BY <1>3, <2>2, <2>4 DEF Frames
  <2>6. MadeList(g)
    BY <2>2, <2>5 DEF MadeList
  <2> QED
    BY <1>1, <1>2, <1>4, <2>3, <2>5, <2>6, InFrameInv
<1> QED
  BY <1>5, <1>6

(* The second half: the modules that it drops from the list are those that *)
(* another provide has put there since.                                    *)
LEMMA ProvideWriteInv ==
  ASSUME LoaderInv, NEW t \in Requirers, ProvideWrite(t)
  PROVE  LoaderInv'
<1>0. LoaderTypeOK /\ FramesSound /\ Charged
  BY DEF LoaderInv
<1>1. loading[t] # <<>>
  BY BodyAssumption DEF ProvideWrite, Form
<1> DEFINE list == Inner(t).list
           f == [Inner(t) EXCEPT !.at = @ + 1, !.list = <<>>]
<1>2. Inner(t) \in Frames /\ MadeList(Inner(t))
  BY <1>1, InnerFrame
<1>3. list \in Seq(Modules) /\ IsInjective(list) /\ Inner(t).module \in ToSet(list)
  BY <1>2 DEF ProvideWrite, Frames, MadeList
<1>4. f \in Frames /\ f.module = Inner(t).module /\ MadeList(f)
  BY <1>2, NextFrame
<1>5. InFrame(t, f)
  BY DEF ProvideWrite, NextForm
<1>6. /\ provided' = list /\ UNCHANGED <<loads, requires>>
      /\ Charge(ToSet(provided) \ ToSet(list))
  BY DEF ProvideWrite
<1> HIDE DEF f, list
<1>7. /\ loading' \in [Requirers -> Seq(Frames)]
      /\ FramesSound'
      /\ \A u \in Requirers, m \in Modules :
           AtProvide(u, m) => \/ AtProvide(u, m)'
                              \/ Inner(t).at = 1 /\ f.at # 1 /\ m = f.module
  BY <1>1, <1>4, <1>5, InFrameKeeps
<1>8. ToSet(provided') = ToSet(list)
  BY <1>6
<1>9. again \in [Modules -> Nat] /\ loads' = loads
  BY <1>0, <1>6 DEF LoaderTypeOK
<1>10. /\ again' \in [Modules -> Nat]
       /\ \A m \in Modules : again'[m] = IF m \in ToSet(provided) \ ToSet(list)
                                        THEN again[m] + 1 ELSE again[m]
  BY <1>6, <1>9, ChargeAdds
<1>11. ASSUME NEW m \in Modules, m \notin ToSet(provided) \ ToSet(list), Owed(m)
       PROVE  Owed(m)'
  <2>1. CASE m \in ToSet(provided)
    BY <2>1, <1>11, <1>8 DEF Owed
  <2>2. CASE m = f.module
    BY <2>2, <1>3, <1>4, <1>8 DEF Owed
  <2>3. CASE m \notin ToSet(provided) /\ m # f.module
    <3>1. PICK u \in Requirers : AtProvide(u, m)
      BY <2>3, <1>11 DEF Owed
    <3>2. AtProvide(u, m)'
      BY <3>1, <2>3, <1>7
    <3> QED
      BY <3>2 DEF Owed
  <2> QED
    BY <2>1, <2>2, <2>3
<1>12. Charged'
  <2>1. ASSUME NEW m \in Modules
        PROVE  \/ again'[m] = again[m] + 1
               \/ again'[m] = again[m] /\ (Owed(m) => Owed(m)')
    BY <1>10, <1>11
  <2> QED
    BY <1>0, <1>9, <1>10, <2>1, ChargedKeeps
<1>14. LoaderTypeOK'
  BY <1>0, <1>3, <1>6, <1>7, <1>10 DEF LoaderTypeOK
<1> QED
  BY <1>7, <1>12, <1>14 DEF LoaderInv

(* A load that has come to its end, or that a throw has ended.             *)
LEMMA LoadEndsInv ==
  ASSUME LoaderInv, NEW t \in Requirers, EndLoad(t) \/ FormThrows(t)
  PROVE  LoaderInv'
<1>0. LoaderTypeOK /\ FramesSound /\ Charged
  BY DEF LoaderInv
<1>1. loading \in [Requirers -> Seq(Frames)] /\ again \in [Modules -> Nat]
  BY <1>0 DEF LoaderTypeOK
<1> DEFINE s == loading[t]
<1>2. s \in Seq(Frames) /\ s # <<>>
  BY <1>1 DEF EndLoad, FormThrows
<1>a. DOMAIN s = 1..Len(s)
  BY <1>2
<1>b. Len(s) \in Nat \ {0} /\ Front(s) \in Seq(Frames) /\ Len(Front(s)) = Len(s) - 1
      /\ \A i \in 1..(Len(s) - 1) : Front(s)[i] = s[i]
  BY <1>2, FrontFrames
<1>3. Len(s) \in Nat \ {0} /\ DOMAIN s = 1..Len(s)
      /\ Front(s) \in Seq(Frames) /\ Len(Front(s)) = Len(s) - 1
      /\ \A i \in 1..(Len(s) - 1) : Front(s)[i] = s[i]
  BY <1>a, <1>b
<1>4. \A i \in DOMAIN s : s[i] \in Frames /\ MadeList(s[i])
                          /\ (i < Len(s) => s[i].at # 1)
  BY <1>0, <1>2 DEF FramesSound
<1>5. ASSUME EndLoad(t) PROVE LoaderInv'
  <2> DEFINE below == Front(s)
             r == IF below = <<>> THEN <<>>
                  ELSE Append(Front(below), [Last(below) EXCEPT !.at = @ + 1])
  <2>1. loading' = [loading EXCEPT ![t] = r] /\ UNCHANGED <<provided, loads, again, requires>>
    BY <1>5 DEF EndLoad
  <2>2. Inner(t) = s[Len(s)] /\ s[Len(s)].at # 1
    BY <1>0, <1>2, <1>5, FrontFrames, InnerFrame DEF EndLoad, Inner, LoaderInv
  <2>3. /\ r \in Seq(Frames) /\ Len(r) = Len(s) - 1
        /\ \A i \in 1..Len(r) : /\ MadeList(r[i]) /\ r[i].module = s[i].module
                                /\ r[i].at # 1
    <3>1. CASE below = <<>>
      <4>1. Len(s) - 1 = 0
        BY <3>1, <1>3
      <4>2. r = <<>>
        BY <3>1
      <4> HIDE DEF r
      <4> QED
        BY <4>1, <4>2
    <3>2. CASE below # <<>>
      <4> DEFINE n == Len(s) - 1
                 f == [Last(below) EXCEPT !.at = @ + 1]
      <4>a. below \in Seq(Frames) /\ Len(below) = n
        BY <1>3
      <4>0. Len(below) \in Nat /\ Len(below) # 0 /\ Len(below) = n
        <5> HIDE DEF below, n
        <5> QED
          BY <3>2, <4>a, FrontFrames
      <4>1. n \in Nat \ {0} /\ n \in DOMAIN s /\ n < Len(s) /\ Len(below) = n
        <5> HIDE DEF s, below
        <5> QED
          BY <4>0, <1>3
      <4>2. Last(below) = s[n]
        BY <3>2, <4>1, <1>3 DEF Last
      <4>3. s[n] \in [module : Modules, at : Nat \ {0}, list : Seq(Modules)] /\ s[n].at # 1
            /\ MadeList(s[n])
        BY <4>1, <1>4 DEF Frames
      <4> DEFINE k == s[n].at + 1
      <4>4. k \in Nat \ {0} /\ k # 1
        BY <4>3
      <4>5. f = [s[n] EXCEPT !.at = k]
        BY <4>2
      <4> HIDE DEF k, f
      <4>6. f \in Frames /\ f.module = s[n].module /\ f.at # 1 /\ f.list = s[n].list
        BY <4>3, <4>4, <4>5 DEF Frames
      <4>7. MadeList(f)
        BY <4>3, <4>6 DEF MadeList
      <4>8. r = Append(Front(below), f)
        BY <3>2 DEF f
      <4> HIDE DEF n
      <4>9. /\ r \in Seq(Frames) /\ Len(r) = n /\ r[n] = f
            /\ \A i \in 1..(n - 1) : r[i] = below[i]
        <5> HIDE DEF below, f, r
        <5>1. LET x == Append(Front(below), f) IN
              /\ x \in Seq(Frames) /\ Len(x) = Len(below) /\ x[Len(below)] = f
              /\ \A i \in 1..(Len(below) - 1) : x[i] = below[i]
          BY <3>2, <4>a, <4>6, ReplaceLast
        <5> QED
          BY <4>0, <4>8, <5>1
      <4>10. \A i \in 1..(n - 1) : below[i] = s[i] /\ i \in DOMAIN s /\ i < Len(s)
        BY <1>3 DEF n
      <4>11. \A i \in 1..n : i = n \/ i \in 1..(n - 1)
        BY <4>1
      <4> HIDE DEF r, below, s
      <4>12. \A i \in 1..n : MadeList(r[i]) /\ r[i].module = s[i].module /\ r[i].at # 1
        BY <1>4, <4>6, <4>7, <4>9, <4>10, <4>11
      <4> QED
        BY <4>9, <4>12 DEF n
    <3> QED
      BY <3>1, <3>2
  <2> HIDE DEF r
  <2>4. /\ loading' \in [Requirers -> Seq(Frames)] /\ loading'[t] = r
        /\ \A u \in Requirers \ {t} : loading'[u] = loading[u]
    BY <1>1, <2>1, <2>3
  <2>5. DOMAIN r = 1..Len(r) /\ \A i \in 1..Len(r) : i \in DOMAIN s
    BY <1>3, <2>3
  <2> HIDE DEF s
  <2>6. FramesSound'
    <3>1. \A u \in Requirers : \A i \in DOMAIN loading'[u] :
            MadeList(loading'[u][i]) /\ (i < Len(loading'[u]) => loading'[u][i].at # 1)
      BY <1>0, <2>3, <2>4, <2>5 DEF FramesSound
    <3> QED
      BY <3>1 DEF FramesSound, MadeList
  <2>7. ~ \E i \in DOMAIN s : s[i].at = 1
    <3> SUFFICES ASSUME NEW i \in DOMAIN s PROVE s[i].at # 1
      OBVIOUS
    <3>1. CASE i < Len(s)
      BY <3>1, <1>4
    <3>2. CASE ~(i < Len(s))
      BY <3>2, <1>3, <2>2
    <3> QED
      BY <3>1, <3>2
  <2>8. ASSUME NEW m \in Modules, Owed(m) PROVE Owed(m)'
    <3>1. ASSUME NEW u \in Requirers, AtProvide(u, m) PROVE AtProvide(u, m)'
      BY <3>1, <2>4, <2>7 DEF AtProvide, s
    <3> QED
      BY <3>1, <2>1, <2>8 DEF Owed
  <2>9. LoaderTypeOK'
    BY <1>0, <2>1, <2>4 DEF LoaderTypeOK
  <2>10. Charged'
    <3>1. loads' = loads /\ again' = again
      BY <2>1
    <3> QED
      BY <1>0, <1>1, <2>8, <3>1, ChargedKeeps
  <2> QED
    BY <2>6, <2>9, <2>10 DEF LoaderInv
<1>6. ASSUME FormThrows(t) PROVE LoaderInv'
  <2>1. /\ loading' = [loading EXCEPT ![t] = <<>>] /\ UNCHANGED <<provided, loads, requires>>
        /\ Charge({m \in Modules : AtProvide(t, m)} \ ToSet(provided))
    BY <1>6 DEF FormThrows
  <2>2. /\ again' \in [Modules -> Nat]
        /\ \A m \in Modules :
             again'[m] = IF m \in {n \in Modules : AtProvide(t, n)} \ ToSet(provided)
                         THEN again[m] + 1 ELSE again[m]
    BY <1>1, <2>1, ChargeAdds
  <2> HIDE DEF s
  <2>5. loading' \in [Requirers -> Seq(Frames)] /\ loading'[t] = <<>>
        /\ \A u \in Requirers \ {t} : loading'[u] = loading[u]
    BY <1>1, <2>1
  <2>6. DOMAIN loading'[t] = {}
    BY <2>5
  <2>7. FramesSound'
    <3>1. \A u \in Requirers : \A i \in DOMAIN loading'[u] :
            MadeList(loading'[u][i]) /\ (i < Len(loading'[u]) => loading'[u][i].at # 1)
      BY <1>0, <2>5, <2>6 DEF FramesSound
    <3> QED
      BY <3>1 DEF FramesSound, MadeList
  <2>8. ASSUME NEW m \in Modules, Owed(m), ~(AtProvide(t, m) /\ m \notin ToSet(provided))
        PROVE  Owed(m)'
    <3>1. CASE m \in ToSet(provided)
      BY <3>1, <2>1 DEF Owed
    <3>2. CASE m \notin ToSet(provided)
      <4>1. PICK u \in Requirers \ {t} : AtProvide(u, m)
        BY <3>2, <2>8 DEF Owed
      <4>2. AtProvide(u, m)'
        BY <4>1, <2>5 DEF AtProvide
      <4> QED
        BY <4>2 DEF Owed
    <3> QED
      BY <3>1, <3>2
  <2>9. Charged'
    <3>1. ASSUME NEW m \in Modules
          PROVE  \/ again'[m] = again[m] + 1
                 \/ again'[m] = again[m] /\ (Owed(m) => Owed(m)')
      BY <2>2, <2>8
    <3>2. loads' = loads
      BY <2>1
    <3> QED
      BY <1>0, <2>2, <3>1, <3>2, ChargedKeeps
  <2>10. LoaderTypeOK'
    BY <1>0, <2>1, <2>2, <2>5 DEF LoaderTypeOK
  <2> QED
    BY <2>7, <2>9, <2>10 DEF LoaderInv
<1> QED
  BY <1>5, <1>6

(* Nothing is provided or being loaded before the first require.           *)
LEMMA LoaderInitInv == LoaderInit => LoaderInv
<1> SUFFICES ASSUME LoaderInit PROVE LoaderInv
  OBVIOUS
<1>1. /\ provided = <<>> /\ loading = [t \in Requirers |-> <<>>]
      /\ loads = [m \in Modules |-> 0] /\ again = [m \in Modules |-> 0]
      /\ requires = 0
  BY DEF LoaderInit
<1>2. IsInjective(provided) /\ provided \in Seq(Modules)
  BY <1>1 DEF IsInjective
<1>3. LoaderTypeOK
  BY <1>1, <1>2, MaxRequiresAssumption DEF LoaderTypeOK
<1>4. \A t \in Requirers : DOMAIN loading[t] = {}
  BY <1>1
<1> QED
  BY <1>1, <1>3, <1>4 DEF LoaderInv, FramesSound, Charged

(* No step of any thread breaks the invariant.                             *)
LEMMA LoaderStepInv == LoaderInv /\ [LoaderNext]_loaderVars => LoaderInv'
<1>1. ASSUME LoaderInv, LoaderNext PROVE LoaderInv'
  BY <1>1, RequireInv, ProvideReadInv, ProvideWriteInv, LoadEndsInv DEF LoaderNext
<1>2. ASSUME LoaderInv, UNCHANGED loaderVars PROVE LoaderInv'
  BY <1>2
  DEF loaderVars, LoaderInv, LoaderTypeOK, FramesSound, Charged, Owed,
      AtProvide, MadeList
<1> QED
  BY <1>1, <1>2

(* loader.c:322: a module is loaded once, whatever bodies require each     *)
(* other, in a cycle too, and however many threads require them, and once  *)
(* more for each race and each throw that cost it its load: for any number *)
(* of threads and any bodies that provide their module first.              *)
THEOREM ModulesLoadOnce == LoaderSpec => []LoadedOnce
<1>1. LoaderInit => LoaderInv
  BY LoaderInitInv
<1>2. LoaderInv /\ [LoaderNext]_loaderVars => LoaderInv'
  BY LoaderStepInv
<1>3. LoaderInv => LoadedOnce
  BY DEF LoaderInv, LoaderTypeOK, Charged, LoadedOnce
<1> QED
  BY <1>1, <1>2, <1>3, PTL DEF LoaderSpec

(* The list of provided modules has none twice, and the loads in progress  *)
(* keep their types.                                                       *)
THEOREM LoaderTypes == LoaderSpec => []LoaderTypeOK
<1>1. LoaderInit => LoaderInv
  BY LoaderInitInv
<1>2. LoaderInv /\ [LoaderNext]_loaderVars => LoaderInv'
  BY LoaderStepInv
<1>3. LoaderInv => LoaderTypeOK
  BY DEF LoaderInv
<1> QED
  BY <1>1, <1>2, <1>3, PTL DEF LoaderSpec

-----------------------------------------------------------------------------
(* FileWriter: a writer gets past its writes only with all of its file     *)
(* written, and the path moves to a writer in the step that makes it done. *)

(* A writer that is about to close or to rename has written everything.    *)
Complete == \A w \in Writers : wat[w] \in {"close", "rename"} => size[w] = FileLength

FileInv == FileTypeOK /\ Complete /\ FileIsOldOrNew

(* Before the first call the path names the old file.                      *)
LEMMA FileInitInv == FileInit => FileInv
BY WritersAssumption, FileLengthAssumption
DEF FileInit, FileInv, FileTypeOK, Complete, FileIsOldOrNew, InProgress

(* No step of a writer, no failed call and no death of the process breaks  *)
(* the invariant.                                                          *)
LEMMA FileStepInv == FileInv /\ [FileNext]_fileVars => FileInv'
<1> SUFFICES ASSUME FileInv, [FileNext]_fileVars PROVE FileInv'
  OBVIOUS
<1> USE WritersAssumption, FileLengthAssumption
    DEF FileInv, FileTypeOK, Complete, FileIsOldOrNew, InProgress, WriterTo
<1>1. ASSUME NEW w \in Writers, MakeTemporary(w) PROVE FileInv'
  BY <1>1 DEF MakeTemporary
<1>2. ASSUME NEW w \in Writers, WriteChunk(w) PROVE FileInv'
  BY <1>2 DEF WriteChunk
<1>3. ASSUME NEW w \in Writers, CallFails(w) PROVE FileInv'
  BY <1>3 DEF CallFails
<1>4. ASSUME NEW w \in Writers, CloseFile(w) PROVE FileInv'
  BY <1>4 DEF CloseFile
<1>5. ASSUME NEW w \in Writers, Rename(w) PROVE FileInv'
  BY <1>5 DEF Rename
<1>6. ASSUME NEW w \in Writers, Unlink(w) PROVE FileInv'
  BY <1>6 DEF Unlink
<1>7. ASSUME ProcessDies PROVE FileInv'
  BY <1>7 DEF ProcessDies
<1>8. ASSUME UNCHANGED fileVars PROVE FileInv'
  BY <1>8 DEF fileVars
<1> QED
  BY <1>1, <1>2, <1>3, <1>4, <1>5, <1>6, <1>7, <1>8 DEF FileNext

(* LT_write_file_bytes_atomically: whoever opens the path finds the old    *)
(* file or all that one successful call wrote, and no call that has        *)
(* answered leaves its temporary file, for any number of writers, any      *)
(* length, any pattern of short writes, failed calls and crashes.          *)
THEOREM FileWriterSafe == FileSpec => []FileIsOldOrNew
<1>1. FileInit => FileInv
  BY FileInitInv
<1>2. FileInv /\ [FileNext]_fileVars => FileInv'
  BY FileStepInv
<1>3. FileInv => FileIsOldOrNew
  BY DEF FileInv
<1> QED
  BY <1>1, <1>2, <1>3, PTL DEF FileSpec

(* Sizes, places and names of the writers are of their types.              *)
THEOREM FileTypes == FileSpec => []FileTypeOK
<1>1. FileInit => FileInv
  BY FileInitInv
<1>2. FileInv /\ [FileNext]_fileVars => FileInv'
  BY FileStepInv
<1>3. FileInv => FileTypeOK
  BY DEF FileInv
<1> QED
  BY <1>1, <1>2, <1>3, PTL DEF FileSpec

-----------------------------------------------------------------------------
(* What the sequences of sequences of a table come to when they are put    *)
(* one behind the other.                                                   *)

(* The partial results that FlattenSeq is defined by exist.                *)
Joins(s, f, n) == f = [i \in 1..n |-> IF i = 1 THEN s[i] ELSE f[i - 1] \o s[i]]

(* The parts of a sequence can be joined one after the other, up to any.   *)
LEMMA JoinsExist == ASSUME NEW s, NEW n \in Nat PROVE \E f : Joins(s, f, n)
<1> DEFINE T == {m \in Nat : ~ \E f : Joins(s, f, m)}
<1>1. SUFFICES ASSUME T # {} PROVE FALSE
  OBVIOUS
<1>2. PICK m \in T : \A k \in T : m <= k
  BY <1>1, LeastNatural
<1>3. CASE m = 0
  <2> DEFINE f == [i \in 1..0 |-> s[i]]
  <2>1. f = [i \in 1..0 |-> IF i = 1 THEN s[i] ELSE f[i - 1] \o s[i]]
    OBVIOUS
  <2> HIDE DEF f
  <2> QED
    BY <1>2, <1>3, <2>1 DEF Joins
<1>4. CASE m # 0
  <2>1. m - 1 \in Nat /\ m - 1 \notin T
    BY <1>2, <1>4
  <2>2. PICK f : Joins(s, f, m - 1)
    BY <2>1
  <2>3. f = [i \in 1..(m - 1) |-> IF i = 1 THEN s[i] ELSE f[i - 1] \o s[i]]
    BY <2>2 DEF Joins
  <2> DEFINE g == [i \in 1..m |-> IF i = 1 THEN s[i] ELSE f[i - 1] \o s[i]]
  <2>4. \A i \in 1..(m - 1) : g[i] = f[i]
    <3> SUFFICES ASSUME NEW i \in 1..(m - 1) PROVE g[i] = f[i]
      OBVIOUS
    <3>1. i \in 1..m
      BY <2>1
    <3>2. f[i] = IF i = 1 THEN s[i] ELSE f[i - 1] \o s[i]
      BY <2>3
    <3> QED
      BY <3>1, <3>2
  <2>5. g = [i \in 1..m |-> IF i = 1 THEN s[i] ELSE g[i - 1] \o s[i]]
    <3> DEFINE h == [i \in 1..m |-> IF i = 1 THEN s[i] ELSE g[i - 1] \o s[i]]
    <3>1. \A i \in 1..m : g[i] = h[i]
      <4> SUFFICES ASSUME NEW i \in 1..m PROVE g[i] = h[i]
        OBVIOUS
      <4>1. CASE i = 1
        BY <4>1
      <4>2. CASE i # 1
        <5>1. i - 1 \in 1..(m - 1)
          BY <4>2, <1>2
        <5> QED
          BY <4>2, <5>1, <2>4
      <4> QED
        BY <4>1, <4>2
    <3> QED
      BY <3>1
  <2> HIDE DEF g
  <2>6. Joins(s, g, m)
    BY <2>5 DEF Joins
  <2> QED
    BY <2>6, <1>2
<1> QED
  BY <1>3, <1>4

(* How far two sequences agree, their joins agree.                         *)
LEMMA JoinsAgree ==
  ASSUME NEW s, NEW t, NEW f, NEW g, NEW n \in Nat, NEW m \in Nat, n <= m,
         Joins(s, f, n), Joins(t, g, m), \A i \in 1..n : s[i] = t[i]
  PROVE  \A i \in 1..n : f[i] = g[i]
<1> DEFINE T == {i \in Nat : i \in 1..n /\ f[i] # g[i]}
<1>1. SUFFICES ASSUME T # {} PROVE FALSE
  OBVIOUS
<1>2. PICK i \in T : \A k \in T : i <= k
  BY <1>1, LeastNatural
<1>0. i \in 1..n /\ i \in 1..m
  BY <1>2
<1>3. f[i] = IF i = 1 THEN s[i] ELSE f[i - 1] \o s[i]
  BY <1>0 DEF Joins
<1>4. g[i] = IF i = 1 THEN t[i] ELSE g[i - 1] \o t[i]
  BY <1>0 DEF Joins
<1>5. i # 1 => f[i - 1] = g[i - 1]
  BY <1>2
<1> QED
  BY <1>2, <1>3, <1>4, <1>5

(* FlattenSeq as the join of all of its parts.                             *)
LEMMA FlattenJoins ==
  ASSUME NEW s, Len(s) \in Nat \ {0}
  PROVE  \E f : Joins(s, f, Len(s)) /\ FlattenSeq(s) = f[Len(s)]
<1> DEFINE F == CHOOSE f : f = [i \in 1..Len(s) |-> IF i = 1 THEN s[i] ELSE f[i - 1] \o s[i]]
<1>1. FlattenSeq(s) = F[Len(s)]
  BY DEF FlattenSeq
<1>2. \E f : f = [i \in 1..Len(s) |-> IF i = 1 THEN s[i] ELSE f[i - 1] \o s[i]]
  <2>1. PICK f : Joins(s, f, Len(s))
    BY JoinsExist
  <2> QED
    BY <2>1 DEF Joins
<1>3. F = [i \in 1..Len(s) |-> IF i = 1 THEN s[i] ELSE F[i - 1] \o s[i]]
  BY <1>2
<1> HIDE DEF F
<1> QED
  BY <1>1, <1>3 DEF Joins

(* The two equations that the facts below are drawn from.                  *)
LEMMA FlattenNone == FlattenSeq(<<>>) = <<>>
BY DEF FlattenSeq

(* All but the last part, and then the last.                               *)
LEMMA FlattenFront ==
  ASSUME NEW E, NEW s \in Seq(Seq(E)), s # <<>>
  PROVE  /\ Front(s) \in Seq(Seq(E)) /\ Len(Front(s)) = Len(s) - 1 /\ s[Len(s)] \in Seq(E)
         /\ \A i \in 1..(Len(s) - 1) : Front(s)[i] = s[i]
         /\ FlattenSeq(s) = (IF Len(s) = 1 THEN s[1] ELSE FlattenSeq(Front(s)) \o s[Len(s)])
<1>1. Front(s) \in Seq(Seq(E)) /\ Len(Front(s)) = Len(s) - 1 /\ s[Len(s)] \in Seq(E) /\ Len(s) \in Nat \ {0}
  <2>1. Len(s) \in Nat \ {0}
    BY EmptySeq
  <2>2. \A i \in 1..(Len(s) - 1) : s[i] \in Seq(E)
    BY <2>1, ElementOfSeq
  <2>3. s[Len(s)] \in Seq(E)
    BY <2>1, ElementOfSeq
  <2>4. 1 \in Int /\ Len(s) - 1 \in Int
    BY <2>1
  <2>5. SubSeq(s, 1, Len(s) - 1) \in Seq(Seq(E))
    BY <2>2, <2>4, SubSeqProperties
  <2>6. Len(SubSeq(s, 1, Len(s) - 1)) = (IF 1 <= Len(s) - 1 THEN Len(s) - 1 - 1 + 1 ELSE 0)
    BY <2>2, <2>4, SubSeqProperties
  <2>7. Front(s) = SubSeq(s, 1, Len(s) - 1)
    BY DEF Front
  <2>8. Len(SubSeq(s, 1, Len(s) - 1)) = Len(s) - 1
    <3>1. \A n \in Nat \ {0} : n - 1 = (IF 1 <= n - 1 THEN n - 1 - 1 + 1 ELSE 0)
      OBVIOUS
    <3> QED
      BY <2>1, <2>6, <3>1, Zenon
  <2> QED
    BY <2>1, <2>3, <2>5, <2>7, <2>8, Zenon
<1>2. \A i \in 1..(Len(s) - 1) : Front(s)[i] = s[i]
  <2>1. \A i \in 1..(Len(s) - 1) : s[i] \in Seq(E)
    BY <1>1, ElementOfSeq
  <2>2. 1 \in Int /\ Len(s) - 1 \in Int
    BY <1>1
  <2>3. \A i \in 1..(Len(s) - 1) - 1 + 1 : SubSeq(s, 1, Len(s) - 1)[i] = s[1 + i - 1]
    BY <2>1, <2>2, SubSeqProperties
  <2> QED
    BY <1>1, <2>3 DEF Front
<1>3. PICK f : Joins(s, f, Len(s)) /\ FlattenSeq(s) = f[Len(s)]
  BY <1>1, FlattenJoins
<1>4. f[Len(s)] = (IF Len(s) = 1 THEN s[Len(s)] ELSE f[Len(s) - 1] \o s[Len(s)])
  <2>1. Len(s) \in 1..Len(s)
    BY <1>1
  <2> QED
    BY <2>1, <1>3 DEF Joins
<1>5. CASE Len(s) = 1
  BY <1>1, <1>2, <1>3, <1>4, <1>5
<1>6. CASE Len(s) # 1
  <2>1. Len(Front(s)) \in Nat \ {0} /\ Len(Front(s)) <= Len(s)
    BY <1>1, <1>6
  <2>2. PICK g : Joins(Front(s), g, Len(Front(s))) /\ FlattenSeq(Front(s)) = g[Len(Front(s))]
    BY <2>1, FlattenJoins
  <2>3. \A i \in 1..Len(Front(s)) : Front(s)[i] = s[i]
    BY <1>1, <1>2
  <2>4. \A i \in 1..Len(Front(s)) : g[i] = f[i]
    <3>1. Len(Front(s)) \in Nat /\ Len(s) \in Nat /\ Len(Front(s)) <= Len(s)
      BY <1>1, <2>1
    <3>2. Joins(Front(s), g, Len(Front(s))) /\ Joins(s, f, Len(s))
      BY <1>3, <2>2
    <3> HIDE DEF Joins
    <3> QED
      BY <3>1, <3>2, <2>3, JoinsAgree
  <2>5. g[Len(s) - 1] = f[Len(s) - 1]
    BY <1>1, <2>1, <2>4
  <2> QED
    BY <1>1, <1>2, <1>3, <1>4, <1>6, <2>2, <2>5
<1> QED
  BY <1>5, <1>6

(* The elements of one sequence behind another.                            *)
LEMMA ElementsOfConcat ==
  ASSUME NEW E, NEW s \in Seq(E), NEW t \in Seq(E)
  PROVE  \A x : x \in ToSet(s \o t) <=> x \in ToSet(s) \/ x \in ToSet(t)
<1>1. /\ s \o t \in Seq(E) /\ Len(s \o t) = Len(s) + Len(t)
      /\ \A i \in 1..Len(s) + Len(t) : (s \o t)[i] = IF i <= Len(s) THEN s[i] ELSE t[i - Len(s)]
  BY ConcatProperties
<1>2. Len(s) \in Nat /\ Len(t) \in Nat /\ DOMAIN s = 1..Len(s) /\ DOMAIN t = 1..Len(t)
  BY LenProperties
<1>3. DOMAIN (s \o t) = 1..Len(s) + Len(t)
  BY <1>1, LenProperties
<1>4. \A i \in 1..Len(s) : (s \o t)[i] = s[i] /\ i \in 1..Len(s) + Len(t)
  BY <1>1, <1>2
<1>5. \A i \in 1..Len(t) : (s \o t)[i + Len(s)] = t[i] /\ i + Len(s) \in 1..Len(s) + Len(t)
  BY <1>1, <1>2
<1>6. \A i \in 1..Len(s) + Len(t) : ~(i <= Len(s)) => i - Len(s) \in 1..Len(t)
  BY <1>2
<1>7. \A i \in 1..Len(s) + Len(t) : i <= Len(s) => i \in 1..Len(s)
  BY <1>2
<1>8. ASSUME NEW x, x \in ToSet(s) \/ x \in ToSet(t) PROVE x \in ToSet(s \o t)
  BY <1>2, <1>3, <1>4, <1>5, <1>8 DEF ToSet
<1>9. ASSUME NEW x, x \in ToSet(s \o t) PROVE x \in ToSet(s) \/ x \in ToSet(t)
  <2>1. PICK i \in 1..Len(s) + Len(t) : x = (s \o t)[i]
    BY <1>3, <1>9 DEF ToSet
  <2> QED
    BY <1>1, <1>2, <1>6, <1>7, <2>1 DEF ToSet
<1> QED
  BY <1>8, <1>9

(* What holds of no parts, and of parts when it holds of all but the last, *)
(* holds of all: the set P has whatever has the property.                  *)
LEMMA FrontInduction ==
  ASSUME NEW E, NEW P, <<>> \in P,
         \A s \in Seq(Seq(E)) : s # <<>> /\ Front(s) \in P => s \in P
  PROVE  \A s \in Seq(Seq(E)) : s \in P
<1> DEFINE T == {n \in Nat : \E s \in Seq(Seq(E)) : Len(s) = n /\ s \notin P}
<1>1. SUFFICES ASSUME NEW z \in Seq(Seq(E)), z \notin P PROVE FALSE
  OBVIOUS
<1>2. Len(z) \in T
  BY <1>1, LenProperties
<1>3. PICK n \in T : \A m \in T : n <= m
  BY <1>2, LeastNatural
<1>4. PICK s \in Seq(Seq(E)) : Len(s) = n /\ s \notin P
  BY <1>3
<1>5. s # <<>>
  BY <1>4
<1>6. Front(s) \in Seq(Seq(E)) /\ Len(Front(s)) = Len(s) - 1
  BY <1>5, FlattenFront
<1>7. Front(s) \notin P
  BY <1>4, <1>5
<1>8. Len(Front(s)) \in Nat
  BY <1>6, LenProperties
<1>9. Len(Front(s)) \in T
  BY <1>6, <1>7, <1>8
<1>10. n <= Len(Front(s)) /\ n \in Nat
  BY <1>3, <1>9
<1> QED
  BY <1>4, <1>6, <1>8, <1>10

(* The parts joined are a sequence, of the elements of the parts.          *)
LEMMA FlattenType ==
  ASSUME NEW E
  PROVE  \A s \in Seq(Seq(E)) : FlattenSeq(s) \in Seq(E)
<1> DEFINE P == {s \in Seq(Seq(E)) : FlattenSeq(s) \in Seq(E)}
<1>1. <<>> \in P
  <2>1. <<>> \in Seq(Seq(E)) /\ <<>> \in Seq(E)
    BY EmptySeq
  <2> QED
    BY <2>1, FlattenNone, Zenon
<1>2. ASSUME NEW s \in Seq(Seq(E)), s # <<>>, Front(s) \in P PROVE s \in P
  <2>1. /\ s[Len(s)] \in Seq(E)
        /\ FlattenSeq(s) = (IF Len(s) = 1 THEN s[1] ELSE FlattenSeq(Front(s)) \o s[Len(s)])
    BY <1>2, FlattenFront
  <2>2. FlattenSeq(Front(s)) \in Seq(E)
    BY <1>2
  <2>3. FlattenSeq(Front(s)) \o s[Len(s)] \in Seq(E)
    BY <2>1, <2>2, ConcatProperties
  <2> QED
    BY <2>1, <2>3
<1> HIDE DEF P
<1>3. \A s \in Seq(Seq(E)) : s \in P
  BY <1>1, <1>2, FrontInduction
<1> QED
  BY <1>3 DEF P

(* A part behind all the others.                                           *)
LEMMA FlattenLast ==
  ASSUME NEW E, NEW s \in Seq(Seq(E)), s # <<>>
  PROVE  /\ Front(s) \in Seq(Seq(E)) /\ Len(Front(s)) = Len(s) - 1 /\ s[Len(s)] \in Seq(E)
         /\ Len(s) \in Nat \ {0}
         /\ \A i \in 1..(Len(s) - 1) : Front(s)[i] = s[i]
         /\ FlattenSeq(Front(s)) \in Seq(E)
         /\ FlattenSeq(s) = FlattenSeq(Front(s)) \o s[Len(s)]
<1>1. /\ Front(s) \in Seq(Seq(E)) /\ Len(Front(s)) = Len(s) - 1 /\ s[Len(s)] \in Seq(E)
      /\ \A i \in 1..(Len(s) - 1) : Front(s)[i] = s[i]
      /\ FlattenSeq(s) = (IF Len(s) = 1 THEN s[1] ELSE FlattenSeq(Front(s)) \o s[Len(s)])
  BY FlattenFront
<1>2. Len(s) \in Nat \ {0}
  BY EmptySeq
<1>3. FlattenSeq(Front(s)) \in Seq(E)
  BY <1>1, FlattenType
<1>4. CASE Len(s) = 1
  <2>1. Front(s) = <<>>
    <3>1. Len(Front(s)) = 0
      BY <1>1, <1>4
    <3> QED
      BY <1>1, <3>1, EmptySeq
  <2>2. FlattenSeq(Front(s)) = <<>>
    BY <2>1, FlattenNone
  <2>3. <<>> \o s[Len(s)] = s[Len(s)]
    BY <1>1, ConcatEmptySeq
  <2>4. FlattenSeq(s) = s[Len(s)]
    BY <1>1, <1>4
  <2> QED
    BY <1>1, <1>2, <1>3, <2>2, <2>3, <2>4, Zenon
<1>5. CASE Len(s) # 1
  BY <1>1, <1>2, <1>3, <1>5, Zenon
<1> QED
  BY <1>4, <1>5

(* What is in the parts joined is in a part, and the other way round.      *)
LEMMA FlattenElements ==
  ASSUME NEW E
  PROVE  \A s \in Seq(Seq(E)) : \A x : x \in ToSet(FlattenSeq(s)) <=> \E i \in 1..Len(s) : x \in ToSet(s[i])
<1> DEFINE Has(s) == \A x : x \in ToSet(FlattenSeq(s)) <=> \E i \in 1..Len(s) : x \in ToSet(s[i])
           P == {s \in Seq(Seq(E)) : Has(s)}
<1>1. <<>> \in P
  BY FlattenNone DEF ToSet
<1>2. ASSUME NEW s \in Seq(Seq(E)), s # <<>>, Front(s) \in P PROVE s \in P
  <2>1. /\ Front(s) \in Seq(Seq(E)) /\ Len(Front(s)) = Len(s) - 1 /\ s[Len(s)] \in Seq(E)
        /\ Len(s) \in Nat \ {0}
        /\ \A i \in 1..(Len(s) - 1) : Front(s)[i] = s[i]
        /\ FlattenSeq(Front(s)) \in Seq(E)
        /\ FlattenSeq(s) = FlattenSeq(Front(s)) \o s[Len(s)]
    BY <1>2, FlattenLast
  <2>2. \A x : x \in ToSet(FlattenSeq(Front(s))) <=> \E i \in 1..(Len(s) - 1) : x \in ToSet(s[i])
    <3>1. \A x : x \in ToSet(FlattenSeq(Front(s))) <=> \E i \in 1..Len(Front(s)) : x \in ToSet(Front(s)[i])
      BY <1>2
    <3> QED
      BY <2>1, <3>1
  <2>3. \A x : x \in ToSet(FlattenSeq(Front(s)) \o s[Len(s)]) <=>
                 x \in ToSet(FlattenSeq(Front(s))) \/ x \in ToSet(s[Len(s)])
    BY <2>1, ElementsOfConcat
  <2>4. \A x : (\E i \in 1..Len(s) : x \in ToSet(s[i])) <=>
                 (\E i \in 1..(Len(s) - 1) : x \in ToSet(s[i])) \/ x \in ToSet(s[Len(s)])
    BY <2>1
  <2> QED
    BY <2>1, <2>2, <2>3, <2>4
<1> HIDE DEF P
<1>3. \A s \in Seq(Seq(E)) : s \in P
  BY <1>1, <1>2, FrontInduction
<1> QED
  BY <1>3 DEF P

(* Any two elements of a sequence are related, the earlier to the later.   *)
Apart(s, R) == \A i, j \in 1..Len(s) : i < j => <<s[i], s[j]>> \in R
Across(s, t, R) == \A x \in ToSet(s), y \in ToSet(t) : <<x, y>> \in R

(* One sequence behind another: their own pairs, and those across.         *)
LEMMA ApartConcat ==
  ASSUME NEW E, NEW R, NEW s \in Seq(E), NEW t \in Seq(E), Apart(s, R), Apart(t, R), Across(s, t, R)
  PROVE  Apart(s \o t, R)
<1>1. /\ Len(s \o t) = Len(s) + Len(t)
      /\ \A i \in 1..Len(s) + Len(t) : (s \o t)[i] = IF i <= Len(s) THEN s[i] ELSE t[i - Len(s)]
  BY ConcatProperties
<1>2. Len(s) \in Nat /\ Len(t) \in Nat /\ DOMAIN s = 1..Len(s) /\ DOMAIN t = 1..Len(t)
  BY LenProperties
<1>3. SUFFICES ASSUME NEW i \in 1..Len(s) + Len(t), NEW j \in 1..Len(s) + Len(t), i < j
               PROVE  <<(s \o t)[i], (s \o t)[j]>> \in R
  BY <1>1 DEF Apart
<1>4. CASE j <= Len(s)
  <2>1. i \in 1..Len(s) /\ j \in 1..Len(s) /\ i <= Len(s)
    BY <1>2, <1>3, <1>4
  <2>2. (s \o t)[i] = s[i] /\ (s \o t)[j] = s[j]
    BY <1>1, <1>4, <2>1
  <2> QED
    BY <1>3, <2>1, <2>2 DEF Apart
<1>5. CASE ~(i <= Len(s))
  <2>1. /\ i - Len(s) \in 1..Len(t) /\ j - Len(s) \in 1..Len(t) /\ ~(j <= Len(s))
        /\ i - Len(s) < j - Len(s)
    BY <1>2, <1>3, <1>5
  <2>2. (s \o t)[i] = t[i - Len(s)] /\ (s \o t)[j] = t[j - Len(s)]
    BY <1>1, <1>5, <2>1
  <2> QED
    BY <2>1, <2>2 DEF Apart
<1>6. CASE i <= Len(s) /\ ~(j <= Len(s))
  <2>1. i \in 1..Len(s) /\ j - Len(s) \in 1..Len(t)
    BY <1>2, <1>3, <1>6
  <2>2. (s \o t)[i] = s[i] /\ (s \o t)[j] = t[j - Len(s)]
    BY <1>1, <1>6
  <2>3. s[i] \in ToSet(s) /\ t[j - Len(s)] \in ToSet(t)
    BY <1>2, <2>1 DEF ToSet
  <2> QED
    BY <2>2, <2>3 DEF Across
<1> QED
  BY <1>2, <1>3, <1>4, <1>5, <1>6

(* The parts joined: each part's own pairs, and those of an earlier part   *)
(* and a later.                                                            *)
LEMMA FlattenApart ==
  ASSUME NEW E, NEW R
  PROVE  \A s \in Seq(Seq(E)) :
           /\ \A i \in 1..Len(s) : Apart(s[i], R)
           /\ \A i, j \in 1..Len(s) : i < j => Across(s[i], s[j], R)
           => Apart(FlattenSeq(s), R)
<1> DEFINE Given(s) == /\ \A i \in 1..Len(s) : Apart(s[i], R)
                       /\ \A i, j \in 1..Len(s) : i < j => Across(s[i], s[j], R)
           P == {s \in Seq(Seq(E)) : Given(s) => Apart(FlattenSeq(s), R)}
<1>1. <<>> \in P
  <2>1. <<>> \in Seq(Seq(E))
    BY EmptySeq
  <2>2. Apart(<<>>, R)
    BY DEF Apart
  <2> QED
    BY <2>1, <2>2, FlattenNone, Zenon
<1>2. ASSUME NEW s \in Seq(Seq(E)), s # <<>>, Front(s) \in P PROVE s \in P
  <2>1. /\ Front(s) \in Seq(Seq(E)) /\ Len(Front(s)) = Len(s) - 1 /\ s[Len(s)] \in Seq(E)
        /\ Len(s) \in Nat \ {0}
        /\ \A i \in 1..(Len(s) - 1) : Front(s)[i] = s[i]
        /\ FlattenSeq(Front(s)) \in Seq(E)
        /\ FlattenSeq(s) = FlattenSeq(Front(s)) \o s[Len(s)]
    BY <1>2, FlattenLast
  <2>2. SUFFICES ASSUME Given(s) PROVE Apart(FlattenSeq(s), R)
    OBVIOUS
  <2>3. Given(Front(s))
    <3>1. \A i \in 1..(Len(s) - 1) : Apart(Front(s)[i], R)
      <4>1. \A i \in 1..(Len(s) - 1) : i \in 1..Len(s)
        BY <2>1
      <4> QED
        BY <2>1, <2>2, <4>1
    <3>2. \A i, j \in 1..(Len(s) - 1) : i < j => Across(Front(s)[i], Front(s)[j], R)
      <4>1. \A i \in 1..(Len(s) - 1) : i \in 1..Len(s)
        BY <2>1
      <4> QED
        BY <2>1, <2>2, <4>1
    <3> QED
      BY <2>1, <3>1, <3>2
  <2>4. Apart(FlattenSeq(Front(s)), R)
    BY <1>2, <2>3
  <2>5. Apart(s[Len(s)], R)
    BY <2>1, <2>2
  <2>6. Across(FlattenSeq(Front(s)), s[Len(s)], R)
    <3>1. \A x : x \in ToSet(FlattenSeq(Front(s))) <=> \E i \in 1..Len(Front(s)) : x \in ToSet(Front(s)[i])
      BY <2>1, FlattenElements
    <3>2. \A i \in 1..(Len(s) - 1) : Across(s[i], s[Len(s)], R)
      BY <2>1, <2>2
    <3>3. SUFFICES ASSUME NEW x \in ToSet(FlattenSeq(Front(s))), NEW y \in ToSet(s[Len(s)])
                   PROVE  <<x, y>> \in R
      BY DEF Across
    <3>4. PICK i \in 1..Len(Front(s)) : x \in ToSet(Front(s)[i])
      BY <3>1
    <3>5. i \in 1..(Len(s) - 1)
      BY <2>1, <3>4
    <3>6. x \in ToSet(s[i])
      BY <2>1, <3>4, <3>5
    <3> QED
      BY <3>2, <3>5, <3>6 DEF Across
  <2> QED
    BY <2>1, <2>4, <2>5, <2>6, ApartConcat
<1> HIDE DEF P
<1>3. \A s \in Seq(Seq(E)) : s \in P
  BY <1>1, <1>2, FrontInduction
<1> QED
  BY <1>3 DEF P

(* How long the parts are together, when one part is put for another.      *)
LEMMA FlattenExcept ==
  ASSUME NEW E
  PROVE  \A s \in Seq(Seq(E)) : \A b \in 1..Len(s), u \in Seq(E) :
           Len(FlattenSeq([s EXCEPT ![b] = u])) + Len(s[b]) = Len(FlattenSeq(s)) + Len(u)
<1> DEFINE Adds(s) == \A b \in 1..Len(s), u \in Seq(E) :
                        Len(FlattenSeq([s EXCEPT ![b] = u])) + Len(s[b]) = Len(FlattenSeq(s)) + Len(u)
           P == {s \in Seq(Seq(E)) : Adds(s)}
<1>1. <<>> \in P
  <2>1. <<>> \in Seq(Seq(E)) /\ Len(<<>>) = 0
    BY EmptySeq
  <2>2. 1..0 = {}
    OBVIOUS
  <2> QED
    BY <2>1, <2>2
<1>2. ASSUME NEW s \in Seq(Seq(E)), s # <<>>, Front(s) \in P PROVE s \in P
  <2>1. /\ Front(s) \in Seq(Seq(E)) /\ Len(Front(s)) = Len(s) - 1 /\ s[Len(s)] \in Seq(E)
        /\ Len(s) \in Nat \ {0}
        /\ \A i \in 1..(Len(s) - 1) : Front(s)[i] = s[i]
        /\ FlattenSeq(Front(s)) \in Seq(E)
        /\ FlattenSeq(s) = FlattenSeq(Front(s)) \o s[Len(s)]
    BY <1>2, FlattenLast
  <2>2. SUFFICES ASSUME NEW b \in 1..Len(s), NEW u \in Seq(E)
                 PROVE  Len(FlattenSeq([s EXCEPT ![b] = u])) + Len(s[b]) = Len(FlattenSeq(s)) + Len(u)
    OBVIOUS
  <2> DEFINE t == [s EXCEPT ![b] = u]
  <2>3. /\ t \in Seq(Seq(E)) /\ Len(t) = Len(s)
        /\ \A i \in 1..Len(s) : t[i] = IF i = b THEN u ELSE s[i]
    BY ExceptSeq
  <2> HIDE DEF t
  <2>0. SUFFICES Len(FlattenSeq(t)) + Len(s[b]) = Len(FlattenSeq(s)) + Len(u)
    BY DEF t
  <2>4. t # <<>>
    BY <2>1, <2>3, EmptySeq
  <2>5. /\ Front(t) \in Seq(Seq(E)) /\ Len(Front(t)) = Len(t) - 1 /\ t[Len(t)] \in Seq(E)
        /\ \A i \in 1..(Len(t) - 1) : Front(t)[i] = t[i]
        /\ FlattenSeq(Front(t)) \in Seq(E)
        /\ FlattenSeq(t) = FlattenSeq(Front(t)) \o t[Len(t)]
    BY <2>3, <2>4, FlattenLast
  <2>6. Len(FlattenSeq(s)) = Len(FlattenSeq(Front(s))) + Len(s[Len(s)])
    BY <2>1, ConcatProperties
  <2>7. Len(FlattenSeq(t)) = Len(FlattenSeq(Front(t))) + Len(t[Len(t)])
    BY <2>5, ConcatProperties
  <2>8. /\ Len(FlattenSeq(Front(s))) \in Nat /\ Len(FlattenSeq(Front(t))) \in Nat
        /\ Len(s[Len(s)]) \in Nat /\ Len(t[Len(t)]) \in Nat /\ Len(u) \in Nat
    BY <2>1, <2>5, LenProperties
  <2>9. CASE b = Len(s)
    <3>1. t[Len(t)] = u
      BY <2>1, <2>3, <2>9
    <3>2. Front(t) = Front(s)
      <4>1. Len(Front(t)) = Len(Front(s))
        BY <2>1, <2>3, <2>5
      <4>2. \A i \in 1..Len(Front(t)) : Front(t)[i] = Front(s)[i]
        <5> SUFFICES ASSUME NEW i \in 1..Len(Front(t)) PROVE Front(t)[i] = Front(s)[i]
          OBVIOUS
        <5>0. i \in 1..(Len(s) - 1) /\ Len(s) \in Nat \ {0} /\ Len(t) = Len(s)
          BY <2>1, <2>3, <2>5
        <5>1. i \in 1..(Len(s) - 1) /\ i \in 1..Len(s) /\ i # b /\ i \in 1..(Len(t) - 1)
          BY <5>0, <2>9
        <5> QED
          BY <5>1, <2>1, <2>3, <2>5
      <4> QED
        BY <2>1, <2>5, <4>1, <4>2, SeqEqual
    <3>3. Len(s[b]) = Len(s[Len(s)]) /\ Len(FlattenSeq(t)) = Len(FlattenSeq(Front(s))) + Len(u)
      BY <2>7, <2>9, <3>1, <3>2
    <3>4. \A ff, ls, lu \in Nat : (ff + lu) + ls = (ff + ls) + lu
      OBVIOUS
    <3>5. Len(FlattenSeq(t)) + Len(s[b]) = (Len(FlattenSeq(Front(s))) + Len(u)) + Len(s[Len(s)])
      BY <3>3, Zenon
    <3>6. Len(FlattenSeq(s)) + Len(u) = (Len(FlattenSeq(Front(s))) + Len(s[Len(s)])) + Len(u)
      BY <2>6, Zenon
    <3>7. (Len(FlattenSeq(Front(s))) + Len(u)) + Len(s[Len(s)]) = (Len(FlattenSeq(Front(s))) + Len(s[Len(s)])) + Len(u)
      BY <2>8, <3>4, Zenon
    <3> QED
      BY <3>5, <3>6, <3>7, Zenon
  <2>10. CASE b # Len(s)
    <3>0. Len(Front(s)) = Len(s) - 1 /\ Len(t) = Len(s) /\ Len(s) \in Nat \ {0}
      BY <2>1, <2>3, Zenon
    <3> DEFINE k == Len(s)
    <3>1. b \in 1..Len(Front(s))
      <4>1. k \in Nat \ {0} /\ b \in 1..k /\ b # k
        BY <3>0, <2>10, Zenon
      <4> HIDE DEF k
      <4>2. b \in 1..(k - 1)
        BY <4>1
      <4> QED
        BY <4>2, <3>0, Zenon DEF k
    <3>2. t[Len(t)] = s[Len(s)]
      <4>1. k \in Nat \ {0}
        BY <3>0, Zenon
      <4> HIDE DEF k
      <4>2. k \in 1..k
        BY <4>1
      <4>3. Len(s) \in 1..Len(s) /\ Len(s) # b
        BY <4>2, <2>10, Zenon DEF k
      <4>4. t[Len(s)] = s[Len(s)]
        BY <4>3, <2>3, Zenon
      <4> QED
        BY <4>4, <3>0, Zenon
    <3> HIDE DEF k
    <3>3. Front(t) = [Front(s) EXCEPT ![b] = u]
      <4>1. /\ [Front(s) EXCEPT ![b] = u] \in Seq(Seq(E)) /\ Len([Front(s) EXCEPT ![b] = u]) = Len(Front(s))
            /\ \A i \in 1..Len(Front(s)) : [Front(s) EXCEPT ![b] = u][i] = IF i = b THEN u ELSE Front(s)[i]
        <5> DEFINE X == Seq(E)
                   f == Front(s)
        <5>1. f \in Seq(X) /\ b \in 1..Len(f) /\ u \in X
          BY <2>1, <3>1
        <5> HIDE DEF X, f
        <5>2. /\ [f EXCEPT ![b] = u] \in Seq(X) /\ Len([f EXCEPT ![b] = u]) = Len(f)
              /\ \A i \in 1..Len(f) : [f EXCEPT ![b] = u][i] = IF i = b THEN u ELSE f[i]
          BY <5>1, ExceptSeq
        <5> QED
          BY <5>2 DEF X, f
      <4>2. Len(Front(t)) = Len([Front(s) EXCEPT ![b] = u])
        <5>1. Len([Front(s) EXCEPT ![b] = u]) = Len(Front(s)) /\ Len(Front(t)) = Len(t) - 1
          BY <2>5, <4>1, Zenon
        <5> QED
          BY <5>1, <3>0, Zenon
      <4>3. \A i \in 1..Len(Front(t)) : Front(t)[i] = [Front(s) EXCEPT ![b] = u][i]
        <5> SUFFICES ASSUME NEW i \in 1..Len(Front(t)) PROVE Front(t)[i] = [Front(s) EXCEPT ![b] = u][i]
          OBVIOUS
        <5>1. i \in 1..(Len(s) - 1) /\ i \in 1..Len(s) /\ i \in 1..(Len(t) - 1) /\ i \in 1..Len(Front(s))
          BY <2>1, <2>3, <2>5
        <5>2. Front(t)[i] = IF i = b THEN u ELSE s[i]
          BY <5>1, <2>3, <2>5
        <5> QED
          BY <5>1, <5>2, <2>1, <4>1
      <4> QED
        BY <2>5, <4>1, <4>2, <4>3, SeqEqual
    <3>4. Len(FlattenSeq([Front(s) EXCEPT ![b] = u])) + Len(Front(s)[b]) = Len(FlattenSeq(Front(s))) + Len(u)
      BY <1>2, <3>1
    <3>5. Front(s)[b] = s[b]
      BY <2>1, <3>1
    <3>6. Len(s[b]) \in Nat
      BY <2>2, ElementOfSeq, LenProperties
    <3>7. Len(FlattenSeq(Front(t))) + Len(s[b]) = Len(FlattenSeq(Front(s))) + Len(u)
      BY <3>3, <3>4, <3>5
    <3>8. Len(FlattenSeq(t)) = Len(FlattenSeq(Front(t))) + Len(s[Len(s)])
      BY <2>7, <3>2
    <3>10. (Len(FlattenSeq(Front(t))) + Len(s[Len(s)])) + Len(s[b]) = (Len(FlattenSeq(Front(s))) + Len(s[Len(s)])) + Len(u)
      <4> DEFINE ff == Len(FlattenSeq(Front(s)))
                 gg == Len(FlattenSeq(Front(t)))
                 ls == Len(s[Len(s)])
                 lb == Len(s[b])
                 lu == Len(u)
      <4>1. ff \in Nat /\ gg \in Nat /\ ls \in Nat /\ lb \in Nat /\ lu \in Nat
        BY <2>8, <3>6
      <4>2. gg + lb = ff + lu
        BY <3>7
      <4> SUFFICES (gg + ls) + lb = (ff + ls) + lu
        OBVIOUS
      <4> HIDE DEF ff, gg, ls, lb, lu
      <4> QED
        BY <4>1, <4>2
    <3>11. Len(FlattenSeq(t)) + Len(s[b]) = (Len(FlattenSeq(Front(t))) + Len(s[Len(s)])) + Len(s[b])
      BY <3>8, Zenon
    <3>12. Len(FlattenSeq(s)) + Len(u) = (Len(FlattenSeq(Front(s))) + Len(s[Len(s)])) + Len(u)
      BY <2>6, Zenon
    <3> QED
      BY <3>10, <3>11, <3>12, Zenon
  <2> QED
    BY <2>9, <2>10
<1> HIDE DEF P
<1>3. \A s \in Seq(Seq(E)) : s \in P
  BY <1>1, <1>2, FrontInduction
<1> QED
  BY <1>3 DEF P

(* Two lists of parts, one behind the other.                               *)
LEMMA FlattenConcat ==
  ASSUME NEW E, NEW a \in Seq(Seq(E))
  PROVE  \A s \in Seq(Seq(E)) : FlattenSeq(a \o s) = FlattenSeq(a) \o FlattenSeq(s)
<1> DEFINE P == {s \in Seq(Seq(E)) : FlattenSeq(a \o s) = FlattenSeq(a) \o FlattenSeq(s)}
<1>0. FlattenSeq(a) \in Seq(E)
  BY FlattenType
<1>1. <<>> \in P
  <2>1. <<>> \in Seq(Seq(E))
    BY EmptySeq
  <2>2. a \o <<>> = a
    BY ConcatEmptySeq
  <2>3. FlattenSeq(a) \o <<>> = FlattenSeq(a)
    BY <1>0, ConcatEmptySeq
  <2> QED
    BY <2>1, <2>2, <2>3, FlattenNone, Zenon
<1>2. ASSUME NEW s \in Seq(Seq(E)), s # <<>>, Front(s) \in P PROVE s \in P
  <2>1. /\ Front(s) \in Seq(Seq(E)) /\ Len(Front(s)) = Len(s) - 1 /\ s[Len(s)] \in Seq(E)
        /\ Len(s) \in Nat \ {0}
        /\ \A i \in 1..(Len(s) - 1) : Front(s)[i] = s[i]
        /\ FlattenSeq(Front(s)) \in Seq(E)
        /\ FlattenSeq(s) = FlattenSeq(Front(s)) \o s[Len(s)]
    BY <1>2, FlattenLast
  <2> DEFINE t == a \o s
  <2>2. /\ t \in Seq(Seq(E)) /\ Len(t) = Len(a) + Len(s)
        /\ \A i \in 1..Len(a) + Len(s) : t[i] = IF i <= Len(a) THEN a[i] ELSE s[i - Len(a)]
    BY ConcatProperties
  <2>3. Len(a) \in Nat
    BY LenProperties
  <2>0. FlattenSeq(a) \o (FlattenSeq(Front(s)) \o s[Len(s)]) = (FlattenSeq(a) \o FlattenSeq(Front(s))) \o s[Len(s)]
    <3>1. FlattenSeq(Front(s)) \in Seq(E) /\ s[Len(s)] \in Seq(E)
      BY <2>1
    <3>2. (FlattenSeq(a) \o FlattenSeq(Front(s))) \o s[Len(s)] = FlattenSeq(a) \o (FlattenSeq(Front(s)) \o s[Len(s)])
      <4>1. \A x, y, z \in Seq(E) : (x \o y) \o z = x \o (y \o z)
        BY ConcatAssociative
      <4> QED
        BY <1>0, <3>1, <4>1, Zenon
    <3> QED
      BY <3>2, Zenon
  <2>10. FlattenSeq(a \o Front(s)) = FlattenSeq(a) \o FlattenSeq(Front(s))
    BY <1>2
  <2>11. t = a \o s
    OBVIOUS
  <2> HIDE DEF t
  <2>4. t # <<>>
    <3>1. Len(t) # 0
      BY <2>1, <2>2, <2>3
    <3> QED
      BY <3>1, EmptySeq
  <2>5. /\ Front(t) \in Seq(Seq(E)) /\ Len(Front(t)) = Len(t) - 1
        /\ \A i \in 1..(Len(t) - 1) : Front(t)[i] = t[i]
        /\ FlattenSeq(t) = FlattenSeq(Front(t)) \o t[Len(t)]
    BY <2>2, <2>4, FlattenLast
  <2>6. t[Len(t)] = s[Len(s)]
    <3>1. Len(t) \in 1..Len(a) + Len(s) /\ ~(Len(t) <= Len(a)) /\ Len(t) - Len(a) = Len(s)
      BY <2>1, <2>2, <2>3
    <3> QED
      BY <2>2, <3>1
  <2>7. /\ a \o Front(s) \in Seq(Seq(E)) /\ Len(a \o Front(s)) = Len(a) + Len(Front(s))
        /\ \A i \in 1..Len(a) + Len(Front(s)) : (a \o Front(s))[i] = IF i <= Len(a) THEN a[i] ELSE Front(s)[i - Len(a)]
    BY <2>1, ConcatProperties
  <2>8. Front(t) = a \o Front(s)
    <3>1. Len(Front(t)) = Len(a \o Front(s)) /\ Len(Front(t)) = Len(a) + Len(s) - 1
      BY <2>1, <2>2, <2>3, <2>5, <2>7
    <3>2. \A i \in 1..Len(Front(t)) : Front(t)[i] = (a \o Front(s))[i]
      <4> SUFFICES ASSUME NEW i \in 1..Len(Front(t)) PROVE Front(t)[i] = (a \o Front(s))[i]
        OBVIOUS
      <4>1. /\ i \in 1..(Len(t) - 1) /\ i \in 1..Len(a) + Len(s) /\ i \in 1..Len(a) + Len(Front(s))
            /\ (~(i <= Len(a)) => i - Len(a) \in 1..(Len(s) - 1))
        <5> DEFINE la == Len(a)
                   ls == Len(s)
        <5>1. /\ la \in Nat /\ ls \in Nat \ {0} /\ i \in 1..(la + ls - 1)
              /\ Len(t) = la + ls /\ Len(Front(s)) = ls - 1
          BY <2>1, <2>2, <2>3, <3>1
        <5> HIDE DEF la, ls
        <5>2. /\ i \in 1..(la + ls - 1) /\ i \in 1..la + ls /\ i \in 1..la + (ls - 1)
              /\ (~(i <= la) => i - la \in 1..(ls - 1))
          BY <5>1
        <5> QED
          BY <5>1, <5>2 DEF la, ls
      <4>2. Front(t)[i] = IF i <= Len(a) THEN a[i] ELSE s[i - Len(a)]
        BY <2>2, <2>5, <4>1
      <4>3. (a \o Front(s))[i] = IF i <= Len(a) THEN a[i] ELSE Front(s)[i - Len(a)]
        BY <2>7, <4>1
      <4>4. ~(i <= Len(a)) => Front(s)[i - Len(a)] = s[i - Len(a)]
        BY <2>1, <4>1
      <4> QED
        BY <4>2, <4>3, <4>4, Zenon
    <3> QED
      BY <2>5, <2>7, <3>1, <3>2, SeqEqual
  <2>9. FlattenSeq(t) = (FlattenSeq(a) \o FlattenSeq(Front(s))) \o s[Len(s)]
    BY <2>5, <2>6, <2>8, <2>10, Zenon
  <2>12. FlattenSeq(a \o s) = FlattenSeq(a) \o FlattenSeq(s)
    BY <2>0, <2>1, <2>9, <2>11, Zenon
  <2> QED
    BY <2>12
<1> HIDE DEF P
<1>3. \A s \in Seq(Seq(E)) : s \in P
  BY <1>1, <1>2, FrontInduction
<1> QED
  BY <1>3 DEF P

(* Parts that two others share out are together as long, or longer.        *)
Shared(a, b, s) == /\ Len(a) = Len(s) /\ Len(b) = Len(s)
                   /\ \A i \in 1..Len(s) : Len(a[i]) + Len(b[i]) <= Len(s[i])

(* Part by part, and so all together.                                      *)
LEMMA FlattenShared ==
  ASSUME NEW E
  PROVE  \A s \in Seq(Seq(E)) : \A a, b \in Seq(Seq(E)) :
           Shared(a, b, s) => Len(FlattenSeq(a)) + Len(FlattenSeq(b)) <= Len(FlattenSeq(s))
<1> DEFINE Bound(s) == \A a, b \in Seq(Seq(E)) :
                         Shared(a, b, s) => Len(FlattenSeq(a)) + Len(FlattenSeq(b)) <= Len(FlattenSeq(s))
           P == {s \in Seq(Seq(E)) : Bound(s)}
<1>1. <<>> \in P
  <2>1. <<>> \in Seq(Seq(E)) /\ Len(<<>>) = 0
    BY EmptySeq
  <2>2. \A a \in Seq(Seq(E)) : Len(a) = 0 => a = <<>>
    BY EmptySeq
  <2>3. \A a, b \in Seq(Seq(E)) : Shared(a, b, <<>>) => a = <<>> /\ b = <<>>
    BY <2>1, <2>2 DEF Shared
  <2>4. Len(FlattenSeq(<<>>)) = 0
    BY FlattenNone
  <2>5. \A a, b \in Seq(Seq(E)) : Shared(a, b, <<>>) =>
          Len(FlattenSeq(a)) + Len(FlattenSeq(b)) <= Len(FlattenSeq(<<>>))
    BY <2>3, <2>4
  <2> QED
    BY <2>1, <2>5
<1>2. ASSUME NEW s \in Seq(Seq(E)), s # <<>>, Front(s) \in P PROVE s \in P
  <2>1. \A t \in Seq(Seq(E)) : t # <<>> =>
          /\ Front(t) \in Seq(Seq(E)) /\ Len(Front(t)) = Len(t) - 1 /\ t[Len(t)] \in Seq(E)
          /\ Len(t) \in Nat \ {0}
          /\ \A i \in 1..(Len(t) - 1) : Front(t)[i] = t[i]
          /\ FlattenSeq(Front(t)) \in Seq(E)
          /\ FlattenSeq(t) = FlattenSeq(Front(t)) \o t[Len(t)]
    BY FlattenLast
  <2>2. SUFFICES ASSUME NEW a \in Seq(Seq(E)), NEW b \in Seq(Seq(E)), Shared(a, b, s)
                 PROVE  Len(FlattenSeq(a)) + Len(FlattenSeq(b)) <= Len(FlattenSeq(s))
    OBVIOUS
  <2>3. Len(s) \in Nat \ {0} /\ Len(a) = Len(s) /\ Len(b) = Len(s)
    BY <1>2, <2>1, <2>2 DEF Shared
  <2>4. a # <<>> /\ b # <<>>
    BY <2>3, EmptySeq
  <2>5. \A t \in {a, b, s} : /\ Len(FlattenSeq(t)) = Len(FlattenSeq(Front(t))) + Len(t[Len(s)])
                             /\ Len(FlattenSeq(Front(t))) \in Nat /\ Len(t[Len(s)]) \in Nat
    <3> SUFFICES ASSUME NEW t \in {a, b, s}
                 PROVE  /\ Len(FlattenSeq(t)) = Len(FlattenSeq(Front(t))) + Len(t[Len(s)])
                        /\ Len(FlattenSeq(Front(t))) \in Nat /\ Len(t[Len(s)]) \in Nat
      OBVIOUS
    <3>1. t \in Seq(Seq(E)) /\ t # <<>> /\ Len(t) = Len(s)
      BY <1>2, <2>3, <2>4
    <3>2. /\ t[Len(s)] \in Seq(E) /\ FlattenSeq(Front(t)) \in Seq(E)
          /\ FlattenSeq(t) = FlattenSeq(Front(t)) \o t[Len(s)]
      BY <2>1, <3>1
    <3> QED
      BY <3>2, ConcatProperties, LenProperties
  <2>6. Shared(Front(a), Front(b), Front(s))
    <3>1. Len(Front(a)) = Len(s) - 1 /\ Len(Front(b)) = Len(s) - 1 /\ Len(Front(s)) = Len(s) - 1
      BY <1>2, <2>1, <2>3, <2>4
    <3>2. \A i \in 1..(Len(s) - 1) : Front(a)[i] = a[i] /\ Front(b)[i] = b[i] /\ Front(s)[i] = s[i] /\ i \in 1..Len(s)
      <4>1. \A i \in 1..(Len(s) - 1) : Front(a)[i] = a[i]
        BY <2>1, <2>3, <2>4
      <4>2. \A i \in 1..(Len(s) - 1) : Front(b)[i] = b[i]
        BY <2>1, <2>3, <2>4
      <4>3. \A i \in 1..(Len(s) - 1) : Front(s)[i] = s[i] /\ i \in 1..Len(s)
        <5>1. \A i \in 1..(Len(s) - 1) : Front(s)[i] = s[i]
          BY <1>2, <2>1
        <5>2. \A i \in 1..(Len(s) - 1) : i \in 1..Len(s)
          BY <2>3
        <5> QED
          BY <5>1, <5>2
      <4> QED
        BY <4>1, <4>2, <4>3
    <3>3. \A i \in 1..Len(s) : Len(a[i]) + Len(b[i]) <= Len(s[i])
      BY <2>2 DEF Shared
    <3>4. \A i \in 1..Len(Front(s)) : Len(Front(a)[i]) + Len(Front(b)[i]) <= Len(Front(s)[i])
      BY <3>1, <3>2, <3>3
    <3> QED
      BY <3>1, <3>4 DEF Shared
  <2>7. Len(FlattenSeq(Front(a))) + Len(FlattenSeq(Front(b))) <= Len(FlattenSeq(Front(s)))
    BY <1>2, <2>1, <2>4, <2>6
  <2>8. Len(a[Len(s)]) + Len(b[Len(s)]) <= Len(s[Len(s)])
    <3>1. Len(s) \in 1..Len(s)
      BY <2>3
    <3> QED
      BY <2>2, <3>1 DEF Shared
  <2> DEFINE fa == Len(FlattenSeq(Front(a)))
             fb == Len(FlattenSeq(Front(b)))
             fs == Len(FlattenSeq(Front(s)))
             la == Len(a[Len(s)])
             lb == Len(b[Len(s)])
             ls == Len(s[Len(s)])
             wa == Len(FlattenSeq(a))
             wb == Len(FlattenSeq(b))
             ws == Len(FlattenSeq(s))
  <2>9. /\ fa \in Nat /\ fb \in Nat /\ fs \in Nat /\ la \in Nat /\ lb \in Nat /\ ls \in Nat
        /\ wa = fa + la /\ wb = fb + lb /\ ws = fs + ls
    BY <2>5
  <2>10. fa + fb <= fs /\ la + lb <= ls
    BY <2>7, <2>8
  <2> SUFFICES wa + wb <= ws
    OBVIOUS
  <2> HIDE DEF fa, fb, fs, la, lb, ls, wa, wb, ws
  <2> QED
    BY <2>9, <2>10
<1> HIDE DEF P
<1>3. \A s \in Seq(Seq(E)) : s \in P
  BY <1>1, <1>2, FrontInduction
<1> QED
  BY <1>3 DEF P

(* Parts of one element at most are together no longer than they are many. *)
LEMMA FlattenSingles ==
  ASSUME NEW E
  PROVE  \A s \in Seq(Seq(E)) : (\A i \in 1..Len(s) : Len(s[i]) <= 1) => Len(FlattenSeq(s)) <= Len(s)
<1> DEFINE Single(s) == \A i \in 1..Len(s) : Len(s[i]) <= 1
           P == {s \in Seq(Seq(E)) : Single(s) => Len(FlattenSeq(s)) <= Len(s)}
<1>1. <<>> \in P
  <2>1. <<>> \in Seq(Seq(E)) /\ Len(<<>>) = 0
    BY EmptySeq
  <2>2. Len(FlattenSeq(<<>>)) <= Len(<<>>)
    BY <2>1, FlattenNone
  <2> QED
    BY <2>1, <2>2
<1>2. ASSUME NEW s \in Seq(Seq(E)), s # <<>>, Front(s) \in P PROVE s \in P
  <2>1. /\ Front(s) \in Seq(Seq(E)) /\ Len(Front(s)) = Len(s) - 1 /\ s[Len(s)] \in Seq(E)
        /\ Len(s) \in Nat \ {0}
        /\ \A i \in 1..(Len(s) - 1) : Front(s)[i] = s[i]
        /\ FlattenSeq(Front(s)) \in Seq(E)
        /\ FlattenSeq(s) = FlattenSeq(Front(s)) \o s[Len(s)]
    BY <1>2, FlattenLast
  <2>2. SUFFICES ASSUME Single(s) PROVE Len(FlattenSeq(s)) <= Len(s)
    OBVIOUS
  <2>3. Single(Front(s))
    <3>1. \A i \in 1..(Len(s) - 1) : i \in 1..Len(s)
      BY <2>1
    <3> QED
      BY <2>1, <2>2, <3>1
  <2>4. Len(FlattenSeq(Front(s))) <= Len(s) - 1
    BY <1>2, <2>1, <2>3
  <2>5. Len(s[Len(s)]) <= 1
    BY <2>1, <2>2
  <2>6. Len(FlattenSeq(s)) = Len(FlattenSeq(Front(s))) + Len(s[Len(s)])
    BY <2>1, ConcatProperties
  <2>7. Len(FlattenSeq(Front(s))) \in Nat /\ Len(s[Len(s)]) \in Nat
    BY <2>1, LenProperties
  <2> DEFINE f == Len(FlattenSeq(Front(s)))
             l == Len(s[Len(s)])
             w == Len(FlattenSeq(s))
             n == Len(s)
  <2>8. f \in Nat /\ l \in Nat /\ n \in Nat /\ w = f + l /\ f <= n - 1 /\ l <= 1
    BY <2>1, <2>4, <2>5, <2>6, <2>7
  <2> SUFFICES w <= n
    OBVIOUS
  <2> HIDE DEF f, l, w, n
  <2> QED
    BY <2>8
<1> HIDE DEF P
<1>3. \A s \in Seq(Seq(E)) : s \in P
  BY <1>1, <1>2, FrontInduction
<1> QED
  BY <1>3 DEF P

(* The parts that Those joins. *)
Picks(s, W) == [i \in DOMAIN s |-> IF s[i] \in W THEN <<s[i]>> ELSE <<>>]

(* Each is an element that is wanted, or none.                             *)
LEMMA PicksType ==
  ASSUME NEW E, NEW s \in Seq(E), NEW W
  PROVE  /\ Picks(s, W) \in Seq(Seq(E)) /\ Len(Picks(s, W)) = Len(s)
         /\ \A i \in 1..Len(s) : /\ Picks(s, W)[i] = IF s[i] \in W THEN <<s[i]>> ELSE <<>>
                                 /\ s[i] \in E
<1>1. Len(s) \in Nat /\ DOMAIN s = 1..Len(s) /\ s \in [1..Len(s) -> E]
  BY LenProperties
<1>2. \A i \in 1..Len(s) : (IF s[i] \in W THEN <<s[i]>> ELSE <<>>) \in Seq(E)
  BY <1>1
<1>3. Picks(s, W) = [i \in 1..Len(s) |-> IF s[i] \in W THEN <<s[i]>> ELSE <<>>]
  BY <1>1 DEF Picks
<1> DEFINE n == Len(s)
<1>4. [i \in 1..n |-> IF s[i] \in W THEN <<s[i]>> ELSE <<>>] \in Seq(Seq(E))
  <2>1. n \in Nat /\ \A i \in 1..n : (IF s[i] \in W THEN <<s[i]>> ELSE <<>>) \in Seq(E)
    BY <1>1, <1>2
  <2> HIDE DEF n
  <2> QED
    BY <2>1
<1>5. Len([i \in 1..n |-> IF s[i] \in W THEN <<s[i]>> ELSE <<>>]) = n
  <2>1. n \in Nat
    BY <1>1
  <2> HIDE DEF n
  <2> QED
    BY <2>1
<1> QED
  BY <1>1, <1>3, <1>4, <1>5

(* Those of a sequence that are wanted: what they are, and that they keep  *)
(* their order.                                                            *)
LEMMA ThoseFacts ==
  ASSUME NEW E, NEW s \in Seq(E), NEW W
  PROVE  /\ Those(s, W) \in Seq(E)
         /\ \A x : x \in ToSet(Those(s, W)) <=> x \in ToSet(s) /\ x \in W
         /\ \A R : Apart(s, R) => Apart(Those(s, W), R)
<1>1. /\ Picks(s, W) \in Seq(Seq(E)) /\ Len(Picks(s, W)) = Len(s)
      /\ \A i \in 1..Len(s) : /\ Picks(s, W)[i] = IF s[i] \in W THEN <<s[i]>> ELSE <<>>
                              /\ s[i] \in E
  BY PicksType
<1>2. Those(s, W) = FlattenSeq(Picks(s, W))
  BY DEF Those, Picks
<1>3. Those(s, W) \in Seq(E)
  BY <1>1, <1>2, FlattenType
<1>4. DOMAIN s = 1..Len(s)
  BY LenProperties
<1>5. \A i \in 1..Len(s) : ToSet(Picks(s, W)[i]) = IF s[i] \in W THEN {s[i]} ELSE {}
  <2>1. \A x : ToSet(<<x>>) = {x}
    BY DEF ToSet
  <2>2. ToSet(<<>>) = {}
    BY DEF ToSet
  <2> QED
    BY <1>1, <2>1, <2>2
<1>6. ASSUME NEW x PROVE x \in ToSet(Those(s, W)) <=> x \in ToSet(s) /\ x \in W
  <2>1. x \in ToSet(FlattenSeq(Picks(s, W))) <=> \E i \in 1..Len(s) : x \in ToSet(Picks(s, W)[i])
    BY <1>1, FlattenElements
  <2>2. (\E i \in 1..Len(s) : x \in ToSet(Picks(s, W)[i])) <=> \E i \in 1..Len(s) : s[i] \in W /\ x = s[i]
    BY <1>5
  <2>3. x \in ToSet(s) <=> \E i \in 1..Len(s) : x = s[i]
    BY <1>4 DEF ToSet
  <2> QED
    BY <1>2, <2>1, <2>2, <2>3
<1>7. ASSUME NEW R, Apart(s, R) PROVE Apart(Those(s, W), R)
  <2>1. \A i \in 1..Len(Picks(s, W)) : Apart(Picks(s, W)[i], R)
    <3>1. \A x : Apart(<<x>>, R)
      BY DEF Apart
    <3>2. Apart(<<>>, R)
      BY DEF Apart
    <3> QED
      BY <1>1, <3>1, <3>2
  <2>2. \A i, j \in 1..Len(Picks(s, W)) : i < j => Across(Picks(s, W)[i], Picks(s, W)[j], R)
    <3> SUFFICES ASSUME NEW i \in 1..Len(s), NEW j \in 1..Len(s), i < j,
                        NEW x \in ToSet(Picks(s, W)[i]), NEW y \in ToSet(Picks(s, W)[j])
                 PROVE  <<x, y>> \in R
      BY <1>1 DEF Across
    <3>1. x = s[i] /\ y = s[j]
      BY <1>5
    <3>2. <<s[i], s[j]>> \in R
      BY <1>7 DEF Apart
    <3> QED
      BY <3>1, <3>2
  <2>3. Apart(FlattenSeq(Picks(s, W)), R)
    <3> HIDE DEF Picks
    <3> QED
      BY <1>1, <2>1, <2>2, FlattenApart
  <2> QED
    BY <1>2, <2>3
<1> QED
  BY <1>3, <1>6, <1>7

(* What is wanted here and what is wanted there, nothing twice, is no more *)
(* than there is.                                                          *)
LEMMA ThoseShared ==
  ASSUME NEW E, NEW s \in Seq(E), NEW W, NEW V, W \cap V = {}
  PROVE  Len(Those(s, W)) + Len(Those(s, V)) <= Len(s)
<1>1. \A Y : /\ Picks(s, Y) \in Seq(Seq(E)) /\ Len(Picks(s, Y)) = Len(s)
             /\ \A i \in 1..Len(s) : /\ Picks(s, Y)[i] = IF s[i] \in Y THEN <<s[i]>> ELSE <<>>
                                     /\ s[i] \in E
  BY PicksType
<1>2. \A Y : Those(s, Y) = FlattenSeq(Picks(s, Y))
  BY DEF Those, Picks
<1>3. \A x : Len(<<x>>) = 1
  OBVIOUS
<1>4. Len(<<>>) = 0
  OBVIOUS
<1>5. \A i \in 1..Len(s) : Len(Picks(s, W)[i]) + Len(Picks(s, V)[i]) <= Len(Picks(s, E)[i])
  <2> SUFFICES ASSUME NEW i \in 1..Len(s)
               PROVE  Len(Picks(s, W)[i]) + Len(Picks(s, V)[i]) <= Len(Picks(s, E)[i])
    OBVIOUS
  <2>1. Len(Picks(s, E)[i]) = 1
    BY <1>1, <1>3
  <2>2. Len(Picks(s, W)[i]) = IF s[i] \in W THEN 1 ELSE 0
    BY <1>1, <1>3, <1>4
  <2>3. Len(Picks(s, V)[i]) = IF s[i] \in V THEN 1 ELSE 0
    BY <1>1, <1>3, <1>4
  <2>4. ~(s[i] \in W /\ s[i] \in V)
    OBVIOUS
  <2> QED
    BY <2>1, <2>2, <2>3, <2>4
<1>6. Shared(Picks(s, W), Picks(s, V), Picks(s, E))
  BY <1>1, <1>5 DEF Shared
<1>7. Len(FlattenSeq(Picks(s, W))) + Len(FlattenSeq(Picks(s, V))) <= Len(FlattenSeq(Picks(s, E)))
  <2>1. Picks(s, W) \in Seq(Seq(E)) /\ Picks(s, V) \in Seq(Seq(E)) /\ Picks(s, E) \in Seq(Seq(E))
    BY <1>1
  <2> HIDE DEF Picks
  <2> QED
    BY <1>6, <2>1, FlattenShared
<1>8. Len(FlattenSeq(Picks(s, E))) <= Len(Picks(s, E))
  <2>1. \A i \in 1..Len(Picks(s, E)) : Len(Picks(s, E)[i]) <= 1
    <3>1. \A i \in 1..Len(s) : Len(Picks(s, E)[i]) = 1
      BY <1>1, <1>3
    <3>2. Len(Picks(s, E)) = Len(s)
      BY <1>1
    <3>3. \A i \in 1..Len(s) : Len(Picks(s, E)[i]) <= 1
      <4>1. 1 <= 1
        OBVIOUS
      <4> QED
        BY <3>1, <4>1, Zenon
    <3> QED
      BY <3>2, <3>3, Zenon
  <2>2. Picks(s, E) \in Seq(Seq(E))
    BY <1>1
  <2> HIDE DEF Picks
  <2> QED
    BY <2>1, <2>2, FlattenSingles
<1>9. /\ Len(FlattenSeq(Picks(s, W))) \in Nat /\ Len(FlattenSeq(Picks(s, V))) \in Nat
      /\ Len(FlattenSeq(Picks(s, E))) \in Nat /\ Len(s) \in Nat /\ Len(Picks(s, E)) = Len(s)
  BY <1>1, FlattenType, LenProperties
<1> DEFINE w == Len(FlattenSeq(Picks(s, W)))
           v == Len(FlattenSeq(Picks(s, V)))
           e == Len(FlattenSeq(Picks(s, E)))
           n == Len(s)
<1>10. w \in Nat /\ v \in Nat /\ e \in Nat /\ n \in Nat /\ w + v <= e /\ e <= n
  BY <1>7, <1>8, <1>9
<1>11. SUFFICES w + v <= n
  BY <1>2
<1> HIDE DEF w, v, e, n
<1> QED
  BY <1>10

(* A sequence turned round.                                                *)
LEMMA ReverseFacts ==
  ASSUME NEW E, NEW s \in Seq(E)
  PROVE  /\ Reverse(s) \in Seq(E) /\ Len(Reverse(s)) = Len(s)
         /\ \A x : x \in ToSet(Reverse(s)) <=> x \in ToSet(s)
         /\ \A R : (\A x, y : <<x, y>> \in R => <<y, x>> \in R) /\ Apart(s, R) => Apart(Reverse(s), R)
<1>1. Len(s) \in Nat /\ DOMAIN s = 1..Len(s) /\ s \in [1..Len(s) -> E]
  BY LenProperties
<1> DEFINE n == Len(s)
           r == [i \in 1..n |-> s[(n - i) + 1]]
<1>2. Reverse(s) = r
  BY DEF Reverse
<1>3. \A i \in 1..n : (n - i) + 1 \in 1..n
  BY <1>1
<1>4. \A i \in 1..n : s[(n - i) + 1] \in E
  BY <1>1, <1>3
<1>5. r \in Seq(E) /\ Len(r) = n
  <2>1. n \in Nat
    BY <1>1
  <2> HIDE DEF n
  <2> QED
    BY <2>1, <1>4
<1>6. DOMAIN r = 1..n
  OBVIOUS
<1>7. ASSUME NEW x PROVE x \in ToSet(r) <=> x \in ToSet(s)
  <2>1. ASSUME x \in ToSet(r) PROVE x \in ToSet(s)
    <3>1. PICK i \in 1..n : x = s[(n - i) + 1]
      BY <1>6, <2>1 DEF ToSet
    <3> QED
      BY <1>1, <1>3, <3>1 DEF ToSet
  <2>2. ASSUME x \in ToSet(s) PROVE x \in ToSet(r)
    <3>1. PICK j \in 1..n : x = s[j]
      BY <1>1, <2>2 DEF ToSet
    <3>2. (n - j) + 1 \in 1..n /\ (n - ((n - j) + 1)) + 1 = j
      BY <1>1, <3>1
    <3>3. r[(n - j) + 1] = x
      BY <3>1, <3>2
    <3> QED
      BY <1>6, <3>2, <3>3 DEF ToSet
  <2> QED
    BY <2>1, <2>2
<1>8. ASSUME NEW R, \A x, y : <<x, y>> \in R => <<y, x>> \in R, Apart(s, R) PROVE Apart(r, R)
  <2> SUFFICES ASSUME NEW i \in 1..n, NEW j \in 1..n, i < j PROVE <<r[i], r[j]>> \in R
    BY <1>5 DEF Apart
  <2>1. r[i] = s[(n - i) + 1] /\ r[j] = s[(n - j) + 1]
    OBVIOUS
  <2>2. (n - i) + 1 \in 1..n /\ (n - j) + 1 \in 1..n /\ (n - j) + 1 < (n - i) + 1
    BY <1>1
  <2>3. <<s[(n - j) + 1], s[(n - i) + 1]>> \in R
    BY <1>8, <2>2 DEF Apart
  <2> QED
    BY <1>8, <2>1, <2>3
<1> HIDE DEF r
<1> QED
  BY <1>2, <1>5, <1>7, <1>8

(* A sequence without the element at i.                                    *)
LEMMA RemoveAtFacts ==
  ASSUME NEW E, NEW s \in Seq(E), NEW i \in 1..Len(s)
  PROVE  /\ RemoveAt(s, i) \in Seq(E) /\ Len(RemoveAt(s, i)) = Len(s) - 1
         /\ \A x : x \in ToSet(RemoveAt(s, i)) <=> \E j \in 1..Len(s) : j # i /\ x = s[j]
         /\ \A R : Apart(s, R) => Apart(RemoveAt(s, i), R)
<1>1. Len(s) \in Nat /\ DOMAIN s = 1..Len(s) /\ s \in [1..Len(s) -> E] /\ i \in Int
  BY LenProperties
<1> DEFINE n == Len(s)
           a == SubSeq(s, 1, i - 1)
           b == SubSeq(s, i + 1, n)
<1>0. n \in Nat /\ i \in 1..n /\ i \in Int
  BY <1>1
<1>2. a \in Seq(E) /\ Len(a) = i - 1 /\ \A j \in 1..(i - 1) : a[j] = s[j]
  <2>1. 1 \in Int /\ i - 1 \in Int /\ \A j \in 1..(i - 1) : s[j] \in E
    BY <1>1
  <2>2. /\ a \in Seq(E) /\ Len(a) = (IF 1 <= i - 1 THEN (i - 1) - 1 + 1 ELSE 0)
        /\ \A j \in 1..(i - 1) - 1 + 1 : a[j] = s[1 + j - 1]
    BY <2>1, SubSeqProperties
  <2>3. (IF 1 <= i - 1 THEN (i - 1) - 1 + 1 ELSE 0) = i - 1 /\ (i - 1) - 1 + 1 = i - 1
    BY <1>1
  <2>4. \A j \in 1..(i - 1) : 1 + j - 1 = j
    BY <1>1
  <2> HIDE DEF a
  <2> QED
    BY <2>2, <2>3, <2>4
<1>3. b \in Seq(E) /\ Len(b) = n - i /\ \A j \in 1..(n - i) : b[j] = s[i + j]
  <2>1. i + 1 \in Int /\ n \in Int /\ \A j \in (i + 1)..n : s[j] \in E
    BY <1>1
  <2>2. /\ b \in Seq(E) /\ Len(b) = (IF i + 1 <= n THEN n - (i + 1) + 1 ELSE 0)
        /\ \A j \in 1..n - (i + 1) + 1 : b[j] = s[(i + 1) + j - 1]
    BY <2>1, SubSeqProperties
  <2>3. (IF i + 1 <= n THEN n - (i + 1) + 1 ELSE 0) = n - i /\ n - (i + 1) + 1 = n - i
    <3> HIDE DEF n
    <3> QED
      BY <1>0
  <2>4. \A j \in 1..(n - i) : (i + 1) + j - 1 = i + j
    BY <1>1
  <2> HIDE DEF b
  <2> QED
    BY <2>2, <2>3, <2>4
<1>4. RemoveAt(s, i) = a \o b
  BY DEF RemoveAt
<1> HIDE DEF a, b
<1>5. a \o b \in Seq(E) /\ Len(a \o b) = n - 1
  <2>1. a \o b \in Seq(E) /\ Len(a \o b) = Len(a) + Len(b)
    BY <1>2, <1>3, ConcatProperties
  <2>2. (i - 1) + (n - i) = n - 1
    <3> HIDE DEF n
    <3> QED
      BY <1>0
  <2> QED
    BY <1>2, <1>3, <2>1, <2>2, Zenon
<1>6. DOMAIN a = 1..(i - 1) /\ DOMAIN b = 1..(n - i)
  BY <1>2, <1>3, LenProperties
<1>7. ASSUME NEW x PROVE x \in ToSet(a \o b) <=> \E j \in 1..n : j # i /\ x = s[j]
  <2>1. x \in ToSet(a \o b) <=> x \in ToSet(a) \/ x \in ToSet(b)
    BY <1>2, <1>3, ElementsOfConcat
  <2>2. x \in ToSet(a) <=> \E j \in 1..(i - 1) : x = s[j]
    BY <1>2, <1>6 DEF ToSet
  <2>3. x \in ToSet(b) <=> \E j \in 1..(n - i) : x = s[i + j]
    BY <1>3, <1>6 DEF ToSet
  <2>4. ASSUME NEW j \in 1..n, j # i, x = s[j] PROVE x \in ToSet(a) \/ x \in ToSet(b)
    <3>1. CASE j < i
      <4>1. j \in 1..(i - 1)
        BY <1>1, <3>1
      <4> QED
        BY <2>2, <2>4, <4>1
    <3>2. CASE ~(j < i)
      <4>1. j - i \in 1..(n - i) /\ i + (j - i) = j
        BY <1>1, <2>4, <3>2
      <4> QED
        BY <2>3, <2>4, <4>1
    <3> QED
      BY <3>1, <3>2
  <2>5. \A j \in 1..(i - 1) : j \in 1..n /\ j # i
    BY <1>1
  <2>6. \A j \in 1..(n - i) : i + j \in 1..n /\ i + j # i
    BY <1>1
  <2> QED
    BY <2>1, <2>2, <2>3, <2>4, <2>5, <2>6
<1>8. ASSUME NEW R, Apart(s, R) PROVE Apart(a \o b, R)
  <2>1. Apart(a, R)
    <3>1. \A j \in 1..(i - 1) : j \in 1..n
      BY <1>1
    <3> SUFFICES ASSUME NEW j \in 1..(i - 1), NEW k \in 1..(i - 1), j < k PROVE <<a[j], a[k]>> \in R
      BY <1>2 DEF Apart
    <3>2. <<s[j], s[k]>> \in R
      BY <1>8, <3>1 DEF Apart
    <3> QED
      BY <1>2, <3>2
  <2>2. Apart(b, R)
    <3> SUFFICES ASSUME NEW j \in 1..(n - i), NEW k \in 1..(n - i), j < k PROVE <<b[j], b[k]>> \in R
      BY <1>3 DEF Apart
    <3>1. i + j \in 1..n /\ i + k \in 1..n /\ i + j < i + k
      BY <1>1
    <3>2. <<s[i + j], s[i + k]>> \in R
      BY <1>8, <3>1 DEF Apart
    <3> QED
      BY <1>3, <3>2
  <2>3. Across(a, b, R)
    <3> SUFFICES ASSUME NEW x \in ToSet(a), NEW y \in ToSet(b) PROVE <<x, y>> \in R
      BY DEF Across
    <3>1. PICK j \in 1..(i - 1) : x = s[j]
      BY <1>2, <1>6 DEF ToSet
    <3>2. PICK k \in 1..(n - i) : y = s[i + k]
      BY <1>3, <1>6 DEF ToSet
    <3>3. j \in 1..n /\ i + k \in 1..n /\ j < i + k
      BY <1>1
    <3> QED
      BY <1>8, <3>1, <3>2, <3>3 DEF Apart
  <2> QED
    BY <1>2, <1>3, <1>8, <2>1, <2>2, <2>3, ApartConcat
<1> QED
  BY <1>4, <1>5, <1>7, <1>8

-----------------------------------------------------------------------------
(* Set.c, Dictionary.c and IdentityDictionary.c: the invariant of a table. *)

HeldValues == TableValues \cup {0}
TableEntries == [key : TableKeys, value : HeldValues, alive : BOOLEAN]

(* An entry that a lookup may find, and two that no lookup finds both.     *)
Findable(knd, e) == e.alive \/ knd = WeakValues
Unlike(knd) ==
  {p \in TableEntries \X TableEntries :
     ~(Findable(knd, p[1]) /\ Findable(knd, p[2]) /\ EqualKeys(knd, p[1].key, p[2].key))}

EntriesIn(t) == {e \in TableEntries : \E b \in 1..Len(t.buckets) : e \in ToSet(t.buckets[b])}
AliveIn(t) == {e \in EntriesIn(t) : e.alive}

(* Each entry is in the bucket of its hash, and none in it is like another *)
(* there; the count is that of the entries.                                *)
InPlace(knd, t) ==
  \A b \in 1..Len(t.buckets) :
    /\ \A e \in ToSet(t.buckets[b]) : BucketFor(t, TableHash(knd, e.key)) = b
    /\ Apart(t.buckets[b], Unlike(knd))
Counted(t) == t.count = Len(FlattenSeq(t.buckets)) /\ t.count <= Len(t.buckets)
WellFormed(knd, t) ==
  /\ t \in [buckets : Seq(Seq(TableEntries)), count : Nat] /\ Len(t.buckets) > 0
  /\ InPlace(knd, t) /\ Counted(t)

(* The entries that are alive are what should be in the collection.        *)
Holds(t, held) == held = {<<e.key, e.value>> : e \in AliveIn(t)}

(* A walk has what it began with before it and behind it, or has decided.  *)
WalkStates == [op : {"none", "keysDo"} \cup SetWalks \cup DictionaryWalks, truth : BOOLEAN,
               todo : Seq(TableEntries), seen : Seq(TableEntries), asked : Seq(TableEntries)]
WalkInv ==
  /\ walk \in WalkStates /\ IsInjective(walk.asked)
  /\ \/ walk.asked = walk.seen \o walk.todo
     \/ walk.todo = <<>> /\ IsPrefix(walk.seen, walk.asked) /\ Decides(walk.op, walk.truth)

TableInv == kind \in TableKinds /\ WellFormed(kind, table) /\ Holds(table, contents) /\ WalkInv

(* Equality of keys is one, and equal keys have one hash.                  *)
LEMMA KeysAreHashed ==
  /\ \A knd, k : k \in TableKeys => TableHash(knd, k) \in Nat
  /\ \A knd, k, l : k \in TableKeys /\ l \in TableKeys /\ EqualKeys(knd, k, l) => TableHash(knd, k) = TableHash(knd, l)
  /\ \A knd, k : EqualKeys(knd, k, k)
  /\ \A knd, k, l : EqualKeys(knd, k, l) => EqualKeys(knd, l, k)
  /\ \A knd, k, l, m : EqualKeys(knd, k, l) /\ EqualKeys(knd, l, m) => EqualKeys(knd, k, m)
<1>1. \A k \in TableKeys : k.same \in DOMAIN HashOf /\ k.copy \in Nat
  BY TableAssumption
<1>2. \A k \in TableKeys : HashOf[k.same] \in Nat
  BY <1>1, TableAssumption
<1>3. \A knd, k : k \in TableKeys => TableHash(knd, k) \in Nat
  BY <1>1, <1>2 DEF TableHash
<1>4. \A knd, k, l : k \in TableKeys /\ l \in TableKeys /\ EqualKeys(knd, k, l) => TableHash(knd, k) = TableHash(knd, l)
  BY DEF TableHash, EqualKeys
<1>5. \A knd, k : EqualKeys(knd, k, k)
  BY DEF EqualKeys
<1>6. \A knd, k, l : EqualKeys(knd, k, l) => EqualKeys(knd, l, k)
  BY DEF EqualKeys
<1>7. \A knd, k, l, m : EqualKeys(knd, k, l) /\ EqualKeys(knd, l, m) => EqualKeys(knd, k, m)
  BY DEF EqualKeys
<1> QED
  BY <1>3, <1>4, <1>5, <1>6, <1>7

(* A remainder counted from one.                                           *)
LEMMA BucketInRange == ASSUME NEW h \in Nat, NEW n \in Nat \ {0} PROVE (h % n) + 1 \in 1..n
OBVIOUS

(* The buckets of a table, and what is in them.                            *)
LEMMA BucketsTyped ==
  ASSUME NEW knd, NEW t, WellFormed(knd, t)
  PROVE  /\ t.buckets \in Seq(Seq(TableEntries)) /\ t.count \in Nat /\ Len(t.buckets) \in Nat \ {0}
         /\ DOMAIN t.buckets = 1..Len(t.buckets)
         /\ \A b \in 1..Len(t.buckets) :
              t.buckets[b] \in Seq(TableEntries) /\ ToSet(t.buckets[b]) \subseteq EntriesIn(t)
         /\ \A k \in TableKeys : BucketFor(t, TableHash(knd, k)) \in 1..Len(t.buckets)
<1>1. t.buckets \in Seq(Seq(TableEntries)) /\ t.count \in Nat /\ Len(t.buckets) > 0
  BY DEF WellFormed
<1>2. Len(t.buckets) \in Nat \ {0} /\ DOMAIN t.buckets = 1..Len(t.buckets)
  BY <1>1, LenProperties
<1>3. ASSUME NEW b \in 1..Len(t.buckets)
      PROVE  t.buckets[b] \in Seq(TableEntries) /\ ToSet(t.buckets[b]) \subseteq EntriesIn(t)
  <2>1. t.buckets[b] \in Seq(TableEntries)
    BY <1>1, ElementOfSeq
  <2>2. \A i \in 1..Len(t.buckets[b]) : t.buckets[b][i] \in TableEntries
    BY <2>1, ElementOfSeq
  <2>3. DOMAIN t.buckets[b] = 1..Len(t.buckets[b])
    BY <2>1, LenProperties
  <2>4. ToSet(t.buckets[b]) \subseteq TableEntries
    BY <2>2, <2>3 DEF ToSet
  <2> QED
    BY <2>1, <2>4 DEF EntriesIn
<1>4. ASSUME NEW k \in TableKeys PROVE BucketFor(t, TableHash(knd, k)) \in 1..Len(t.buckets)
  <2>1. TableHash(knd, k) \in Nat
    BY KeysAreHashed
  <2> QED
    BY <1>2, <2>1, BucketInRange DEF BucketFor
<1> QED
  BY <1>1, <1>2, <1>3, <1>4

(* A lookup in one bucket misses nothing that the table has.               *)
LEMMA FoundInTable ==
  ASSUME NEW knd, NEW t, WellFormed(knd, t), NEW k \in TableKeys
  PROVE  /\ FoundEntries(knd, t, k) = {e \in EntriesIn(t) : Findable(knd, e) /\ EqualKeys(knd, e.key, k)}
         /\ FoundEntries(knd, t, k) \subseteq ToSet(t.buckets[BucketFor(t, TableHash(knd, k))])
<1> DEFINE b == BucketFor(t, TableHash(knd, k))
<1>1. b \in 1..Len(t.buckets) /\ ToSet(t.buckets[b]) \subseteq EntriesIn(t)
  BY BucketsTyped
<1>2. ASSUME NEW e \in EntriesIn(t), EqualKeys(knd, e.key, k) PROVE e \in ToSet(t.buckets[b])
  <2>1. PICK c \in 1..Len(t.buckets) : e \in ToSet(t.buckets[c])
    BY DEF EntriesIn
  <2>2. BucketFor(t, TableHash(knd, e.key)) = c
    BY <2>1 DEF WellFormed, InPlace
  <2>3. e.key \in TableKeys
    BY DEF EntriesIn, TableEntries
  <2>4. TableHash(knd, e.key) = TableHash(knd, k)
    BY <1>2, <2>3, KeysAreHashed
  <2> QED
    BY <2>1, <2>2, <2>4
<1>3. FoundEntries(knd, t, k) = {e \in ToSet(t.buckets[b]) : Findable(knd, e) /\ EqualKeys(knd, e.key, k)}
  BY DEF FoundEntries, Findable
<1> QED
  BY <1>1, <1>2, <1>3

(* What is found is one entry, at one place of its bucket.                 *)
LEMMA FoundOnce ==
  ASSUME NEW knd, NEW t, WellFormed(knd, t), NEW k \in TableKeys,
         NEW b, b = BucketFor(t, TableHash(knd, k)),
         NEW i \in 1..Len(t.buckets[b]), t.buckets[b][i] \in FoundEntries(knd, t, k)
  PROVE  /\ \A j \in 1..Len(t.buckets[b]) : t.buckets[b][j] \in FoundEntries(knd, t, k) => j = i
         /\ FoundEntries(knd, t, k) = {t.buckets[b][i]}
<1>1. b \in 1..Len(t.buckets) /\ t.buckets[b] \in Seq(TableEntries)
  BY BucketsTyped
<1>2. FoundEntries(knd, t, k) = {e \in EntriesIn(t) : Findable(knd, e) /\ EqualKeys(knd, e.key, k)}
  BY FoundInTable
<1>3. ASSUME NEW j \in 1..Len(t.buckets[b]), t.buckets[b][j] \in FoundEntries(knd, t, k), j # i PROVE FALSE
  <2> DEFINE x == t.buckets[b][i]
             y == t.buckets[b][j]
  <2>1. Findable(knd, x) /\ Findable(knd, y) /\ EqualKeys(knd, x.key, y.key) /\ EqualKeys(knd, y.key, x.key)
    BY <1>2, <1>3, KeysAreHashed
  <2>2. <<x, y>> \notin Unlike(knd) /\ <<y, x>> \notin Unlike(knd)
    BY <2>1 DEF Unlike
  <2>3. Apart(t.buckets[b], Unlike(knd))
    BY <1>1 DEF WellFormed, InPlace
  <2>4. Len(t.buckets[b]) \in Nat
    BY <1>1, LenProperties
  <2>5. i < j \/ j < i
    BY <1>3, <2>4
  <2> QED
    BY <2>2, <2>3, <2>5 DEF Apart
<1>4. ToSet(t.buckets[b]) = {t.buckets[b][j] : j \in 1..Len(t.buckets[b])}
  BY <1>1, LenProperties DEF ToSet
<1>5. FoundEntries(knd, t, k) \subseteq ToSet(t.buckets[b])
  BY FoundInTable
<1> QED
  BY <1>3, <1>4, <1>5

(* The entries by the bucket of their hash.                                *)
LEMMA InBucket ==
  ASSUME NEW knd, NEW t, WellFormed(knd, t), NEW b \in 1..Len(t.buckets)
  PROVE  /\ ToSet(t.buckets[b]) = {e \in EntriesIn(t) : BucketFor(t, TableHash(knd, e.key)) = b}
         /\ ToSet(t.buckets[b]) = {t.buckets[b][i] : i \in 1..Len(t.buckets[b])}
<1>1. ToSet(t.buckets[b]) \subseteq EntriesIn(t)
  BY BucketsTyped
<1>2. \A c \in 1..Len(t.buckets) : \A e \in ToSet(t.buckets[c]) : BucketFor(t, TableHash(knd, e.key)) = c
  BY DEF WellFormed, InPlace
<1>3. \A e \in EntriesIn(t) : \E c \in 1..Len(t.buckets) : e \in ToSet(t.buckets[c])
  BY DEF EntriesIn
<1>4. ToSet(t.buckets[b]) = {t.buckets[b][i] : i \in 1..Len(t.buckets[b])}
  BY BucketsTyped, LenProperties DEF ToSet
<1> QED
  BY <1>1, <1>2, <1>3, <1>4

(* A list of entries that may stand in bucket b.                           *)
Fits(knd, t, b, u, n) ==
  /\ b \in 1..Len(t.buckets) /\ u \in Seq(TableEntries) /\ Apart(u, Unlike(knd))
  /\ \A e \in ToSet(u) : BucketFor(t, TableHash(knd, e.key)) = b
  /\ n \in Nat /\ n + Len(t.buckets[b]) = t.count + Len(u) /\ n <= Len(t.buckets)
Rebuilt(t, b, u, n) == [buckets |-> [t.buckets EXCEPT ![b] = u], count |-> n]

(* A table with another list of entries in one bucket.                     *)
LEMMA OneBucket ==
  ASSUME NEW knd, NEW t, NEW b, NEW u, NEW n, WellFormed(knd, t), Fits(knd, t, b, u, n)
  PROVE  /\ WellFormed(knd, Rebuilt(t, b, u, n))
         /\ EntriesIn(Rebuilt(t, b, u, n)) = (EntriesIn(t) \ ToSet(t.buckets[b])) \cup ToSet(u)
<1> DEFINE r == Rebuilt(t, b, u, n)
<1>0. /\ r = [buckets |-> [t.buckets EXCEPT ![b] = u], count |-> n]
      /\ b \in 1..Len(t.buckets) /\ u \in Seq(TableEntries) /\ n \in Nat
      /\ n + Len(t.buckets[b]) = t.count + Len(u) /\ n <= Len(t.buckets)
      /\ \A e \in ToSet(u) : BucketFor(t, TableHash(knd, e.key)) = b
      /\ Apart(u, Unlike(knd))
  BY DEF Rebuilt, Fits
<1> SUFFICES WellFormed(knd, r) /\ EntriesIn(r) = (EntriesIn(t) \ ToSet(t.buckets[b])) \cup ToSet(u)
  OBVIOUS
<1> HIDE DEF r
<1> DEFINE s == t.buckets
           v == [s EXCEPT ![b] = u]
<1>1. /\ s \in Seq(Seq(TableEntries)) /\ t.count \in Nat /\ Len(s) \in Nat \ {0}
      /\ \A c \in 1..Len(s) : s[c] \in Seq(TableEntries)
  BY BucketsTyped
<1>2. v \in Seq(Seq(TableEntries)) /\ Len(v) = Len(s) /\ \A c \in 1..Len(s) : v[c] = IF c = b THEN u ELSE s[c]
  BY <1>0, <1>1, ExceptSeq
<1>3. r.buckets = v /\ r.count = n
  BY <1>0
<1>4. Len(FlattenSeq(v)) + Len(s[b]) = Len(FlattenSeq(s)) + Len(u)
  BY <1>0, <1>1, FlattenExcept
<1>5. t.count = Len(FlattenSeq(s)) /\ Len(FlattenSeq(v)) \in Nat /\ Len(s[b]) \in Nat /\ Len(u) \in Nat
  <2>1. FlattenSeq(v) \in Seq(TableEntries)
    BY <1>2, FlattenType
  <2> QED
    BY <1>0, <1>1, <2>1, LenProperties DEF WellFormed, Counted
<1>6. n = Len(FlattenSeq(v))
  <2> DEFINE fv == Len(FlattenSeq(v))
             lb == Len(s[b])
             lu == Len(u)
             tc == t.count
  <2>1. fv + lb = tc + lu /\ n + lb = tc + lu /\ fv \in Nat /\ lb \in Nat /\ lu \in Nat /\ tc \in Nat /\ n \in Nat
    BY <1>0, <1>1, <1>4, <1>5
  <2> SUFFICES n = fv
    OBVIOUS
  <2> HIDE DEF fv, lb, lu, tc
  <2> QED
    BY <2>1
<1>7. \A h : BucketFor(r, h) = BucketFor(t, h)
  BY <1>2, <1>3 DEF BucketFor
<1> HIDE DEF v
<1>8. r \in [buckets : Seq(Seq(TableEntries)), count : Nat]
  BY <1>0, <1>2 DEF v
<1>9. InPlace(knd, r)
  <2> SUFFICES ASSUME NEW c \in 1..Len(s)
               PROVE  /\ \A e \in ToSet(v[c]) : BucketFor(t, TableHash(knd, e.key)) = c
                      /\ Apart(v[c], Unlike(knd))
    BY <1>2, <1>3, <1>7 DEF InPlace
  <2>1. CASE c = b
    BY <1>0, <1>2, <2>1
  <2>2. CASE c # b
    BY <1>2, <2>2 DEF WellFormed, InPlace
  <2> QED
    BY <2>1, <2>2
<1>10. WellFormed(knd, r)
  BY <1>0, <1>1, <1>2, <1>3, <1>6, <1>8, <1>9 DEF WellFormed, Counted
<1>11. EntriesIn(r) = (EntriesIn(t) \ ToSet(s[b])) \cup ToSet(u)
  <2>1. \A c \in 1..Len(s) : ToSet(s[c]) \subseteq EntriesIn(t)
    BY BucketsTyped
  <2>2. \A c \in 1..Len(s) : \A e \in ToSet(s[c]) : BucketFor(t, TableHash(knd, e.key)) = c
    BY DEF WellFormed, InPlace
  <2>3. \A c \in 1..Len(s) : c # b => ToSet(s[c]) \cap ToSet(s[b]) = {}
    BY <1>0, <2>2
  <2>4. \A e : e \in EntriesIn(r) <=> e \in TableEntries /\ \E c \in 1..Len(s) : e \in ToSet(v[c])
    BY <1>2, <1>3 DEF EntriesIn
  <2>5. \A e : e \in EntriesIn(t) <=> e \in TableEntries /\ \E c \in 1..Len(s) : e \in ToSet(s[c])
    BY DEF EntriesIn
  <2>6. ToSet(u) \subseteq TableEntries
    BY <1>0, LenProperties, ElementOfSeq DEF ToSet
  <2>7. b \in 1..Len(s) /\ v[b] = u /\ \A c \in 1..Len(s) : c # b => v[c] = s[c]
    BY <1>0, <1>2
  <2> HIDE DEF s
  <2> QED
    BY <2>1, <2>3, <2>4, <2>5, <2>6, <2>7
<1> QED
  BY <1>10, <1>11

(* Entries that keep their keys and become no easier to find.              *)
LEMMA SameKeysApart ==
  ASSUME NEW knd, NEW u \in Seq(TableEntries), NEW v \in Seq(TableEntries), Len(u) = Len(v),
         \A i \in 1..Len(v) : u[i].key = v[i].key /\ (Findable(knd, u[i]) => Findable(knd, v[i])),
         Apart(v, Unlike(knd))
  PROVE  Apart(u, Unlike(knd))
<1> SUFFICES ASSUME NEW i \in 1..Len(v), NEW j \in 1..Len(v), i < j PROVE <<u[i], u[j]>> \in Unlike(knd)
  BY DEF Apart
<1>1. u[i] \in TableEntries /\ u[j] \in TableEntries
  BY ElementOfSeq
<1>2. <<v[i], v[j]>> \in Unlike(knd)
  BY DEF Apart
<1>3. ~(Findable(knd, v[i]) /\ Findable(knd, v[j]) /\ EqualKeys(knd, v[i].key, v[j].key))
  BY <1>2 DEF Unlike
<1> QED
  BY <1>1, <1>3 DEF Unlike

(* A new entry in front of its bucket, where there is room and no lookup   *)
(* finds its key.                                                          *)
NewEntry(k, value) == [key |-> k, value |-> value, alive |-> TRUE]
LEMMA PushedWell ==
  ASSUME NEW knd, NEW t, WellFormed(knd, t), NEW k \in TableKeys, NEW value \in HeldValues,
         FoundEntries(knd, t, k) = {}, t.count < Len(t.buckets)
  PROVE  /\ WellFormed(knd, Pushed(knd, t, k, value))
         /\ EntriesIn(Pushed(knd, t, k, value)) = EntriesIn(t) \cup {NewEntry(k, value)}
<1> DEFINE b == BucketFor(t, TableHash(knd, k))
           s == t.buckets[b]
           x == NewEntry(k, value)
           u == <<x>> \o s
           r == Pushed(knd, t, k, value)
<1>1. /\ t.count \in Nat /\ b \in 1..Len(t.buckets) /\ s \in Seq(TableEntries) /\ Len(t.buckets) \in Nat
      /\ ToSet(s) \subseteq EntriesIn(t)
  BY BucketsTyped
<1>2. x \in TableEntries /\ x.key = k /\ x.alive
  BY DEF NewEntry, TableEntries
<1>3. <<x>> \in Seq(TableEntries) /\ Len(<<x>>) = 1 /\ <<x>>[1] = x
  BY <1>2
<1>4. r = Rebuilt(t, b, u, t.count + 1)
  BY DEF Pushed, NewEntry, Rebuilt
<1> HIDE DEF x, r
<1>5. u \in Seq(TableEntries) /\ Len(u) = 1 + Len(s)
  BY <1>1, <1>3, ConcatProperties
<1>6. \A e : e \in ToSet(u) <=> e = x \/ e \in ToSet(s)
  <2>1. \A e : e \in ToSet(<<x>>) <=> e = x
    BY DEF ToSet
  <2>2. \A e : e \in ToSet(u) <=> e \in ToSet(<<x>>) \/ e \in ToSet(s)
    BY <1>1, <1>3, ElementsOfConcat
  <2> QED
    BY <2>1, <2>2
<1>7. \A e \in ToSet(s) : BucketFor(t, TableHash(knd, e.key)) = b
  BY <1>1 DEF WellFormed, InPlace
<1>8. \A e \in ToSet(u) : BucketFor(t, TableHash(knd, e.key)) = b
  BY <1>2, <1>6, <1>7
<1>9. Apart(u, Unlike(knd))
  <2>1. Apart(<<x>>, Unlike(knd))
    BY DEF Apart
  <2>2. Apart(s, Unlike(knd))
    BY <1>1 DEF WellFormed, InPlace
  <2>3. Across(<<x>>, s, Unlike(knd))
    <3> SUFFICES ASSUME NEW e \in ToSet(s) PROVE <<x, e>> \in Unlike(knd)
      BY <1>3 DEF Across, ToSet
    <3>1. e \in EntriesIn(t) /\ e \in TableEntries
      BY <1>1 DEF EntriesIn
    <3>2. ~(Findable(knd, e) /\ EqualKeys(knd, e.key, k))
      BY <3>1, FoundInTable
    <3>3. ~(Findable(knd, e) /\ EqualKeys(knd, k, e.key))
      BY <3>2, KeysAreHashed
    <3> QED
      BY <1>2, <3>1, <3>3 DEF Unlike
  <2> QED
    BY <1>1, <1>3, <2>1, <2>2, <2>3, ApartConcat
<1> HIDE DEF u
<1>10. /\ t.count + 1 \in Nat /\ t.count + 1 <= Len(t.buckets)
       /\ (t.count + 1) + Len(t.buckets[b]) = t.count + Len(u)
  <2>1. Len(s) \in Nat
    BY <1>1, LenProperties
  <2> QED
    BY <1>1, <1>5, <2>1
<1>11. /\ WellFormed(knd, r)
       /\ EntriesIn(r) = (EntriesIn(t) \ ToSet(t.buckets[b])) \cup ToSet(u)
  <2>1. Fits(knd, t, b, u, t.count + 1)
    BY <1>1, <1>5, <1>8, <1>9, <1>10 DEF Fits
  <2> QED
    BY <1>4, <2>1, OneBucket
<1>12. ToSet(s) \subseteq EntriesIn(t)
  BY <1>1
<1>13. EntriesIn(r) = EntriesIn(t) \cup {x}
  BY <1>6, <1>11, <1>12
<1> QED
  BY <1>11, <1>13 DEF r, x

(* An entry that takes a value is a new one with its key.                  *)
LEMMA Revived ==
  ASSUME NEW e \in TableEntries, NEW value
  PROVE  [e EXCEPT !.value = value, !.alive = TRUE] = NewEntry(e.key, value)
<1> DEFINE f == [e EXCEPT !.value = value, !.alive = TRUE]
<1>1. DOMAIN e = {"key", "value", "alive"} /\ e = [i \in DOMAIN e |-> e[i]]
  BY DEF TableEntries
<1>2. f = [i \in {"key", "value", "alive"} |-> IF i = "alive" THEN TRUE ELSE IF i = "value" THEN value ELSE e[i]]
  BY <1>1
<1> DEFINE g == NewEntry(e.key, value)
<1>3. g = [i \in {"key", "value", "alive"} |-> IF i = "alive" THEN TRUE ELSE IF i = "value" THEN value ELSE e[i]]
  <2>1. DOMAIN g = {"key", "value", "alive"} /\ g = [i \in DOMAIN g |-> g[i]]
    BY DEF NewEntry
  <2>2. g["key"] = e["key"] /\ g["value"] = value /\ g["alive"] = TRUE
    BY DEF NewEntry
  <2> HIDE DEF g
  <2> QED
    BY <2>1, <2>2
<1> QED
  BY <1>2, <1>3

(* The entry that is found takes the value, and is alive.                  *)
LEMMA SetValueWell ==
  ASSUME NEW knd, NEW t, WellFormed(knd, t), NEW k \in TableKeys, NEW value \in HeldValues,
         FoundEntries(knd, t, k) # {}
  PROVE  \E f \in EntriesIn(t) :
           /\ FoundEntries(knd, t, k) = {f}
           /\ WellFormed(knd, SetValue(knd, t, k, value))
           /\ EntriesIn(SetValue(knd, t, k, value)) = (EntriesIn(t) \ {f}) \cup {NewEntry(f.key, value)}
<1> DEFINE b == BucketFor(t, TableHash(knd, k))
           s == t.buckets[b]
           hits == FoundEntries(knd, t, k)
           u == [i \in DOMAIN s |-> IF s[i] \in hits THEN [s[i] EXCEPT !.value = value, !.alive = TRUE] ELSE s[i]]
           r == SetValue(knd, t, k, value)
<1>1. /\ t.count \in Nat /\ b \in 1..Len(t.buckets) /\ s \in Seq(TableEntries) /\ Len(t.buckets) \in Nat
      /\ ToSet(s) \subseteq EntriesIn(t) /\ DOMAIN s = 1..Len(s) /\ Len(s) \in Nat
      /\ DOMAIN t.buckets = 1..Len(t.buckets)
  BY BucketsTyped, LenProperties
<1>2. ToSet(s) = {s[i] : i \in 1..Len(s)}
  BY <1>1, LenProperties DEF ToSet
<1>3. hits \subseteq ToSet(s)
  BY FoundInTable
<1>4. PICK p \in 1..Len(s) : s[p] \in hits
  BY <1>2, <1>3
<1>5. hits = {s[p]} /\ \A j \in 1..Len(s) : s[j] \in hits => j = p
  BY <1>4, FoundOnce
<1>6. \A i \in 1..Len(s) : s[i] \in TableEntries
  BY <1>1, ElementOfSeq
<1>7. \A i \in 1..Len(s) : /\ s[i] # s[p] => u[i] = s[i]
                           /\ s[i] = s[p] => i = p /\ u[i] = NewEntry(s[p].key, value)
  <2>1. [s[p] EXCEPT !.value = value, !.alive = TRUE] = NewEntry(s[p].key, value)
    BY <1>6, Revived
  <2> QED
    BY <1>1, <1>5, <2>1
<1>8. NewEntry(s[p].key, value) \in TableEntries
  BY <1>6 DEF TableEntries, NewEntry
<1>9. u \in Seq(TableEntries) /\ Len(u) = Len(s)
  <2>1. \A i \in 1..Len(s) : u[i] \in TableEntries
    BY <1>6, <1>7, <1>8
  <2>2. u \in [1..Len(s) -> TableEntries]
    BY <1>1, <2>1
  <2> DEFINE n == Len(s)
  <2>3. n \in Nat /\ u \in [1..n -> TableEntries]
    BY <1>1, <2>2
  <2>4. u \in Seq(TableEntries) /\ Len(u) = n
    <3> HIDE DEF u, n
    <3> QED
      BY <2>3
  <2> QED
    BY <2>4
<1>10. r = Rebuilt(t, b, u, t.count)
  <2>1. t \in [buckets : Seq(Seq(TableEntries)), count : Nat]
    BY DEF WellFormed
  <2>2. r = [t EXCEPT !.buckets = [t.buckets EXCEPT ![b] = u]]
    BY DEF SetValue
  <2> HIDE DEF u, b
  <2> QED
    BY <2>1, <2>2 DEF Rebuilt
<1> HIDE DEF u, r
<1>11. \A i \in 1..Len(s) : u[i].key = s[i].key /\ (Findable(knd, u[i]) => Findable(knd, s[i]))
  <2> SUFFICES ASSUME NEW i \in 1..Len(s)
               PROVE  u[i].key = s[i].key /\ (Findable(knd, u[i]) => Findable(knd, s[i]))
    OBVIOUS
  <2>1. CASE s[i] # s[p]
    BY <1>7, <2>1
  <2>2. CASE s[i] = s[p]
    <3>1. u[i] = NewEntry(s[i].key, value)
      BY <1>7, <2>2
    <3>2. Findable(knd, s[i])
      BY <1>5, <2>2, FoundInTable
    <3> QED
      BY <3>1, <3>2 DEF NewEntry
  <2> QED
    BY <2>1, <2>2
<1>12. Apart(u, Unlike(knd))
  <2>1. Apart(s, Unlike(knd))
    BY <1>1 DEF WellFormed, InPlace
  <2> QED
    BY <1>1, <1>9, <1>11, <2>1, SameKeysApart
<1>13. ToSet(u) = (ToSet(s) \ {s[p]}) \cup {NewEntry(s[p].key, value)}
  <2>1. ToSet(u) = {u[i] : i \in 1..Len(s)}
    BY <1>9, LenProperties DEF ToSet
  <2> QED
    BY <1>2, <1>7, <2>1
<1>14. \A e \in ToSet(u) : BucketFor(t, TableHash(knd, e.key)) = b
  <2>1. \A e \in ToSet(s) : BucketFor(t, TableHash(knd, e.key)) = b
    BY <1>1 DEF WellFormed, InPlace
  <2>2. NewEntry(s[p].key, value).key = s[p].key /\ s[p] \in ToSet(s)
    BY <1>2 DEF NewEntry
  <2> QED
    BY <1>13, <2>1, <2>2
<1>15. t.count <= Len(t.buckets)
  BY DEF WellFormed, Counted
<1>16. t.count + Len(t.buckets[b]) = t.count + Len(u)
  BY <1>9
<1>17. /\ WellFormed(knd, r)
       /\ EntriesIn(r) = (EntriesIn(t) \ ToSet(t.buckets[b])) \cup ToSet(u)
  <2>1. Fits(knd, t, b, u, t.count)
    BY <1>1, <1>9, <1>12, <1>14, <1>15, <1>16 DEF Fits
  <2> QED
    BY <1>10, <2>1, OneBucket
<1>19. EntriesIn(r) = (EntriesIn(t) \ {s[p]}) \cup {NewEntry(s[p].key, value)}
  <2>1. s[p] \in ToSet(s)
    BY <1>2
  <2> QED
    BY <1>1, <1>5, <1>13, <1>17, <2>1
<1>20. s[p] \in EntriesIn(t)
  BY <1>1, <1>2
<1>21. hits = {s[p]}
  BY <1>5, Zenon
<1> QED
  BY <1>21, <1>17, <1>19, <1>20, Zenon DEF r

(* What a table has in one of its buckets is counted.                      *)
LEMMA BucketCounted ==
  ASSUME NEW knd, NEW t, WellFormed(knd, t), NEW b \in 1..Len(t.buckets)
  PROVE  Len(t.buckets[b]) <= t.count
<1> DEFINE v == [t.buckets EXCEPT ![b] = <<>>]
<1>1. /\ t.buckets \in Seq(Seq(TableEntries)) /\ t.count \in Nat
      /\ t.buckets[b] \in Seq(TableEntries)
  BY BucketsTyped
<1>2. <<>> \in Seq(TableEntries) /\ Len(<<>>) = 0
  BY EmptySeq
<1>3. Len(FlattenSeq(v)) + Len(t.buckets[b]) = Len(FlattenSeq(t.buckets)) + Len(<<>>)
  BY <1>1, <1>2, FlattenExcept
<1>4. v \in Seq(Seq(TableEntries))
  BY <1>1, <1>2, ExceptSeq
<1>5. FlattenSeq(v) \in Seq(TableEntries)
  BY <1>4, FlattenType
<1> DEFINE fv == Len(FlattenSeq(v))
           lb == Len(t.buckets[b])
           tc == t.count
<1>6. fv \in Nat /\ lb \in Nat /\ tc \in Nat /\ fv + lb = tc
  BY <1>1, <1>2, <1>3, <1>5, LenProperties DEF WellFormed, Counted
<1> SUFFICES lb <= tc
  OBVIOUS
<1> HIDE DEF fv, lb, tc
<1> QED
  BY <1>6

(* An entry that is removed is gone, and no other is.                      *)
LEMMA RemovedWell ==
  ASSUME NEW knd, NEW t, WellFormed(knd, t), NEW k \in TableKeys
  PROVE  /\ WellFormed(knd, TableRemove(knd, t, k))
         /\ EntriesIn(TableRemove(knd, t, k)) = EntriesIn(t) \ FoundEntries(knd, t, k)
<1>1. CASE FoundEntries(knd, t, k) = {}
  <2>1. TableRemove(knd, t, k) = t
    BY <1>1 DEF TableRemove
  <2> QED
    BY <1>1, <2>1
<1>2. CASE FoundEntries(knd, t, k) # {}
  <2> DEFINE b == BucketFor(t, TableHash(knd, k))
             s == t.buckets[b]
             hits == FoundEntries(knd, t, k)
             r == TableRemove(knd, t, k)
  <2>1. /\ t.count \in Nat /\ b \in 1..Len(t.buckets) /\ s \in Seq(TableEntries) /\ Len(t.buckets) \in Nat
        /\ ToSet(s) \subseteq EntriesIn(t) /\ Len(s) \in Nat
    BY BucketsTyped, LenProperties
  <2>2. ToSet(s) = {s[i] : i \in 1..Len(s)}
    BY <2>1, LenProperties DEF ToSet
  <2>3. hits \subseteq ToSet(s)
    BY FoundInTable
  <2>4. PICK p \in 1..Len(s) : s[p] \in hits
    BY <1>2, <2>2, <2>3
  <2>5. hits = {s[p]} /\ \A j \in 1..Len(s) : s[j] \in hits => j = p
    BY <2>4, FoundOnce
  <2>6. Position(s, hits) = p
    <3>1. {i \in 1..Len(s) : s[i] \in hits} = {p}
      BY <2>4, <2>5
    <3>2. Min({p}) = p
      BY <2>4 DEF Min
    <3> HIDE DEF s, hits
    <3> QED
      BY <3>1, <3>2 DEF Position, SelectInSeq
  <2> DEFINE u == RemoveAt(s, p)
  <2>7. /\ u \in Seq(TableEntries) /\ Len(u) = Len(s) - 1
        /\ \A x : x \in ToSet(u) <=> \E j \in 1..Len(s) : j # p /\ x = s[j]
        /\ \A R : Apart(s, R) => Apart(u, R)
    BY <2>1, RemoveAtFacts
  <2>8. r = Rebuilt(t, b, u, t.count - 1)
    BY <1>2, <2>6 DEF TableRemove, Rebuilt
  <2> HIDE DEF u, r
  <2>9. ToSet(u) = ToSet(s) \ {s[p]}
    BY <2>2, <2>4, <2>5, <2>7
  <2>10. Fits(knd, t, b, u, t.count - 1)
    <3>1. Apart(s, Unlike(knd)) /\ \A e \in ToSet(s) : BucketFor(t, TableHash(knd, e.key)) = b
      BY <2>1 DEF WellFormed, InPlace
    <3>2. Len(s) <= t.count
      BY <2>1, BucketCounted
    <3>3. t.count - 1 \in Nat /\ t.count - 1 + Len(s) = t.count + Len(u)
      <4> DEFINE ls == Len(s)
                 lu == Len(u)
                 tc == t.count
      <4>1. ls \in Nat /\ tc \in Nat /\ lu = ls - 1 /\ ls <= tc /\ p \in 1..ls
        BY <2>1, <2>4, <2>7, <3>2
      <4> SUFFICES tc - 1 \in Nat /\ tc - 1 + ls = tc + lu
        OBVIOUS
      <4> HIDE DEF ls, lu, tc
      <4> QED
        BY <4>1
    <3>4. t.count <= Len(t.buckets)
      BY DEF WellFormed, Counted
    <3>5. t.count - 1 <= Len(t.buckets)
      BY <2>1, <3>4
    <3>6. Apart(u, Unlike(knd)) /\ \A e \in ToSet(u) : BucketFor(t, TableHash(knd, e.key)) = b
      BY <2>7, <2>9, <3>1
    <3> QED
      BY <2>1, <2>7, <3>3, <3>5, <3>6 DEF Fits
  <2>11. WellFormed(knd, r) /\ EntriesIn(r) = (EntriesIn(t) \ ToSet(s)) \cup ToSet(u)
    BY <2>8, <2>10, OneBucket
  <2> QED
    BY <2>1, <2>3, <2>5, <2>9, <2>11 DEF r
<1> QED
  BY <1>1, <1>2

(* An entry that the collector takes keeps its key.                        *)
LEMMA DeadEntry ==
  ASSUME NEW knd, NEW e \in TableEntries, NEW p
  PROVE  /\ Dead(knd, e, p) \in TableEntries /\ Dead(knd, e, p).key = e.key
         /\ Dead(knd, e, p).alive <=> (e.alive /\ ~DiesWith(knd, e.key, e.value, p))
         /\ Dead(knd, e, p).alive => Dead(knd, e, p) = e
<1>1. CASE DiesWith(knd, e.key, e.value, p)
  BY <1>1 DEF Dead, TableEntries
<1>2. CASE ~DiesWith(knd, e.key, e.value, p)
  BY <1>2 DEF Dead, TableEntries
<1> QED
  BY <1>1, <1>2

(* Lists of equal lengths, as many, are as long together.                  *)
LEMMA FlattenSameLength ==
  ASSUME NEW E, NEW s \in Seq(Seq(E)), NEW v \in Seq(Seq(E)), Len(s) = Len(v),
         \A i \in 1..Len(s) : Len(s[i]) = Len(v[i])
  PROVE  Len(FlattenSeq(s)) = Len(FlattenSeq(v))
<1> DEFINE n == Len(s)
           o == [i \in 1..n |-> <<>>]
<1>1. n \in Nat /\ \A i \in 1..n : s[i] \in Seq(E) /\ v[i] \in Seq(E)
  BY LenProperties, ElementOfSeq
<1>2. \A i \in 1..n : Len(s[i]) \in Nat /\ Len(v[i]) \in Nat
  BY <1>1, LenProperties
<1>3. o \in [1..n -> Seq(E)]
  BY EmptySeq
<1>4. o \in Seq(Seq(E)) /\ Len(o) = n /\ \A i \in 1..n : Len(o[i]) = 0
  <2>1. \A i \in 1..n : o[i] = <<>>
    OBVIOUS
  <2>2. Len(<<>>) = 0
    OBVIOUS
  <2> HIDE DEF n, o
  <2> QED
    BY <1>1, <1>3, <2>1, <2>2
<1> HIDE DEF o
<1>5. Shared(s, o, v) /\ Shared(v, o, s)
  <2>1. \A i \in 1..n : Len(s[i]) + Len(o[i]) <= Len(v[i]) /\ Len(v[i]) + Len(o[i]) <= Len(s[i])
    <3> SUFFICES ASSUME NEW i \in 1..n
                 PROVE  Len(s[i]) + Len(o[i]) <= Len(v[i]) /\ Len(v[i]) + Len(o[i]) <= Len(s[i])
      OBVIOUS
    <3> DEFINE x == Len(s[i])
               y == Len(v[i])
               z == Len(o[i])
    <3>1. x \in Nat /\ y \in Nat /\ z = 0 /\ x = y
      BY <1>2, <1>4
    <3> SUFFICES x + z <= y /\ y + z <= x
      OBVIOUS
    <3> HIDE DEF x, y, z
    <3> QED
      BY <3>1
  <2> QED
    BY <1>4, <2>1 DEF Shared
<1> DEFINE fs == Len(FlattenSeq(s))
           fv == Len(FlattenSeq(v))
           fo == Len(FlattenSeq(o))
<1>6. fs + fo <= fv /\ fv + fo <= fs
  BY <1>4, <1>5, FlattenShared
<1>7. fs \in Nat /\ fv \in Nat /\ fo \in Nat
  BY <1>4, FlattenType, LenProperties
<1> SUFFICES fs = fv
  OBVIOUS
<1> HIDE DEF fs, fv, fo
<1> QED
  BY <1>6, <1>7

(* The collector leaves the others, and the count.                         *)
LEMMA CollectedWell ==
  ASSUME NEW knd, NEW t, WellFormed(knd, t), NEW p
  PROVE  /\ WellFormed(knd, Collected(knd, t, p))
         /\ AliveIn(Collected(knd, t, p)) = {e \in AliveIn(t) : ~DiesWith(knd, e.key, e.value, p)}
<1> DEFINE s == t.buckets
           v == [b \in DOMAIN s |-> [i \in DOMAIN s[b] |-> Dead(knd, s[b][i], p)]]
           r == Collected(knd, t, p)
<1>1. /\ s \in Seq(Seq(TableEntries)) /\ t.count \in Nat /\ Len(s) \in Nat \ {0} /\ DOMAIN s = 1..Len(s)
      /\ \A b \in 1..Len(s) : s[b] \in Seq(TableEntries)
  BY BucketsTyped
<1>2. \A b \in 1..Len(s) : Len(s[b]) \in Nat /\ DOMAIN s[b] = 1..Len(s[b])
  BY <1>1, LenProperties
<1>3. \A b \in 1..Len(s) : \A i \in 1..Len(s[b]) : s[b][i] \in TableEntries
  BY <1>1, ElementOfSeq
<1>4. \A b \in 1..Len(s) : v[b] = [i \in 1..Len(s[b]) |-> Dead(knd, s[b][i], p)]
  BY <1>1, <1>2
<1>5. \A b \in 1..Len(s) : /\ v[b] \in Seq(TableEntries) /\ Len(v[b]) = Len(s[b])
                           /\ \A i \in 1..Len(s[b]) : v[b][i] = Dead(knd, s[b][i], p)
  <2> SUFFICES ASSUME NEW b \in 1..Len(s)
               PROVE  /\ v[b] \in Seq(TableEntries) /\ Len(v[b]) = Len(s[b])
                      /\ \A i \in 1..Len(s[b]) : v[b][i] = Dead(knd, s[b][i], p)
    OBVIOUS
  <2> DEFINE w == v[b]
             n == Len(s[b])
  <2>1. \A i \in 1..n : w[i] = Dead(knd, s[b][i], p)
    BY <1>4
  <2>2. \A i \in 1..n : Dead(knd, s[b][i], p) \in TableEntries
    BY <1>3, DeadEntry
  <2>3. w \in [1..n -> TableEntries] /\ n \in Nat
    BY <1>2, <1>4, <2>2
  <2>4. w \in Seq(TableEntries) /\ Len(w) = n
    <3> HIDE DEF w, n
    <3> QED
      BY <2>3
  <2> QED
    BY <2>1, <2>4
<1>6. v \in Seq(Seq(TableEntries)) /\ Len(v) = Len(s)
  <2> DEFINE n == Len(s)
  <2>1. \A b \in 1..n : v[b] \in Seq(TableEntries)
    BY <1>5
  <2>2. v \in [1..n -> Seq(TableEntries)] /\ n \in Nat
    BY <1>1, <2>1
  <2>3. v \in Seq(Seq(TableEntries)) /\ Len(v) = n
    <3> HIDE DEF v, n
    <3> QED
      BY <2>2
  <2> QED
    BY <2>3
<1>7. r = [buckets |-> v, count |-> t.count]
  <2>1. t \in [buckets : Seq(Seq(TableEntries)), count : Nat]
    BY DEF WellFormed
  <2>2. r = [t EXCEPT !.buckets = v]
    BY DEF Collected
  <2> HIDE DEF v
  <2> QED
    BY <2>1, <2>2
<1> HIDE DEF v
<1>8. Counted(r)
  <2>1. Len(FlattenSeq(s)) = Len(FlattenSeq(v))
    BY <1>1, <1>5, <1>6, FlattenSameLength
  <2> QED
    BY <1>6, <1>7, <2>1 DEF WellFormed, Counted
<1>9. \A b \in 1..Len(s) : ToSet(v[b]) = {Dead(knd, s[b][i], p) : i \in 1..Len(s[b])}
  BY <1>5, LenProperties DEF ToSet
<1>10. \A b \in 1..Len(s) : ToSet(s[b]) = {s[b][i] : i \in 1..Len(s[b])}
  BY <1>2 DEF ToSet
<1>11. InPlace(knd, r)
  <2> SUFFICES ASSUME NEW b \in 1..Len(s)
               PROVE  /\ \A e \in ToSet(v[b]) : BucketFor(t, TableHash(knd, e.key)) = b
                      /\ Apart(v[b], Unlike(knd))
    BY <1>6, <1>7 DEF InPlace, BucketFor
  <2>1. \A e \in ToSet(s[b]) : BucketFor(t, TableHash(knd, e.key)) = b
    BY DEF WellFormed, InPlace
  <2>2. \A i \in 1..Len(s[b]) : Dead(knd, s[b][i], p).key = s[b][i].key
    BY <1>3, DeadEntry
  <2>3. \A e \in ToSet(v[b]) : BucketFor(t, TableHash(knd, e.key)) = b
    <3> SUFFICES ASSUME NEW e \in ToSet(v[b]) PROVE BucketFor(t, TableHash(knd, e.key)) = b
      OBVIOUS
    <3>1. PICK i \in 1..Len(s[b]) : e = Dead(knd, s[b][i], p)
      BY <1>9
    <3>2. e.key = s[b][i].key /\ s[b][i] \in ToSet(s[b])
      BY <1>10, <2>2, <3>1
    <3> QED
      BY <2>1, <3>2
  <2>4. \A i \in 1..Len(s[b]) : Findable(knd, Dead(knd, s[b][i], p)) => Findable(knd, s[b][i])
    BY <1>3, DeadEntry DEF Findable
  <2>5. Apart(s[b], Unlike(knd))
    BY DEF WellFormed, InPlace
  <2>6. Apart(v[b], Unlike(knd))
    <3>1. \A i \in 1..Len(s[b]) : v[b][i].key = s[b][i].key /\ (Findable(knd, v[b][i]) => Findable(knd, s[b][i]))
      BY <1>5, <2>2, <2>4
    <3> DEFINE x == v[b]
               y == s[b]
    <3>2. /\ x \in Seq(TableEntries) /\ y \in Seq(TableEntries) /\ Len(x) = Len(y) /\ Apart(y, Unlike(knd))
          /\ \A i \in 1..Len(y) : x[i].key = y[i].key /\ (Findable(knd, x[i]) => Findable(knd, y[i]))
      BY <1>1, <1>5, <2>5, <3>1
    <3>3. Apart(x, Unlike(knd))
      <4> HIDE DEF x, y
      <4> QED
        BY <3>2, SameKeysApart
    <3> QED
      BY <3>3
  <2> QED
    BY <2>3, <2>6
<1>12. WellFormed(knd, r)
  BY <1>1, <1>6, <1>7, <1>8, <1>11 DEF WellFormed
<1>13. ASSUME NEW e \in AliveIn(r) PROVE e \in AliveIn(t) /\ ~DiesWith(knd, e.key, e.value, p)
  <2>1. PICK b \in 1..Len(s) : e \in ToSet(v[b])
    BY <1>6, <1>7 DEF AliveIn, EntriesIn
  <2>2. PICK i \in 1..Len(s[b]) : e = Dead(knd, s[b][i], p)
    BY <1>9, <2>1
  <2>3. e.alive
    BY DEF AliveIn
  <2>4. e = s[b][i] /\ ~DiesWith(knd, s[b][i].key, s[b][i].value, p)
    BY <1>3, <2>2, <2>3, DeadEntry
  <2>5. e \in ToSet(s[b]) /\ e \in TableEntries
    BY <1>3, <1>10, <2>4
  <2> QED
    BY <2>3, <2>4, <2>5 DEF AliveIn, EntriesIn
<1>14. ASSUME NEW e \in AliveIn(t), ~DiesWith(knd, e.key, e.value, p) PROVE e \in AliveIn(r)
  <2>1. PICK b \in 1..Len(s) : e \in ToSet(s[b])
    BY DEF AliveIn, EntriesIn
  <2>2. PICK i \in 1..Len(s[b]) : e = s[b][i]
    BY <1>10, <2>1
  <2>3. Dead(knd, e, p) = e
    BY <1>14 DEF Dead
  <2>4. e \in ToSet(v[b])
    BY <1>9, <2>2, <2>3
  <2>5. e \in TableEntries /\ e.alive
    BY DEF AliveIn, EntriesIn
  <2>6. e \in EntriesIn(r)
    BY <1>6, <1>7, <2>4, <2>5 DEF EntriesIn
  <2> QED
    BY <2>5, <2>6 DEF AliveIn
<1> QED
  BY <1>12, <1>13, <1>14

(* Division leaves a remainder.                                            *)
LEMMA Division ==
  ASSUME NEW h \in Nat, NEW n \in Nat \ {0}
  PROVE  /\ h \div n \in Nat /\ h % n \in 0..(n - 1)
         /\ h = n * (h \div n) + (h % n)
OBVIOUS

(* There is only one.                                                      *)
LEMMA OneRemainder ==
  ASSUME NEW n \in Nat \ {0}, NEW a \in Nat, NEW b \in Nat, NEW x \in 0..(n-1), NEW y \in 0..(n-1),
         n * a + x = n * b + y
  PROVE  x = y
<1>1. CASE a = b
  BY <1>1
<1>2. CASE a < b
  <2>1. PICK d \in Nat : b = a + d /\ d >= 1
    <3>1. b - a \in Nat /\ b = a + (b - a) /\ b - a >= 1
      BY <1>2
    <3> QED
      BY <3>1
  <2>2. n * b = n * a + n * d
    BY <2>1
  <2>3. n * d >= n
    BY <2>1
  <2> QED
    BY <2>2, <2>3
<1>3. CASE b < a
  <2>1. PICK d \in Nat : a = b + d /\ d >= 1
    <3>1. a - b \in Nat /\ a = b + (a - b) /\ a - b >= 1
      BY <1>3
    <3> QED
      BY <3>1
  <2>2. n * a = n * b + n * d
    BY <2>1
  <2>3. n * d >= n
    BY <2>1
  <2> QED
    BY <2>2, <2>3
<1> QED
  BY <1>1, <1>2, <1>3

(* The remainder by twice as much has the same remainder.                  *)
LEMMA HalfRemainder ==
  ASSUME NEW h \in Nat, NEW n \in Nat \ {0}
  PROVE  /\ h % (2 * n) \in 0..(2 * n - 1)
         /\ (h % (2 * n)) % n = h % n
<1> DEFINE m == 2 * n
           r == h % m
           q == h \div m
           p == r \div n
           x == r % n
           y == h % n
           z == h \div n
<1>1. m \in Nat \ {0} /\ m = 2 * n
  OBVIOUS
<1>2. r \in 0..(m - 1) /\ q \in Nat /\ h = m * q + r
  <2> HIDE DEF m
  <2> QED
    BY <1>1, Division
<1>3. r \in Nat
  BY <1>1, <1>2
<1>4. x \in 0..(n - 1) /\ p \in Nat /\ r = n * p + x
  <2> HIDE DEF r
  <2> QED
    BY <1>3, Division
<1>5. y \in 0..(n - 1) /\ z \in Nat /\ h = n * z + y
  BY Division
<1> SUFFICES r \in 0..(m - 1) /\ x = y
  OBVIOUS
<1> HIDE DEF m, r, q, p, x, y, z
<1>6. n * (2 * q + p) + x = n * z + y
  <2>1. m * q = n * (2 * q)
    BY <1>1, <1>2
  <2>2. n * (2 * q + p) = n * (2 * q) + n * p
    BY <1>2, <1>4
  <2>3. n * (2 * q) \in Nat /\ n * p \in Nat /\ n * z \in Nat
    BY <1>2, <1>4, <1>5
  <2> QED
    BY <1>2, <1>4, <1>5, <2>1, <2>2, <2>3
<1>7. 2 * q + p \in Nat
  BY <1>2, <1>4
<1> QED
  BY <1>2, <1>4, <1>5, <1>6, <1>7, OneRemainder

(* Places of the two halves.                                               *)
LEMMA HalfPlaces ==
  ASSUME NEW n \in Nat \ {0}, NEW i \in 1..n
  PROVE  ((i - 1) % n) + 1 = i /\ ((n + i - 1) % n) + 1 = i
<1> DEFINE x == (i - 1) % n
           y == (n + i - 1) % n
           p == (i - 1) \div n
           q == (n + i - 1) \div n
           j == i - 1
<1>1. j \in 0..(n - 1) /\ j \in Nat /\ n + i - 1 = n + j /\ n + i - 1 \in Nat
  OBVIOUS
<1>2. x \in 0..(n - 1) /\ p \in Nat /\ j = n * p + x
  BY <1>1, Division
<1>3. y \in 0..(n - 1) /\ q \in Nat /\ n + i - 1 = n * q + y
  BY <1>1, Division
<1>4. i = j + 1
  OBVIOUS
<1> SUFFICES x = j /\ y = j
  BY <1>4
<1> HIDE DEF x, y, p, q, j
<1>5. n * 0 + j = n * p + x /\ n * 1 + j = n * q + y
  BY <1>1, <1>2, <1>3
<1> QED
  BY <1>1, <1>2, <1>3, <1>5, OneRemainder

(* What goes to a bucket of a table twice as large.                        *)
MovedTo(knd, t, b) ==
  LET old == t.buckets[((b - 1) % Len(t.buckets)) + 1]
  IN {e \in ToSet(old) : e.alive /\ (TableHash(knd, e.key) % (2 * Len(t.buckets))) + 1 = b}
LEMMA MovedFacts ==
  ASSUME NEW knd, NEW t, WellFormed(knd, t), NEW b \in 1..2 * Len(t.buckets)
  PROVE  /\ Reverse(Moved(knd, t, b)) \in Seq(TableEntries)
         /\ Len(Reverse(Moved(knd, t, b))) = Len(Moved(knd, t, b))
         /\ Apart(Reverse(Moved(knd, t, b)), Unlike(knd))
         /\ ToSet(Reverse(Moved(knd, t, b))) =
              {e \in AliveIn(t) : (TableHash(knd, e.key) % (2 * Len(t.buckets))) + 1 = b}
<1> DEFINE n == Len(t.buckets)
           c == ((b - 1) % n) + 1
           old == t.buckets[c]
           W == MovedTo(knd, t, b)
           u == Moved(knd, t, b)
<1>1. n \in Nat \ {0} /\ \A d \in 1..n : t.buckets[d] \in Seq(TableEntries) /\ ToSet(t.buckets[d]) \subseteq EntriesIn(t)
  BY BucketsTyped
<1>2. b - 1 \in Nat /\ b \in 1..2 * n
  BY <1>1
<1>3. c \in 1..n
  <2> HIDE DEF n
  <2> QED
    BY <1>1, <1>2, BucketInRange
<1>4. old \in Seq(TableEntries) /\ ToSet(old) \subseteq EntriesIn(t)
  BY <1>1, <1>3
<1>5. u = Those(old, W)
  BY DEF Moved, MovedTo
<1>6. Apart(old, Unlike(knd)) /\ \A e \in ToSet(old) : BucketFor(t, TableHash(knd, e.key)) = c
  BY <1>3 DEF WellFormed, InPlace
<1>7. W = {e \in ToSet(old) : e.alive /\ (TableHash(knd, e.key) % (2 * n)) + 1 = b}
  BY DEF MovedTo
<1> HIDE DEF u, W, old, c
<1>8. /\ u \in Seq(TableEntries) /\ Apart(u, Unlike(knd))
      /\ \A x : x \in ToSet(u) <=> x \in ToSet(old) /\ x \in W
  BY <1>4, <1>5, <1>6, ThoseFacts
<1>9. \A x, y : <<x, y>> \in Unlike(knd) => <<y, x>> \in Unlike(knd)
  BY KeysAreHashed DEF Unlike
<1>10. /\ Reverse(u) \in Seq(TableEntries) /\ Len(Reverse(u)) = Len(u) /\ Apart(Reverse(u), Unlike(knd))
       /\ \A x : x \in ToSet(Reverse(u)) <=> x \in ToSet(u)
  BY <1>8, <1>9, ReverseFacts
<1>11. ASSUME NEW e \in EntriesIn(t), (TableHash(knd, e.key) % (2 * n)) + 1 = b PROVE e \in ToSet(old)
  <2>1. PICK d \in 1..n : e \in ToSet(t.buckets[d])
    BY DEF EntriesIn
  <2> DEFINE h == TableHash(knd, e.key)
  <2>2. h \in Nat
    BY KeysAreHashed DEF EntriesIn, TableEntries
  <2>3. (h % n) + 1 = d
    BY <2>1 DEF WellFormed, InPlace, BucketFor
  <2>4. h % (2 * n) = b - 1
    <3>1. h % (2 * n) \in 0..(2 * n - 1)
      <4> HIDE DEF n, h
      <4> QED
        BY <1>1, <2>2, HalfRemainder
    <3> HIDE DEF n, h
    <3> DEFINE x == h % (2 * n)
    <3>2. x + 1 = b
      BY <1>11 DEF n, h
    <3>3. x \in Nat
      BY <1>1, <3>1
    <3> HIDE DEF x
    <3>4. x = b - 1
      BY <1>2, <3>2, <3>3
    <3> QED
      BY <3>4 DEF x
  <2>5. (b - 1) % n = h % n
    <3> HIDE DEF n, h
    <3> QED
      BY <1>1, <2>2, <2>4, HalfRemainder
  <2>6. c = d
    BY <2>3, <2>5 DEF c
  <2> QED
    BY <2>1, <2>6 DEF old
<1>12. ToSet(Reverse(u)) = {e \in AliveIn(t) : (TableHash(knd, e.key) % (2 * n)) + 1 = b}
  <2>1. \A x : x \in ToSet(Reverse(u)) <=> x \in W
    BY <1>7, <1>8, <1>10
  <2> QED
    BY <1>4, <1>7, <1>11, <2>1 DEF AliveIn
<1> QED
  BY <1>10, <1>12 DEF u

(* A table that is grown has the entries that are alive, and no more than  *)
(* before.                                                                 *)
LEMMA GrownWell ==
  ASSUME NEW knd, NEW t, WellFormed(knd, t)
  PROVE  /\ WellFormed(knd, GrownTable(knd, t)) /\ Len(GrownTable(knd, t).buckets) = 2 * Len(t.buckets)
         /\ GrownTable(knd, t).count <= t.count
         /\ EntriesIn(GrownTable(knd, t)) = AliveIn(t)
<1> DEFINE n == Len(t.buckets)
           s == t.buckets
           B(b) == Reverse(Moved(knd, t, b))
           v == [b \in 1..2 * n |-> B(b)]
           r == GrownTable(knd, t)
<1>1. n \in Nat \ {0} /\ s \in Seq(Seq(TableEntries)) /\ t.count \in Nat
      /\ \A b \in 1..n : s[b] \in Seq(TableEntries)
  BY BucketsTyped
<1>2. \A b \in 1..2 * n : /\ B(b) \in Seq(TableEntries) /\ Len(B(b)) = Len(Moved(knd, t, b))
                          /\ Apart(B(b), Unlike(knd))
                          /\ ToSet(B(b)) = {e \in AliveIn(t) : (TableHash(knd, e.key) % (2 * n)) + 1 = b}
  BY MovedFacts
<1>3. r = [buckets |-> v, count |-> Len(FlattenSeq(v))]
  BY DEF GrownTable
<1> HIDE DEF r, B, n
<1>4. 2 * n \in Nat \ {0} /\ 2 * n = n + n
  BY <1>1
<1>5. v \in Seq(Seq(TableEntries)) /\ Len(v) = 2 * n /\ \A b \in 1..2 * n : v[b] = B(b)
  <2> DEFINE m == 2 * n
  <2>1. m \in Nat /\ v \in [1..m -> Seq(TableEntries)] /\ \A b \in 1..m : v[b] = B(b)
    BY <1>2, <1>4
  <2> HIDE DEF m, v
  <2>2. v \in Seq(Seq(TableEntries)) /\ Len(v) = m
    BY <2>1
  <2> QED
    BY <2>1, <2>2 DEF m
<1> DEFINE lo == [b \in 1..n |-> B(b)]
           hi == [b \in 1..n |-> B(n + b)]
<1>6. \A b \in 1..n : b \in 1..2 * n /\ n + b \in 1..2 * n
  BY <1>1
<1>7. /\ lo \in Seq(Seq(TableEntries)) /\ Len(lo) = n /\ \A b \in 1..n : lo[b] = B(b)
      /\ hi \in Seq(Seq(TableEntries)) /\ Len(hi) = n /\ \A b \in 1..n : hi[b] = B(n + b)
  <2>1. lo \in [1..n -> Seq(TableEntries)] /\ hi \in [1..n -> Seq(TableEntries)] /\ n \in Nat
    BY <1>1, <1>2, <1>6
  <2>2. (\A b \in 1..n : lo[b] = B(b)) /\ \A b \in 1..n : hi[b] = B(n + b)
    OBVIOUS
  <2> HIDE DEF lo, hi
  <2> QED
    BY <2>1, <2>2
<1> HIDE DEF v, lo, hi
<1>8. v = lo \o hi
  <2>1. /\ lo \o hi \in Seq(Seq(TableEntries)) /\ Len(lo \o hi) = n + n
        /\ \A b \in 1..(n + n) : (lo \o hi)[b] = IF b <= n THEN lo[b] ELSE hi[b - n]
    <3> DEFINE F == Seq(TableEntries)
    <3>1. lo \in Seq(F) /\ hi \in Seq(F) /\ Len(lo) = n /\ Len(hi) = n
      BY <1>7
    <3> HIDE DEF F
    <3>2. /\ lo \o hi \in Seq(F) /\ Len(lo \o hi) = Len(lo) + Len(hi)
          /\ \A b \in 1..Len(lo) + Len(hi) : (lo \o hi)[b] = IF b <= Len(lo) THEN lo[b] ELSE hi[b - Len(lo)]
      BY <3>1, ConcatProperties
    <3> QED
      BY <3>1, <3>2 DEF F
  <2> DEFINE w == lo \o hi
  <2> SUFFICES v = w
    OBVIOUS
  <2>2. w \in Seq(Seq(TableEntries)) /\ Len(w) = n + n
        /\ \A b \in 1..(n + n) : w[b] = IF b <= n THEN lo[b] ELSE hi[b - n]
    BY <2>1
  <2> HIDE DEF w
  <2>3. \A b \in 1..(n + n) : v[b] = w[b]
    <3> SUFFICES ASSUME NEW b \in 1..(n + n) PROVE v[b] = w[b]
      OBVIOUS
    <3>1. v[b] = B(b)
      BY <1>4, <1>5
    <3>2. CASE b <= n
      <4>1. b \in 1..n
        BY <1>1, <3>2
      <4> QED
        BY <1>7, <2>2, <3>1, <3>2, <4>1
    <3>3. CASE ~(b <= n)
      <4>1. b - n \in 1..n /\ n + (b - n) = b
        BY <1>1, <3>3
      <4> QED
        BY <1>7, <2>2, <3>1, <3>3, <4>1
    <3> QED
      BY <3>2, <3>3
  <2> QED
    BY <1>4, <1>5, <2>2, <2>3, SeqEqual
<1>9. FlattenSeq(v) = FlattenSeq(lo) \o FlattenSeq(hi) /\ FlattenSeq(v) \in Seq(TableEntries)
      /\ FlattenSeq(lo) \in Seq(TableEntries) /\ FlattenSeq(hi) \in Seq(TableEntries) /\ FlattenSeq(s) \in Seq(TableEntries)
  BY <1>1, <1>5, <1>7, <1>8, FlattenConcat, FlattenType
<1>10. Shared(lo, hi, s)
  <2> SUFFICES ASSUME NEW i \in 1..n PROVE Len(lo[i]) + Len(hi[i]) <= Len(s[i])
    BY <1>7 DEF Shared, n
  <2> DEFINE W == MovedTo(knd, t, i)
             V == MovedTo(knd, t, n + i)
  <2>1. ((i - 1) % n) + 1 = i /\ ((n + i - 1) % n) + 1 = i
    BY <1>1, HalfPlaces
  <2>2. Moved(knd, t, i) = Those(s[i], W)
    BY <2>1 DEF Moved, MovedTo, n
  <2>3. Moved(knd, t, n + i) = Those(s[i], V)
    BY <2>1 DEF Moved, MovedTo, n
  <2>4. W \cap V = {}
    <3>1. \A e \in W : (TableHash(knd, e.key) % (2 * n)) + 1 = i
      BY DEF MovedTo, n
    <3>2. \A e \in V : (TableHash(knd, e.key) % (2 * n)) + 1 = n + i
      BY DEF MovedTo, n
    <3>3. i # n + i
      BY <1>1
    <3> HIDE DEF W, V
    <3> QED
      BY <3>1, <3>2, <3>3
  <2>5. Len(lo[i]) = Len(Those(s[i], W)) /\ Len(hi[i]) = Len(Those(s[i], V))
    BY <1>2, <1>6, <1>7, <2>2, <2>3
  <2>6. Len(Those(s[i], W)) + Len(Those(s[i], V)) <= Len(s[i])
    <3> DEFINE x == s[i]
    <3>1. x \in Seq(TableEntries)
      BY <1>1
    <3> HIDE DEF x, W, V
    <3>2. Len(Those(x, W)) + Len(Those(x, V)) <= Len(x)
      BY <2>4, <3>1, ThoseShared
    <3> QED
      BY <3>2 DEF x
  <2> QED
    BY <2>5, <2>6
<1> DEFINE fv == Len(FlattenSeq(v))
           fl == Len(FlattenSeq(lo))
           fh == Len(FlattenSeq(hi))
           fs == Len(FlattenSeq(s))
           tc == t.count
<1>11. /\ fv = fl + fh /\ fl + fh <= fs /\ tc = fs /\ tc <= n
       /\ fv \in Nat /\ fl \in Nat /\ fh \in Nat /\ fs \in Nat /\ tc \in Nat
  <2>1. fv = fl + fh
    BY <1>9, ConcatProperties
  <2>2. fl + fh <= fs
    BY <1>1, <1>7, <1>10, FlattenShared
  <2>3. tc = fs /\ tc <= n
    BY DEF WellFormed, Counted, n
  <2>4. fv \in Nat /\ fl \in Nat /\ fh \in Nat /\ fs \in Nat /\ tc \in Nat
    BY <1>1, <1>9, LenProperties
  <2> QED
    BY <2>1, <2>2, <2>3, <2>4
<1>12. fv <= tc /\ fv <= 2 * n /\ fv \in Nat
  <2> HIDE DEF fv, fl, fh, fs, tc
  <2> QED
    BY <1>1, <1>11
<1>13. r.buckets = v /\ r.count = fv /\ r \in [buckets : Seq(Seq(TableEntries)), count : Nat]
  BY <1>3, <1>5, <1>12
<1> HIDE DEF fv, fl, fh, fs, tc
<1>14. Counted(r)
  BY <1>5, <1>12, <1>13 DEF Counted, fv
<1>15. InPlace(knd, r)
  <2> SUFFICES ASSUME NEW b \in 1..2 * n
               PROVE  /\ \A e \in ToSet(v[b]) : BucketFor(r, TableHash(knd, e.key)) = b
                      /\ Apart(v[b], Unlike(knd))
    BY <1>5, <1>13 DEF InPlace
  <2>1. \A e \in ToSet(v[b]) : (TableHash(knd, e.key) % (2 * n)) + 1 = b
    BY <1>2, <1>5
  <2> QED
    BY <1>2, <1>5, <1>13, <2>1 DEF BucketFor
<1>16. WellFormed(knd, r)
  <2>1. Len(r.buckets) > 0
    BY <1>4, <1>5, <1>13
  <2> QED
    BY <1>13, <1>14, <1>15, <2>1 DEF WellFormed
<1>17. EntriesIn(r) = AliveIn(t)
  <2>1. EntriesIn(r) \subseteq AliveIn(t)
    BY <1>2, <1>5, <1>13 DEF EntriesIn
  <2>2. ASSUME NEW e \in AliveIn(t) PROVE e \in EntriesIn(r)
    <3> DEFINE b == (TableHash(knd, e.key) % (2 * n)) + 1
    <3>1. e \in TableEntries /\ TableHash(knd, e.key) \in Nat
      BY KeysAreHashed DEF AliveIn, EntriesIn, TableEntries
    <3>2. b \in 1..2 * n
      <4> DEFINE h == TableHash(knd, e.key)
                 m == 2 * n
      <4> HIDE DEF h, m
      <4>1. (h % m) + 1 \in 1..m
        BY <1>4, <3>1, BucketInRange DEF h, m
      <4> QED
        BY <4>1 DEF h, m
    <3>3. e \in ToSet(v[b])
      BY <1>2, <1>5, <3>2
    <3> QED
      BY <1>5, <1>13, <3>1, <3>2, <3>3 DEF EntriesIn
  <2> QED
    BY <2>1, <2>2
<1> QED
  BY <1>5, <1>12, <1>13, <1>16, <1>17 DEF r, n, tc

(* A new table is empty.                                                   *)
LEMMA EmptyTableWell ==
  ASSUME NEW knd
  PROVE  WellFormed(knd, EmptyTable) /\ EntriesIn(EmptyTable) = {}
<1> DEFINE n == Mask + 1
           v == [b \in 1..n |-> <<>>]
           fv == FlattenSeq(v)
           r == EmptyTable
<1>1. n \in Nat \ {0}
  BY TableAssumption
<1>2. v \in Seq(Seq(TableEntries)) /\ Len(v) = n /\ \A b \in 1..n : v[b] = <<>>
  <2>1. v \in [1..n -> Seq(TableEntries)] /\ \A b \in 1..n : v[b] = <<>>
    BY EmptySeq
  <2> HIDE DEF v, n
  <2> QED
    BY <1>1, <2>1
<1>3. r.buckets = v /\ r.count = 0 /\ r = [buckets |-> v, count |-> 0]
  BY DEF EmptyTable
<1>4. ToSet(<<>>) = {}
  BY DEF ToSet
<1> HIDE DEF v, n, r
<1>5. fv \in Seq(TableEntries) /\ \A x : x \notin ToSet(fv)
  <2>1. fv \in Seq(TableEntries) /\ \A x : x \in ToSet(fv) <=> \E i \in 1..Len(v) : x \in ToSet(v[i])
    BY <1>2, FlattenType, FlattenElements
  <2>2. \A i \in 1..Len(v) : ToSet(v[i]) = {}
    BY <1>2, <1>4
  <2> HIDE DEF fv
  <2> QED
    BY <2>1, <2>2
<1>6. Len(fv) = 0
  <2> HIDE DEF fv
  <2>1. Len(fv) \in Nat /\ DOMAIN fv = 1..Len(fv)
    BY <1>5, LenProperties
  <2>2. Len(fv) # 0 => 1 \in DOMAIN fv
    BY <2>1
  <2>3. Len(fv) # 0 => fv[1] \in ToSet(fv)
    BY <2>2 DEF ToSet
  <2> QED
    BY <1>5, <2>3
<1>7. \A b \in 1..n : ToSet(v[b]) = {} /\ Apart(v[b], Unlike(knd))
  <2>1. Apart(<<>>, Unlike(knd))
    BY DEF Apart
  <2> QED
    BY <1>2, <1>4, <2>1
<1>8. EntriesIn(r) = {}
  BY <1>2, <1>3, <1>7 DEF EntriesIn
<1>9. r \in [buckets : Seq(Seq(TableEntries)), count : Nat] /\ Len(r.buckets) > 0
  BY <1>1, <1>2, <1>3
<1>10. Counted(r) /\ InPlace(knd, r)
  BY <1>1, <1>2, <1>3, <1>6, <1>7 DEF Counted, InPlace
<1> QED
  BY <1>8, <1>9, <1>10 DEF WellFormed, r

(* Before an entry is added there is room for it.                          *)
LEMMA RoomMade ==
  ASSUME NEW knd, NEW t, WellFormed(knd, t)
  PROVE  /\ WellFormed(knd, MakeRoom(knd, t)) /\ MakeRoom(knd, t).count < Len(MakeRoom(knd, t).buckets)
         /\ AliveIn(MakeRoom(knd, t)) = AliveIn(t) /\ EntriesIn(MakeRoom(knd, t)) \subseteq EntriesIn(t)
<1>1. t.count \in Nat /\ Len(t.buckets) \in Nat \ {0} /\ t.count <= Len(t.buckets)
  BY BucketsTyped DEF WellFormed, Counted
<1>2. CASE t.count > Len(t.buckets) - 1
  <2> DEFINE g == GrownTable(knd, t)
  <2>1. MakeRoom(knd, t) = g
    BY <1>2 DEF MakeRoom
  <2>2. /\ WellFormed(knd, g) /\ Len(g.buckets) = 2 * Len(t.buckets)
        /\ g.count <= t.count /\ EntriesIn(g) = AliveIn(t)
    BY GrownWell
  <2> HIDE DEF g
  <2>3. g.count \in Nat
    BY <2>2, BucketsTyped
  <2>4. g.count < Len(g.buckets)
    <3> DEFINE x == g.count
               y == t.count
               n == Len(t.buckets)
               m == Len(g.buckets)
    <3>1. x \in Nat /\ y \in Nat /\ n \in Nat \ {0} /\ m = 2 * n /\ x <= y /\ y <= n
      BY <1>1, <2>2, <2>3
    <3> SUFFICES x < m
      OBVIOUS
    <3> HIDE DEF x, y, n, m
    <3> QED
      BY <3>1
  <2>5. AliveIn(g) = AliveIn(t) /\ EntriesIn(g) \subseteq EntriesIn(t)
    BY <2>2 DEF AliveIn
  <2> QED
    BY <2>1, <2>2, <2>4, <2>5
<1>3. CASE ~(t.count > Len(t.buckets) - 1)
  <2>1. MakeRoom(knd, t) = t
    BY <1>3 DEF MakeRoom
  <2>2. t.count < Len(t.buckets)
    BY <1>1, <1>3
  <2> QED
    BY <2>1, <2>2
<1> QED
  BY <1>2, <1>3

(* What a lookup finds that is alive is what should be there.              *)
LEMMA MatchesHeld ==
  ASSUME NEW knd, NEW t, NEW held, WellFormed(knd, t), Holds(t, held), NEW k \in TableKeys
  PROVE  /\ {<<e.key, e.value>> : e \in Matching(knd, t, k)} = {p \in held : EqualKeys(knd, p[1], k)}
         /\ Matching(knd, t, k) = {e \in AliveIn(t) : EqualKeys(knd, e.key, k)}
<1>1. Matching(knd, t, k) = {e \in AliveIn(t) : EqualKeys(knd, e.key, k)}
  BY FoundInTable DEF Matching, AliveIn, Findable
<1>2. held = {<<e.key, e.value>> : e \in AliveIn(t)}
  BY DEF Holds
<1> QED
  BY <1>1, <1>2

(* An entry that no lookup finds is added.                                 *)
LEMMA AddedHeld ==
  ASSUME NEW knd, NEW t, NEW held, WellFormed(knd, t), Holds(t, held),
         NEW k \in TableKeys, NEW value \in HeldValues, FoundEntries(knd, t, k) = {}
  PROVE  /\ WellFormed(knd, Pushed(knd, MakeRoom(knd, t), k, value))
         /\ Holds(Pushed(knd, MakeRoom(knd, t), k, value), held \cup {<<k, value>>})
<1> DEFINE m == MakeRoom(knd, t)
           r == Pushed(knd, m, k, value)
           x == NewEntry(k, value)
<1>1. WellFormed(knd, m) /\ m.count < Len(m.buckets) /\ AliveIn(m) = AliveIn(t) /\ EntriesIn(m) \subseteq EntriesIn(t)
  BY RoomMade
<1> HIDE DEF m
<1>2. FoundEntries(knd, m, k) = {}
  <2>1. FoundEntries(knd, m, k) = {e \in EntriesIn(m) : Findable(knd, e) /\ EqualKeys(knd, e.key, k)}
    BY <1>1, FoundInTable
  <2>2. FoundEntries(knd, t, k) = {e \in EntriesIn(t) : Findable(knd, e) /\ EqualKeys(knd, e.key, k)}
    BY FoundInTable
  <2> QED
    BY <1>1, <2>1, <2>2
<1>3. WellFormed(knd, r) /\ EntriesIn(r) = EntriesIn(m) \cup {x}
  BY <1>1, <1>2, PushedWell
<1>4. x.alive /\ x.key = k /\ x.value = value
  BY DEF NewEntry
<1> HIDE DEF r, x
<1>5. AliveIn(r) = AliveIn(t) \cup {x}
  BY <1>1, <1>3, <1>4 DEF AliveIn
<1>6. Holds(r, held \cup {<<k, value>>})
  <2>1. held = {<<e.key, e.value>> : e \in AliveIn(t)}
    BY DEF Holds
  <2> QED
    BY <1>4, <1>5, <2>1 DEF Holds
<1> QED
  BY <1>3, <1>6 DEF r, m

(* Any put does what it should.                                            *)
LEMMA PutHeld ==
  ASSUME NEW knd, NEW t, NEW held, WellFormed(knd, t), Holds(t, held),
         NEW k \in TableKeys, NEW value \in HeldValues
  PROVE  /\ WellFormed(knd, TablePut(knd, t, k, value))
         /\ Holds(TablePut(knd, t, k, value), ContentsPut(knd, held, k, value))
<1> DEFINE old == {p \in held : EqualKeys(knd, p[1], k)}
           hits == FoundEntries(knd, t, k)
<1>1. /\ old = {<<e.key, e.value>> : e \in Matching(knd, t, k)}
      /\ Matching(knd, t, k) = {e \in AliveIn(t) : EqualKeys(knd, e.key, k)}
  BY MatchesHeld
<1>2. hits = {e \in EntriesIn(t) : Findable(knd, e) /\ EqualKeys(knd, e.key, k)}
  BY FoundInTable
<1>3. Matching(knd, t, k) = {e \in hits : e.alive}
  BY DEF Matching
<1>4. held = {<<e.key, e.value>> : e \in AliveIn(t)}
  BY DEF Holds
<1>5. ContentsPut(knd, held, k, value) =
        CASE old = {} -> held \cup {<<k, IF HasValues(knd) THEN value ELSE 0>>}
          [] old # {} /\ HasValues(knd) -> (held \ old) \cup {<<p[1], value>> : p \in old}
          [] OTHER -> held
  BY DEF ContentsPut
<1>6. 0 \in HeldValues
  BY DEF HeldValues
<1> HIDE DEF old, hits
<1>7. CASE ~HasValues(knd)
  <2>1. TablePut(knd, t, k, value) = SetPut(knd, t, k)
    BY <1>7 DEF TablePut
  <2>2. CASE Matching(knd, t, k) # {}
    <3>1. SetPut(knd, t, k) = t
      BY <2>2 DEF SetPut
    <3>2. old # {}
      BY <1>1, <2>2
    <3>3. ContentsPut(knd, held, k, value) = held
      BY <1>5, <1>7, <3>2
    <3> QED
      BY <2>1, <3>1, <3>3
  <2>3. CASE Matching(knd, t, k) = {}
    <3>1. SetPut(knd, t, k) = Pushed(knd, MakeRoom(knd, t), k, 0)
      BY <2>3 DEF SetPut
    <3>2. hits = {}
      <4>1. knd # WeakValues
        BY <1>7 DEF HasValues, IdentityDictionaries
      <4> QED
        BY <1>2, <1>3, <2>3, <4>1 DEF Findable
    <3>3. old = {}
      BY <1>1, <2>3
    <3>4. ContentsPut(knd, held, k, value) = held \cup {<<k, 0>>}
      BY <1>5, <1>7, <3>3
    <3>5. /\ WellFormed(knd, Pushed(knd, MakeRoom(knd, t), k, 0))
          /\ Holds(Pushed(knd, MakeRoom(knd, t), k, 0), held \cup {<<k, 0>>})
      BY <1>6, <3>2, AddedHeld DEF hits
    <3> QED
      BY <2>1, <3>1, <3>4, <3>5
  <2> QED
    BY <2>2, <2>3
<1>8. CASE HasValues(knd) /\ hits = {}
  <2>1. TablePut(knd, t, k, value) = Pushed(knd, MakeRoom(knd, t), k, value)
    BY <1>8 DEF TablePut, DictionaryPut, hits
  <2>2. old = {}
    BY <1>1, <1>3, <1>8
  <2>3. ContentsPut(knd, held, k, value) = held \cup {<<k, value>>}
    BY <1>5, <1>8, <2>2
  <2>4. /\ WellFormed(knd, Pushed(knd, MakeRoom(knd, t), k, value))
        /\ Holds(Pushed(knd, MakeRoom(knd, t), k, value), held \cup {<<k, value>>})
    BY <1>8, AddedHeld DEF hits
  <2> QED
    BY <2>1, <2>3, <2>4
<1>9. CASE HasValues(knd) /\ hits # {}
  <2> DEFINE r == SetValue(knd, t, k, value)
  <2>1. TablePut(knd, t, k, value) = r
    BY <1>9 DEF TablePut, DictionaryPut, hits
  <2>2. PICK f \in EntriesIn(t) :
          hits = {f} /\ WellFormed(knd, r) /\ EntriesIn(r) = (EntriesIn(t) \ {f}) \cup {NewEntry(f.key, value)}
    BY <1>9, SetValueWell DEF hits
  <2> DEFINE x == NewEntry(f.key, value)
  <2>3. x.alive /\ x.key = f.key /\ x.value = value
    BY DEF NewEntry
  <2> HIDE DEF r, x
  <2>4. AliveIn(r) = (AliveIn(t) \ {f}) \cup {x}
    BY <2>2, <2>3 DEF AliveIn, x
  <2>5. {<<e.key, e.value>> : e \in AliveIn(r)} =
          {<<e.key, e.value>> : e \in AliveIn(t) \ {f}} \cup {<<f.key, value>>}
    BY <2>3, <2>4
  <2>6. CASE f.alive
    <3>1. Matching(knd, t, k) = {f} /\ f \in AliveIn(t)
      BY <1>3, <2>2, <2>6 DEF AliveIn
    <3>2. old = {<<f.key, f.value>>}
      BY <1>1, <3>1
    <3>3. \A e \in AliveIn(t) \ {f} : e.key # f.key
      BY <1>1, <3>1
    <3>4. {<<e.key, e.value>> : e \in AliveIn(t) \ {f}} = held \ old
      BY <1>4, <3>1, <3>2, <3>3
    <3>5. ContentsPut(knd, held, k, value) = (held \ old) \cup {<<f.key, value>>}
      BY <1>5, <1>9, <3>2
    <3> QED
      BY <2>1, <2>2, <2>5, <3>4, <3>5 DEF Holds
  <2>7. CASE ~f.alive
    <3>1. Matching(knd, t, k) = {}
      BY <1>3, <2>2, <2>7
    <3>2. old = {}
      BY <1>1, <3>1
    <3>3. Findable(knd, f) /\ EqualKeys(knd, f.key, k)
      BY <1>2, <2>2
    <3>4. f.key = k
      <4>1. knd = WeakValues
        BY <2>7, <3>3 DEF Findable
      <4>2. ByIdentity(knd)
        BY <4>1 DEF ByIdentity, WeakValues, Dictionary
      <4> QED
        BY <3>3, <4>2 DEF EqualKeys
    <3>5. AliveIn(t) \ {f} = AliveIn(t)
      BY <2>7 DEF AliveIn
    <3>6. ContentsPut(knd, held, k, value) = held \cup {<<k, value>>}
      BY <1>5, <1>9, <3>2
    <3> QED
      BY <1>4, <2>1, <2>2, <2>5, <3>4, <3>5, <3>6 DEF Holds
  <2> QED
    BY <2>6, <2>7
<1> QED
  BY <1>7, <1>8, <1>9

(* The tables that FromList goes through.                                   *)
Fills(knd, list, f, n) ==
  f = [i \in 0..n |-> IF i = 0 THEN EmptyTable ELSE TablePut(knd, f[i - 1], list[i][1], list[i][2])]

(* They exist, for any list.                                                *)
LEMMA FillsExists == ASSUME NEW knd, NEW list, NEW n \in Nat PROVE \E f : Fills(knd, list, f, n)
<1> DEFINE T == {m \in Nat : ~ \E f : Fills(knd, list, f, m)}
<1>1. SUFFICES ASSUME T # {} PROVE FALSE
  OBVIOUS
<1>2. PICK m \in T : \A k \in T : m <= k
  BY <1>1, LeastNatural
<1>3. CASE m = 0
  <2> DEFINE f == [i \in 0..0 |-> EmptyTable]
  <2>1. f = [i \in 0..0 |-> IF i = 0 THEN EmptyTable ELSE TablePut(knd, f[i - 1], list[i][1], list[i][2])]
    OBVIOUS
  <2> HIDE DEF f
  <2> QED
    BY <1>2, <1>3, <2>1 DEF Fills
<1>4. CASE m # 0
  <2>1. m - 1 \in Nat /\ m - 1 \notin T
    BY <1>2, <1>4
  <2>2. PICK f : Fills(knd, list, f, m - 1)
    BY <2>1
  <2> DEFINE F(h, i) == IF i = 0 THEN EmptyTable ELSE TablePut(knd, h[i - 1], list[i][1], list[i][2])
             g == [i \in 0..m |-> F(f, i)]
  <2>3. f = [i \in 0..(m - 1) |-> F(f, i)]
    BY <2>2 DEF Fills
  <2>4. \A i \in 0..(m - 1) : g[i] = f[i]
    <3> SUFFICES ASSUME NEW i \in 0..(m - 1) PROVE g[i] = f[i]
      OBVIOUS
    <3>1. i \in 0..m
      BY <2>1
    <3> HIDE DEF F
    <3>2. f[i] = F(f, i)
      BY <2>3
    <3> QED
      BY <3>1, <3>2
  <2>5. \A i \in 0..m : F(f, i) = F(g, i)
    <3> SUFFICES ASSUME NEW i \in 0..m PROVE F(f, i) = F(g, i)
      OBVIOUS
    <3>1. CASE i = 0
      BY <3>1
    <3>2. CASE i # 0
      <4>1. i - 1 \in 0..(m - 1)
        BY <3>2, <1>2
      <4>2. g[i - 1] = f[i - 1]
        BY <2>4, <4>1
      <4> HIDE DEF g
      <4> QED
        BY <3>2, <4>2
    <3> QED
      BY <3>1, <3>2
  <2>6. g = [i \in 0..m |-> F(g, i)]
    <3> DEFINE h == [i \in 0..m |-> F(g, i)]
    <3>1. \A i \in 0..m : g[i] = h[i]
      <4> HIDE DEF F
      <4> QED
        BY <2>5
    <3> HIDE DEF F
    <3> QED
      BY <3>1
  <2> HIDE DEF g
  <2>7. Fills(knd, list, g, m)
    BY <2>6 DEF Fills
  <2> QED
    BY <2>7, <1>2
<1> QED
  BY <1>3, <1>4

(* FromList is the last.                                                    *)
LEMMA FromListDefined ==
  ASSUME NEW knd, NEW list, Len(list) \in Nat
  PROVE  \E f : Fills(knd, list, f, Len(list)) /\ FromList(knd, list) = f[Len(list)]
<1> DEFINE F == CHOOSE f : f = [i \in 0..Len(list) |->
                                 IF i = 0 THEN EmptyTable ELSE TablePut(knd, f[i - 1], list[i][1], list[i][2])]
<1>1. FromList(knd, list) = F[Len(list)]
  BY DEF FromList
<1>2. \E f : f = [i \in 0..Len(list) |->
                    IF i = 0 THEN EmptyTable ELSE TablePut(knd, f[i - 1], list[i][1], list[i][2])]
  <2>1. PICK f : Fills(knd, list, f, Len(list))
    BY FillsExists
  <2> QED
    BY <2>1 DEF Fills
<1>3. F = [i \in 0..Len(list) |-> IF i = 0 THEN EmptyTable ELSE TablePut(knd, F[i - 1], list[i][1], list[i][2])]
  BY <1>2
<1> HIDE DEF F
<1> QED
  BY <1>1, <1>3 DEF Fills

(* What should be in them.                                                  *)
Grows(knd, list, f, n) ==
  f = [i \in 0..n |-> IF i = 0 THEN {} ELSE ContentsPut(knd, f[i - 1], list[i][1], list[i][2])]

(* It exists, for any list.                                                 *)
LEMMA GrowsExists == ASSUME NEW knd, NEW list, NEW n \in Nat PROVE \E f : Grows(knd, list, f, n)
<1> DEFINE T == {m \in Nat : ~ \E f : Grows(knd, list, f, m)}
<1>1. SUFFICES ASSUME T # {} PROVE FALSE
  OBVIOUS
<1>2. PICK m \in T : \A k \in T : m <= k
  BY <1>1, LeastNatural
<1>3. CASE m = 0
  <2> DEFINE f == [i \in 0..0 |-> {}]
  <2>1. f = [i \in 0..0 |-> IF i = 0 THEN {} ELSE ContentsPut(knd, f[i - 1], list[i][1], list[i][2])]
    OBVIOUS
  <2> HIDE DEF f
  <2> QED
    BY <1>2, <1>3, <2>1 DEF Grows
<1>4. CASE m # 0
  <2>1. m - 1 \in Nat /\ m - 1 \notin T
    BY <1>2, <1>4
  <2>2. PICK f : Grows(knd, list, f, m - 1)
    BY <2>1
  <2> DEFINE F(h, i) == IF i = 0 THEN {} ELSE ContentsPut(knd, h[i - 1], list[i][1], list[i][2])
             g == [i \in 0..m |-> F(f, i)]
  <2>3. f = [i \in 0..(m - 1) |-> F(f, i)]
    BY <2>2 DEF Grows
  <2>4. \A i \in 0..(m - 1) : g[i] = f[i]
    <3> SUFFICES ASSUME NEW i \in 0..(m - 1) PROVE g[i] = f[i]
      OBVIOUS
    <3>1. i \in 0..m
      BY <2>1
    <3> HIDE DEF F
    <3>2. f[i] = F(f, i)
      BY <2>3
    <3> QED
      BY <3>1, <3>2
  <2>5. \A i \in 0..m : F(f, i) = F(g, i)
    <3> SUFFICES ASSUME NEW i \in 0..m PROVE F(f, i) = F(g, i)
      OBVIOUS
    <3>1. CASE i = 0
      BY <3>1
    <3>2. CASE i # 0
      <4>1. i - 1 \in 0..(m - 1)
        BY <3>2, <1>2
      <4>2. g[i - 1] = f[i - 1]
        BY <2>4, <4>1
      <4> HIDE DEF g
      <4> QED
        BY <3>2, <4>2
    <3> QED
      BY <3>1, <3>2
  <2>6. g = [i \in 0..m |-> F(g, i)]
    <3> DEFINE h == [i \in 0..m |-> F(g, i)]
    <3>1. \A i \in 0..m : g[i] = h[i]
      <4> HIDE DEF F
      <4> QED
        BY <2>5
    <3> HIDE DEF F
    <3> QED
      BY <3>1
  <2> HIDE DEF g
  <2>7. Grows(knd, list, g, m)
    BY <2>6 DEF Grows
  <2> QED
    BY <2>7, <1>2
<1> QED
  BY <1>3, <1>4

(* ContentsFrom is the last.                                                *)
LEMMA ContentsFromDefined ==
  ASSUME NEW knd, NEW list, Len(list) \in Nat
  PROVE  \E f : Grows(knd, list, f, Len(list)) /\ ContentsFrom(knd, list) = f[Len(list)]
<1> DEFINE F == CHOOSE f : f = [i \in 0..Len(list) |->
                                 IF i = 0 THEN {} ELSE ContentsPut(knd, f[i - 1], list[i][1], list[i][2])]
<1>1. ContentsFrom(knd, list) = F[Len(list)]
  BY DEF ContentsFrom
<1>2. \E f : f = [i \in 0..Len(list) |->
                    IF i = 0 THEN {} ELSE ContentsPut(knd, f[i - 1], list[i][1], list[i][2])]
  <2>1. PICK f : Grows(knd, list, f, Len(list))
    BY GrowsExists
  <2> QED
    BY <2>1 DEF Grows
<1>3. F = [i \in 0..Len(list) |-> IF i = 0 THEN {} ELSE ContentsPut(knd, F[i - 1], list[i][1], list[i][2])]
  BY <1>2
<1> HIDE DEF F
<1> QED
  BY <1>1, <1>3 DEF Grows

(* A collection made from a list holds what it should.                     *)
LEMMA FromListHeld ==
  ASSUME NEW knd, NEW list \in Seq(TableKeys \X TableValues)
  PROVE  WellFormed(knd, FromList(knd, list)) /\ Holds(FromList(knd, list), ContentsFrom(knd, list))
<1> DEFINE n == Len(list)
<1>1. n \in Nat
  BY LenProperties
<1>2. \A i \in 1..n : list[i][1] \in TableKeys /\ list[i][2] \in HeldValues
  <2>1. \A i \in 1..n : list[i] \in TableKeys \X TableValues
    BY ElementOfSeq
  <2> QED
    BY <2>1 DEF HeldValues
<1>3. PICK f : Fills(knd, list, f, n) /\ FromList(knd, list) = f[n]
  BY <1>1, FromListDefined
<1>4. PICK g : Grows(knd, list, g, n) /\ ContentsFrom(knd, list) = g[n]
  BY <1>1, ContentsFromDefined
<1> HIDE DEF n
<1>5. f[0] = EmptyTable /\ \A i \in 1..n : f[i] = TablePut(knd, f[i - 1], list[i][1], list[i][2])
  <2>1. f = [i \in 0..n |-> IF i = 0 THEN EmptyTable ELSE TablePut(knd, f[i - 1], list[i][1], list[i][2])]
    BY <1>3 DEF Fills
  <2>2. 0 \in 0..n /\ \A i \in 1..n : i \in 0..n /\ i # 0
    BY <1>1
  <2>3. \A i \in 0..n : f[i] = IF i = 0 THEN EmptyTable ELSE TablePut(knd, f[i - 1], list[i][1], list[i][2])
    BY <2>1, Zenon
  <2> QED
    BY <2>2, <2>3
<1>6. g[0] = {} /\ \A i \in 1..n : g[i] = ContentsPut(knd, g[i - 1], list[i][1], list[i][2])
  <2>1. g = [i \in 0..n |-> IF i = 0 THEN {} ELSE ContentsPut(knd, g[i - 1], list[i][1], list[i][2])]
    BY <1>4 DEF Grows
  <2>2. 0 \in 0..n /\ \A i \in 1..n : i \in 0..n /\ i # 0
    BY <1>1
  <2>3. \A i \in 0..n : g[i] = IF i = 0 THEN {} ELSE ContentsPut(knd, g[i - 1], list[i][1], list[i][2])
    BY <2>1, Zenon
  <2> QED
    BY <2>2, <2>3
<1> DEFINE Good(i) == WellFormed(knd, f[i]) /\ Holds(f[i], g[i])
           T == {i \in 0..n : ~Good(i)}
<1>7. SUFFICES ASSUME T # {} PROVE FALSE
  <2>1. n \in 0..n
    BY <1>1
  <2>2. Good(n)
    BY <1>7, <2>1
  <2> QED
    BY <1>3, <1>4, <2>2
<1>8. PICK i \in T : \A k \in T : i <= k
  <2>1. T \subseteq Nat
    BY <1>1
  <2> HIDE DEF T
  <2> QED
    BY <1>7, <2>1, LeastNatural
<1>9. CASE i = 0
  <2>1. Good(0)
    BY <1>5, <1>6, EmptyTableWell DEF Holds, AliveIn
  <2> QED
    BY <1>8, <1>9, <2>1
<1>10. CASE i # 0
  <2>1. i \in 1..n /\ i - 1 \in 0..n /\ ~(i <= i - 1)
    BY <1>1, <1>8, <1>10
  <2>2. Good(i - 1)
    BY <1>8, <2>1
  <2> DEFINE t == f[i - 1]
             held == g[i - 1]
             k == list[i][1]
             value == list[i][2]
  <2>3. WellFormed(knd, t) /\ Holds(t, held) /\ k \in TableKeys /\ value \in HeldValues
    BY <1>2, <2>1, <2>2
  <2>4. WellFormed(knd, TablePut(knd, t, k, value)) /\ Holds(TablePut(knd, t, k, value), ContentsPut(knd, held, k, value))
    <3> HIDE DEF t, held, k, value
    <3> QED
      BY <2>3, PutHeld
  <2>5. f[i] = TablePut(knd, t, k, value) /\ g[i] = ContentsPut(knd, held, k, value)
    BY <1>5, <1>6, <2>1
  <2>6. Good(i)
    BY <2>4, <2>5
  <2> QED
    BY <1>8, <2>6
<1> QED
  BY <1>9, <1>10

(* The entries of a list have keys of their own.                           *)
KeysDiffer == {p \in TableEntries \X TableEntries : p[1].key # p[2].key}
LEMMA ApartInjective ==
  ASSUME NEW s \in Seq(TableEntries), Apart(s, KeysDiffer)
  PROVE  IsInjective(s) /\ \A i, j \in 1..Len(s) : s[i].key = s[j].key => i = j
<1>1. Len(s) \in Nat /\ DOMAIN s = 1..Len(s)
  BY LenProperties
<1>2. \A i, j \in 1..Len(s) : i < j => s[i].key # s[j].key
  BY DEF Apart, KeysDiffer
<1>3. \A i, j \in 1..Len(s) : s[i].key = s[j].key => i = j
  BY <1>1, <1>2
<1> QED
  BY <1>1, <1>3 DEF IsInjective

(* A collection lists its entries that are alive, each once.               *)
LEMMA EntriesListed ==
  ASSUME NEW knd, NEW t, WellFormed(knd, t)
  PROVE  /\ EntriesOf(t) \in Seq(TableEntries) /\ Apart(EntriesOf(t), KeysDiffer)
         /\ ToSet(EntriesOf(t)) = AliveIn(t)
<1> DEFINE s == t.buckets
           all == FlattenSeq(s)
           W == {e \in ToSet(all) : e.alive}
           u == EntriesOf(t)
<1>1. /\ s \in Seq(Seq(TableEntries)) /\ Len(s) \in Nat \ {0}
      /\ \A b \in 1..Len(s) : s[b] \in Seq(TableEntries) /\ ToSet(s[b]) \subseteq EntriesIn(t)
  BY BucketsTyped
<1>2. all \in Seq(TableEntries) /\ \A x : x \in ToSet(all) <=> \E b \in 1..Len(s) : x \in ToSet(s[b])
  BY <1>1, FlattenType, FlattenElements
<1>3. \A b \in 1..Len(s) : /\ \A e \in ToSet(s[b]) : BucketFor(t, TableHash(knd, e.key)) = b
                           /\ Apart(s[b], Unlike(knd))
  BY DEF WellFormed, InPlace
<1>4. ASSUME NEW i \in 1..Len(s), NEW j \in 1..Len(s), i < j PROVE Across(s[i], s[j], Unlike(knd))
  <2> SUFFICES ASSUME NEW x \in ToSet(s[i]), NEW y \in ToSet(s[j]) PROVE <<x, y>> \in Unlike(knd)
    BY DEF Across
  <2>1. BucketFor(t, TableHash(knd, x.key)) = i /\ BucketFor(t, TableHash(knd, y.key)) = j
    BY <1>3
  <2>2. x \in TableEntries /\ y \in TableEntries
    BY <1>1 DEF EntriesIn
  <2>3. x.key \in TableKeys /\ y.key \in TableKeys
    BY <2>2 DEF TableEntries
  <2>4. i # j
    BY <1>1, <1>4
  <2>5. ~EqualKeys(knd, x.key, y.key)
    BY <2>1, <2>3, <2>4, KeysAreHashed
  <2> QED
    BY <2>2, <2>5 DEF Unlike
<1>5. Apart(all, Unlike(knd))
  <2>1. \A b \in 1..Len(s) : Apart(s[b], Unlike(knd))
    BY <1>3
  <2>2. \A i, j \in 1..Len(s) : i < j => Across(s[i], s[j], Unlike(knd))
    BY <1>4
  <2> HIDE DEF s
  <2> QED
    BY <1>1, <2>1, <2>2, FlattenApart
<1>6. u = Those(all, W)
  BY DEF EntriesOf
<1>7. W = {e \in ToSet(all) : e.alive}
  OBVIOUS
<1> HIDE DEF all, W, u
<1>8. /\ u \in Seq(TableEntries) /\ Apart(u, Unlike(knd))
      /\ \A x : x \in ToSet(u) <=> x \in ToSet(all) /\ x \in W
  BY <1>2, <1>5, <1>6, ThoseFacts
<1>9. ToSet(u) = AliveIn(t)
  <2>1. \A x : x \in EntriesIn(t) <=> x \in ToSet(all)
    BY <1>1, <1>2 DEF EntriesIn
  <2> QED
    BY <1>7, <1>8, <2>1 DEF AliveIn
<1>10. Apart(u, KeysDiffer)
  <2> SUFFICES ASSUME NEW i \in 1..Len(u), NEW j \in 1..Len(u), i < j PROVE <<u[i], u[j]>> \in KeysDiffer
    BY DEF Apart
  <2>1. u[i] \in ToSet(u) /\ u[j] \in ToSet(u)
    BY <1>8, LenProperties DEF ToSet
  <2>2. u[i] \in TableEntries /\ u[j] \in TableEntries /\ u[i].alive /\ u[j].alive
    BY <1>9, <2>1 DEF AliveIn, EntriesIn
  <2>3. <<u[i], u[j]>> \in Unlike(knd)
    BY <1>8 DEF Apart
  <2>4. ~EqualKeys(knd, u[i].key, u[j].key)
    BY <2>2, <2>3 DEF Unlike, Findable
  <2>5. u[i].key # u[j].key
    BY <2>4, KeysAreHashed
  <2> QED
    BY <2>2, <2>5 DEF KeysDiffer
<1> QED
  BY <1>8, <1>9, <1>10 DEF u

(* There are as many as there should be.                                   *)
LEMMA EntriesCounted ==
  ASSUME NEW knd, NEW t, NEW held, WellFormed(knd, t), Holds(t, held)
  PROVE  Len(EntriesOf(t)) = Cardinality(held)
<1> DEFINE u == EntriesOf(t)
           n == Len(u)
           f == [i \in 1..n |-> <<u[i].key, u[i].value>>]
<1>1. u \in Seq(TableEntries) /\ Apart(u, KeysDiffer) /\ ToSet(u) = AliveIn(t)
  BY EntriesListed
<1> HIDE DEF u
<1>2. n \in Nat /\ DOMAIN u = 1..n
  BY <1>1, LenProperties
<1>3. ToSet(u) = {u[i] : i \in 1..n}
  BY <1>2 DEF ToSet
<1>4. held = {<<u[i].key, u[i].value>> : i \in 1..n}
  BY <1>1, <1>3 DEF Holds
<1>5. \A i, j \in 1..n : u[i].key = u[j].key => i = j
  BY <1>1, ApartInjective
<1> HIDE DEF n
<1>6. f \in [1..n -> held] /\ (\A i, j \in 1..n : f[i] = f[j] => i = j) /\ \A h \in held : \E i \in 1..n : f[i] = h
  BY <1>4, <1>5
<1> HIDE DEF f
<1>7. f \in Bijection(1..n, held)
  BY <1>6 DEF Bijection, Injection, Surjection, IsInjective
<1>8. ExistsBijection(1..n, held)
  BY <1>7, Fun_ExistsBij
<1>9. Cardinality(held) = n
  BY <1>2, <1>8, FS_CountingElements
<1> QED
  BY <1>9 DEF n, u

(* Whatever a walk goes through names each key once.                       *)
LEMMA ListsListed ==
  ASSUME NEW knd, NEW t, WellFormed(knd, t)
  PROVE  /\ AsList(knd, t) \in Seq(TableEntries) /\ IsInjective(AsList(knd, t))
         /\ KeysList(t) \in Seq(TableEntries) /\ IsInjective(KeysList(t))
<1> DEFINE u == EntriesOf(t)
           v == Reverse(u)
           n == Len(u)
           w == [i \in DOMAIN u |-> [v[i] EXCEPT !.value = 0]]
<1>1. u \in Seq(TableEntries) /\ Apart(u, KeysDiffer)
  BY EntriesListed
<1> HIDE DEF u
<1>2. \A x, y : <<x, y>> \in KeysDiffer => <<y, x>> \in KeysDiffer
  BY DEF KeysDiffer
<1>3. v \in Seq(TableEntries) /\ Len(v) = n /\ Apart(v, KeysDiffer)
  BY <1>1, <1>2, ReverseFacts
<1>4. n \in Nat /\ DOMAIN u = 1..n
  BY <1>1, LenProperties
<1> HIDE DEF v
<1>5. IsInjective(u) /\ IsInjective(v) /\ \A i, j \in 1..n : v[i].key = v[j].key => i = j
  BY <1>1, <1>3, ApartInjective
<1>6. \A i \in 1..n : v[i] \in TableEntries
  BY <1>3, ElementOfSeq
<1>7. \A i \in 1..n : w[i] \in TableEntries /\ w[i].key = v[i].key
  BY <1>4, <1>6 DEF TableEntries, HeldValues
<1>8. w \in Seq(TableEntries) /\ DOMAIN w = 1..n
  <2>1. w \in [1..n -> TableEntries]
    BY <1>4, <1>7
  <2> HIDE DEF n, w
  <2> QED
    BY <1>4, <2>1
<1> HIDE DEF w
<1>9. IsInjective(w)
  BY <1>5, <1>7, <1>8 DEF IsInjective
<1>10. AsList(knd, t) = (IF HasValues(knd) THEN u ELSE v) /\ KeysList(t) = w
  BY DEF AsList, KeysList, u, v, w
<1> QED
  BY <1>1, <1>3, <1>5, <1>8, <1>9, <1>10

(* A walk of a list has seen nothing yet, or its first.                    *)
LEMMA WalkStarts ==
  ASSUME NEW list \in Seq(TableEntries)
  PROVE  /\ list = <<>> \o list /\ <<>> \in Seq(TableEntries)
         /\ list # <<>> => /\ list = <<Head(list)>> \o Tail(list) /\ Tail(list) \in Seq(TableEntries)
                           /\ <<Head(list)>> \in Seq(TableEntries)
<1>1. list = <<>> \o list /\ <<>> \in Seq(TableEntries)
  BY ConcatEmptySeq, EmptySeq
<1>2. ASSUME list # <<>>
      PROVE  /\ list = <<Head(list)>> \o Tail(list) /\ Tail(list) \in Seq(TableEntries)
             /\ <<Head(list)>> \in Seq(TableEntries)
  <2>1. Head(list) \in TableEntries /\ Tail(list) \in Seq(TableEntries)
    BY <1>2, HeadTailProperties
  <2> DEFINE h == <<Head(list)>>
             u == h \o Tail(list)
  <2>2. h \in Seq(TableEntries) /\ Len(h) = 1 /\ h[1] = Head(list)
    BY <2>1
  <2>3. /\ Len(Tail(list)) = Len(list) - 1 /\ Len(list) \in Nat /\ Len(list) # 0
        /\ \A i \in 1..Len(Tail(list)) : Tail(list)[i] = list[i + 1]
    BY <1>2, HeadTailProperties, LenProperties, EmptySeq
  <2> HIDE DEF h
  <2>4. /\ u \in Seq(TableEntries) /\ Len(u) = Len(h) + Len(Tail(list))
        /\ \A i \in 1..Len(h) + Len(Tail(list)) : u[i] = IF i <= Len(h) THEN h[i] ELSE Tail(list)[i - Len(h)]
    BY <2>1, <2>2, ConcatProperties
  <2> HIDE DEF u
  <2>5. Len(u) = Len(list)
    BY <2>2, <2>3, <2>4
  <2>6. \A i \in 1..Len(list) : u[i] = list[i]
    <3> SUFFICES ASSUME NEW i \in 1..Len(list) PROVE u[i] = list[i]
      OBVIOUS
    <3>1. CASE i = 1
      <4>1. list[1] = Head(list)
        OBVIOUS
      <4> QED
        BY <2>2, <2>3, <2>4, <3>1, <4>1
    <3>2. CASE i # 1
      <4>1. i - 1 \in 1..Len(Tail(list)) /\ i \in 1..Len(h) + Len(Tail(list)) /\ ~(i <= Len(h)) /\ i - 1 + 1 = i
        BY <2>2, <2>3, <3>2
      <4>2. u[i] = Tail(list)[i - 1]
        BY <2>2, <2>4, <4>1
      <4> QED
        BY <2>3, <4>1, <4>2
    <3> QED
      BY <3>1, <3>2
  <2>7. u = list
    BY <2>4, <2>5, <2>6, SeqEqual
  <2> QED
    BY <2>1, <2>2, <2>7 DEF u, h
<1> QED
  BY <1>1, <1>2

(* One more of a list has been seen.                                       *)
LEMMA WalkGoesOn ==
  ASSUME NEW seen \in Seq(TableEntries), NEW todo \in Seq(TableEntries), todo # <<>>
  PROVE  /\ Append(seen, Head(todo)) \in Seq(TableEntries) /\ Tail(todo) \in Seq(TableEntries)
         /\ seen \o todo = Append(seen, Head(todo)) \o Tail(todo)
         /\ IsPrefix(Append(seen, Head(todo)), seen \o todo)
<1> DEFINE E == TableEntries
           h == <<Head(todo)>>
           s == Append(seen, Head(todo))
           r == Tail(todo)
<1>1. Head(todo) \in E /\ r \in Seq(E) /\ h \in Seq(E) /\ todo = h \o r
  BY WalkStarts, HeadTailProperties
<1>2. s \in Seq(E) /\ s = seen \o h
  BY <1>1, AppendProperties, AppendIsConcat
<1> HIDE DEF h, s, r, E
<1>3. seen \o todo = s \o r
  <2>1. seen \in Seq(E)
    BY DEF E
  <2>2. \A x, y, z \in Seq(E) : (x \o y) \o z = x \o (y \o z)
    BY ConcatAssociative
  <2>3. (seen \o h) \o r = seen \o (h \o r)
    BY <1>1, <2>1, <2>2, Zenon
  <2> QED
    BY <1>1, <1>2, <2>3
<1>4. IsPrefix(s, s \o r)
  <2> DEFINE n == Len(s)
             u == s \o r
  <2>1. n \in Nat /\ Len(r) \in Nat
    BY <1>1, <1>2, LenProperties
  <2>2. u \in Seq(E) /\ Len(u) = n + Len(r) /\ \A i \in 1..n + Len(r) : u[i] = IF i <= n THEN s[i] ELSE r[i - n]
    BY <1>1, <1>2, ConcatProperties
  <2> HIDE DEF u
  <2>3. n <= Len(u) /\ \A i \in 1..n : u[i] = s[i]
    BY <2>1, <2>2
  <2>4. SubSeq(s, 1, n) = SubSeq(u, 1, n)
    <3>1. \A i \in 1..n : s[i] \in E
      BY <1>2, ElementOfSeq
    <3> HIDE DEF n
    <3>2. 1 \in Int /\ n \in Int
      BY <2>1
    <3>3. /\ SubSeq(s, 1, n) \in Seq(E) /\ Len(SubSeq(s, 1, n)) = (IF 1 <= n THEN n - 1 + 1 ELSE 0)
          /\ \A i \in 1..n - 1 + 1 : SubSeq(s, 1, n)[i] = s[1 + i - 1]
      BY <3>1, <3>2, SubSeqProperties
    <3>4. \A i \in 1..n : u[i] \in E
      BY <2>3, <3>1
    <3>5. /\ SubSeq(u, 1, n) \in Seq(E) /\ Len(SubSeq(u, 1, n)) = (IF 1 <= n THEN n - 1 + 1 ELSE 0)
          /\ \A i \in 1..n - 1 + 1 : SubSeq(u, 1, n)[i] = u[1 + i - 1]
      BY <3>2, <3>4, SubSeqProperties
    <3> DEFINE x == SubSeq(s, 1, n)
               y == SubSeq(u, 1, n)
    <3>6. x \in Seq(E) /\ y \in Seq(E) /\ Len(x) = n /\ Len(y) = n
      BY <2>1, <3>3, <3>5
    <3>7. \A i \in 1..n : x[i] = s[i] /\ y[i] = u[i]
      <4> SUFFICES ASSUME NEW i \in 1..n PROVE x[i] = s[i] /\ y[i] = u[i]
        OBVIOUS
      <4>1. i \in 1..n - 1 + 1 /\ 1 + i - 1 = i
        BY <2>1
      <4> QED
        BY <3>3, <3>5, <4>1
    <3> HIDE DEF x, y
    <3>8. x = y
      BY <2>3, <3>6, <3>7, SeqEqual
    <3> QED
      BY <3>8 DEF x, y
  <2> QED
    BY <2>3, <2>4 DEF IsPrefix, n, u
<1> QED
  BY <1>1, <1>2, <1>3, <1>4 DEF s, r, E

(* A collection begins as it is made, with no walk.                        *)
LEMMA TableInitInv == TableInit \/ TableIdle => TableInv
<1>1. ASSUME walk = NoWalk PROVE WalkInv
  <2>1. <<>> \in Seq(TableEntries) /\ <<>> = <<>> \o <<>>
    BY EmptySeq, ConcatEmptySeq
  <2>2. IsInjective(<<>>)
    BY DEF IsInjective
  <2>3. walk \in WalkStates
    BY <1>1, <2>1 DEF NoWalk, WalkStates
  <2> QED
    BY <1>1, <2>1, <2>2, <2>3 DEF WalkInv, NoWalk
<1>2. TableInit => TableInv
  <2> SUFFICES ASSUME TableInit PROVE TableInv
    OBVIOUS
  <2>1. PICK list \in FirstLists : table = FromList(kind, list) /\ contents = ContentsFrom(kind, list)
    BY DEF TableInit
  <2>2. list \in Seq(TableKeys \X TableValues)
    BY TableAssumption
  <2> QED
    BY <1>1, <2>1, <2>2, FromListHeld DEF TableInit, TableInv
<1>3. TableIdle => TableInv
  <2> SUFFICES ASSUME TableIdle PROVE TableInv
    OBVIOUS
  <2>1. WellFormed(kind, table) /\ AliveIn(table) = {}
    BY EmptyTableWell DEF TableIdle, AliveIn
  <2>2. Holds(table, contents) /\ kind \in TableKinds
    BY <2>1 DEF TableIdle, Holds, TableKinds
  <2> QED
    BY <1>1, <2>1, <2>2 DEF TableIdle, TableInv
<1> QED
  BY <1>2, <1>3

(* Every step of a collection keeps its invariant.                         *)
LEMMA TableStepInv == TableInv /\ [TableNext]_tableVars => TableInv'
<1> SUFFICES ASSUME TableInv, [TableNext]_tableVars PROVE TableInv'
  OBVIOUS
<1>0. kind \in TableKinds /\ WellFormed(kind, table) /\ Holds(table, contents) /\ WalkInv
  BY DEF TableInv
<1>1. ASSUME UNCHANGED walk PROVE WalkInv'
  BY <1>0, <1>1 DEF WalkInv
<1>2. CASE PutKey
  <2>1. PICK k \in TableKeys, value \in HeldValues :
          /\ table' = TablePut(kind, table, k, value)
          /\ contents' = ContentsPut(kind, contents, k, value)
    BY <1>2 DEF PutKey, HeldValues
  <2>2. kind' = kind /\ walk' = walk
    BY <1>2 DEF PutKey, Change
  <2>3. WellFormed(kind, table') /\ Holds(table', contents')
    BY <1>0, <2>1, PutHeld
  <2> QED
    BY <1>0, <1>1, <2>2, <2>3 DEF TableInv
<1>3. CASE RemoveTableKey
  <2>1. PICK k \in TableKeys : /\ table' = TableRemove(kind, table, k)
                               /\ contents' = {p \in contents : ~EqualKeys(kind, p[1], k)}
    BY <1>3 DEF RemoveTableKey
  <2>2. kind' = kind /\ walk' = walk
    BY <1>3 DEF RemoveTableKey, Change
  <2>3. WellFormed(kind, table') /\ EntriesIn(table') = EntriesIn(table) \ FoundEntries(kind, table, k)
    BY <1>0, <2>1, RemovedWell
  <2>4. FoundEntries(kind, table, k) = {e \in EntriesIn(table) : Findable(kind, e) /\ EqualKeys(kind, e.key, k)}
    BY <1>0, FoundInTable
  <2>5. AliveIn(table') = {e \in AliveIn(table) : ~EqualKeys(kind, e.key, k)}
    BY <2>3, <2>4 DEF AliveIn, Findable
  <2>6. Holds(table', contents')
    BY <1>0, <2>1, <2>5 DEF Holds
  <2> QED
    BY <1>0, <1>1, <2>2, <2>3, <2>6 DEF TableInv
<1>4. CASE EntryDies
  <2>1. PICK p \in contents : /\ contents' = {q \in contents : ~DiesWith(kind, q[1], q[2], p)}
                              /\ table' = Collected(kind, table, p)
    BY <1>4 DEF EntryDies
  <2>2. kind' = kind /\ walk' = walk
    BY <1>4 DEF EntryDies
  <2>3. /\ WellFormed(kind, table')
        /\ AliveIn(table') = {e \in AliveIn(table) : ~DiesWith(kind, e.key, e.value, p)}
    BY <1>0, <2>1, CollectedWell
  <2>4. Holds(table', contents')
    BY <1>0, <2>1, <2>3 DEF Holds
  <2> QED
    BY <1>0, <1>1, <2>2, <2>3, <2>4 DEF TableInv
<1>5. CASE StartWalk
  <2>1. PICK op \in Walks : \E list \in {KeysList(table), AsList(kind, table)} :
          IF op = "reduce"
            THEN /\ list # <<>>
                 /\ walk' = [op |-> op, todo |-> Tail(list), seen |-> <<Head(list)>>,
                             truth |-> TRUE, asked |-> list]
            ELSE walk' = [op |-> op, todo |-> list, seen |-> <<>>, truth |-> TRUE, asked |-> list]
    BY <1>5 DEF StartWalk
  <2>2. PICK list \in {KeysList(table), AsList(kind, table)} :
          IF op = "reduce"
            THEN /\ list # <<>>
                 /\ walk' = [op |-> op, todo |-> Tail(list), seen |-> <<Head(list)>>,
                             truth |-> TRUE, asked |-> list]
            ELSE walk' = [op |-> op, todo |-> list, seen |-> <<>>, truth |-> TRUE, asked |-> list]
    BY <2>1
  <2>3. list \in Seq(TableEntries) /\ IsInjective(list)
    BY <1>0, ListsListed
  <2>4. op \in {"none", "keysDo"} \cup SetWalks \cup DictionaryWalks
    BY DEF Walks
  <2>5. UNCHANGED <<kind, table, contents>>
    BY <1>5 DEF StartWalk
  <2>6. WalkInv'
    <3>1. CASE op = "reduce"
      <4>1. walk' = [op |-> op, todo |-> Tail(list), seen |-> <<Head(list)>>, truth |-> TRUE, asked |-> list]
        BY <2>2, <3>1
      <4>2. list = <<Head(list)>> \o Tail(list) /\ Tail(list) \in Seq(TableEntries) /\ <<Head(list)>> \in Seq(TableEntries)
        BY <2>2, <2>3, <3>1, WalkStarts
      <4>3. walk' \in WalkStates
        BY <2>3, <2>4, <4>1, <4>2 DEF WalkStates
      <4> QED
        BY <2>3, <4>1, <4>2, <4>3 DEF WalkInv
    <3>2. CASE op # "reduce"
      <4>1. walk' = [op |-> op, todo |-> list, seen |-> <<>>, truth |-> TRUE, asked |-> list]
        BY <2>2, <3>2
      <4>2. list = <<>> \o list /\ <<>> \in Seq(TableEntries)
        BY <2>3, WalkStarts
      <4>3. walk' \in WalkStates
        BY <2>3, <2>4, <4>1, <4>2 DEF WalkStates
      <4> QED
        BY <2>3, <4>1, <4>2, <4>3 DEF WalkInv
    <3> QED
      BY <3>1, <3>2
  <2> QED
    BY <1>0, <2>5, <2>6 DEF TableInv
<1>6. CASE CallBack
  <2>1. PICK truth \in BOOLEAN :
          /\ walk.todo # <<>>
          /\ walk' = [walk EXCEPT !.todo = IF Decides(walk.op, truth) THEN <<>> ELSE Tail(@),
                                  !.seen = Append(@, Head(walk.todo)), !.truth = truth]
    BY <1>6 DEF CallBack
  <2>2. UNCHANGED <<kind, table, contents>>
    BY <1>6 DEF CallBack
  <2> DEFINE seen == walk.seen
             todo == walk.todo
             more == Append(seen, Head(todo))
  <2>3. walk \in WalkStates /\ IsInjective(walk.asked) /\ walk.asked = seen \o todo
    BY <1>0, <2>1 DEF WalkInv
  <2>4. seen \in Seq(TableEntries) /\ todo \in Seq(TableEntries)
    BY <2>3 DEF WalkStates
  <2>5. /\ more \in Seq(TableEntries) /\ Tail(todo) \in Seq(TableEntries)
        /\ walk.asked = more \o Tail(todo) /\ IsPrefix(more, walk.asked)
    BY <2>1, <2>3, <2>4, WalkGoesOn
  <2>6. /\ walk'.op = walk.op /\ walk'.asked = walk.asked /\ walk'.truth = truth /\ walk'.seen = more
        /\ walk'.todo = IF Decides(walk.op, truth) THEN <<>> ELSE Tail(todo)
    BY <2>1, <2>3 DEF WalkStates
  <2>7. <<>> \in Seq(TableEntries)
    BY EmptySeq
  <2>8. walk' \in WalkStates
    <3>1. (IF Decides(walk.op, truth) THEN <<>> ELSE Tail(todo)) \in Seq(TableEntries)
      BY <2>5, <2>7
    <3> HIDE DEF more, todo
    <3> QED
      BY <2>1, <2>3, <2>5, <3>1 DEF WalkStates, more, todo
  <2>9. WalkInv'
    <3> HIDE DEF more, todo
    <3>1. CASE Decides(walk.op, truth)
      BY <2>3, <2>5, <2>6, <2>8, <3>1 DEF WalkInv
    <3>2. CASE ~Decides(walk.op, truth)
      BY <2>3, <2>5, <2>6, <2>8, <3>2 DEF WalkInv
    <3> QED
      BY <3>1, <3>2
  <2> QED
    BY <1>0, <2>2, <2>9 DEF TableInv
<1>7. CASE UNCHANGED tableVars
  BY <1>0, <1>1, <1>7 DEF tableVars, TableInv
<1> QED
  BY <1>2, <1>3, <1>4, <1>5, <1>6, <1>7 DEF TableNext

(* The invariant is what was promised.                                     *)
LEMMA TableInvSafe == TableInv => TableIsMap /\ WalksSeeOnce
<1> SUFFICES ASSUME TableInv PROVE TableIsMap /\ WalksSeeOnce
  OBVIOUS
<1>0. kind \in TableKinds /\ WellFormed(kind, table) /\ Holds(table, contents) /\ WalkInv
  BY DEF TableInv
<1>1. TableIsMap
  <2>1. \A k \in TableKeys :
          {<<e.key, e.value>> : e \in Matching(kind, table, k)} = {p \in contents : EqualKeys(kind, p[1], k)}
    BY <1>0, MatchesHeld
  <2>2. ToSet(EntriesOf(table)) = AliveIn(table)
    BY <1>0, EntriesListed
  <2>3. {<<e.key, e.value>> : e \in ToSet(EntriesOf(table))} = contents
    BY <1>0, <2>2 DEF Holds
  <2>4. Len(EntriesOf(table)) = Cardinality(contents)
    BY <1>0, EntriesCounted
  <2>5. table.count = Len(FlattenSeq(table.buckets)) /\ table.count <= Len(table.buckets)
    BY <1>0 DEF WellFormed, Counted
  <2> QED
    BY <2>1, <2>3, <2>4, <2>5 DEF TableIsMap
<1>2. WalksSeeOnce
  <2> SUFFICES ASSUME walk.todo = <<>>
               PROVE  /\ IsInjective(walk.seen) /\ IsPrefix(walk.seen, walk.asked)
                      /\ walk.seen # walk.asked => Decides(walk.op, walk.truth)
    BY DEF WalksSeeOnce
  <2>1. /\ walk.seen \in Seq(TableEntries) /\ walk.asked \in Seq(TableEntries) /\ IsInjective(walk.asked)
        /\ \/ walk.asked = walk.seen \o walk.todo
           \/ walk.todo = <<>> /\ IsPrefix(walk.seen, walk.asked) /\ Decides(walk.op, walk.truth)
    BY <1>0 DEF WalkInv, WalkStates
  <2> DEFINE seen == walk.seen
             asked == walk.asked
  <2>2. CASE asked = seen \o walk.todo
    <3>1. seen \o <<>> = seen
      BY <2>1, ConcatEmptySeq
    <3>2. asked = seen
      BY <2>2, <3>1
    <3>3. IsPrefix(seen, seen)
      <4>1. Len(seen) \in Nat
        BY <2>1, LenProperties
      <4> HIDE DEF seen
      <4> QED
        BY <4>1 DEF IsPrefix
    <3> QED
      BY <2>1, <3>2, <3>3
  <2>3. CASE IsPrefix(seen, asked) /\ Decides(walk.op, walk.truth)
    <3>1. /\ Len(seen) \in Nat /\ DOMAIN seen = 1..Len(seen) /\ Len(asked) \in Nat /\ DOMAIN asked = 1..Len(asked)
          /\ Len(seen) <= Len(asked) /\ SubSeq(seen, 1, Len(seen)) = SubSeq(asked, 1, Len(seen))
      BY <2>1, <2>3, LenProperties DEF IsPrefix
    <3>2. \A i \in 1..Len(seen) : seen[i] = asked[i]
      <4> DEFINE n == Len(seen)
      <4>1. (\A i \in 1..n : seen[i] \in TableEntries) /\ \A i \in 1..n : asked[i] \in TableEntries
        BY <2>1, <3>1, ElementOfSeq
      <4>2. 1 \in Int /\ n \in Int
        BY <3>1
      <4> SUFFICES ASSUME NEW i \in 1..n PROVE seen[i] = asked[i]
        OBVIOUS
      <4>3. n \in Nat /\ SubSeq(seen, 1, n) = SubSeq(asked, 1, n)
        BY <3>1
      <4> HIDE DEF n, seen, asked
      <4>4. i \in 1..n - 1 + 1 /\ 1 + i - 1 = i
        BY <4>3
      <4>5. \A j \in 1..n - 1 + 1 : SubSeq(seen, 1, n)[j] = seen[1 + j - 1]
        BY <4>1, <4>2, SubSeqProperties
      <4>6. \A j \in 1..n - 1 + 1 : SubSeq(asked, 1, n)[j] = asked[1 + j - 1]
        BY <4>1, <4>2, SubSeqProperties
      <4> QED
        BY <4>3, <4>4, <4>5, <4>6
    <3>3. IsInjective(seen)
      <4>1. \A i, j \in 1..Len(seen) : i \in 1..Len(asked) /\ j \in 1..Len(asked)
        BY <3>1
      <4> HIDE DEF seen, asked
      <4> QED
        BY <2>1, <3>1, <3>2, <4>1 DEF IsInjective, seen, asked
    <3> QED
      BY <2>3, <3>3
  <2> QED
    BY <2>1, <2>2, <2>3
<1> QED
  BY <1>1, <1>2

(* A behaviour of a collection, which the other parts may leave alone.     *)
TableSpec == (TableInit \/ TableIdle) /\ [][TableNext]_tableVars

(* Whatever is put, replaced, removed or collected, in any order and for   *)
(* any keys and hashes, a lookup under any equal key finds what should be  *)
(* there, in one entry, and the count is that of the entries; a walk sees  *)
(* each element once whatever its callbacks change (Dictionary.c:299,      *)
(* Set.c:401, IdentityDictionary.c:898).                                   *)
THEOREM TablesAreMaps == TableSpec => [](TableIsMap /\ WalksSeeOnce)
<1>1. TableInit \/ TableIdle => TableInv
  BY TableInitInv
<1>2. TableInv /\ [TableNext]_tableVars => TableInv'
  BY TableStepInv
<1>3. TableInv => TableIsMap /\ WalksSeeOnce
  BY TableInvSafe
<1> QED
  BY <1>1, <1>2, <1>3, PTL DEF TableSpec

-----------------------------------------------------------------------------
(* The run of MCSharedState: the parts it joins are those above.           *)

allVars == <<part, closureVars, packageVars, dictionaryVars,
             tableVars, loaderVars, fileVars, optionVars, driver>>

(* A step of the run is a step of one part and leaves the others alone, so *)
(* a behaviour of the run is one of every part.                            *)
THEOREM PartsRunAlone ==
  Spec => ClosureSpec /\ PackageSpec /\ DictionarySpec /\ TableSpec /\ LoaderSpec /\ FileSpec
<1>1. Init => /\ ClosureInit /\ PackageInit /\ DictionaryInit /\ LoaderInit /\ FileInit
              /\ TableInit \/ TableIdle
  BY DEF Init
<1>2. [Next]_allVars => /\ [ClosureNext]_closureVars /\ [PackageNext]_packageVars
                        /\ [DictionaryNext]_dictionaryVars /\ [TableNext]_tableVars
                        /\ [LoaderNext]_loaderVars /\ [FileNext]_fileVars
  BY DEF Next, allVars
<1> QED
  BY <1>1, <1>2, PTL
     DEF Spec, allVars, ClosureSpec, PackageSpec, DictionarySpec, TableSpec, LoaderSpec, FileSpec

(* In the run an application answers a current value, symbols keep their   *)
(* names, an iteration answers once what stays, a module is loaded once, a *)
(* table is the map it should be and a file is old or new, whatever part   *)
(* the behaviour runs.                                                     *)
THEOREM PartsKeepTheirPromises ==
  Spec => [](AnswersAreCurrent /\ SymbolsSound /\ OnceEach /\ FileIsOldOrNew)
<1>1. StayersVisitedOnce /\ LoadedOnce /\ TableIsMap /\ WalksSeeOnce => OnceEach
  BY DEF OnceEach
<1> QED
  BY <1>1, PartsRunAlone, AnswersStayCurrent, SymbolsStaySound, StayersAreVisitedOnce, ModulesLoadOnce,
     TablesAreMaps, FileWriterSafe, PTL

(* What the parts keep is of its type in the run too.                      *)
THEOREM PartsKeepTheirTypes == Spec => []SharedStateTypeOK
<1>1. ClosureTypeOK /\ PackageTypeOK /\ DictionaryTypeOK /\ LoaderTypeOK /\ FileTypeOK => SharedStateTypeOK
  BY DEF SharedStateTypeOK
<1> QED
  BY <1>1, PartsRunAlone, ClosureTypes, PackageTypes, DictionaryTypes, LoaderTypes, FileTypes, PTL
=============================================================================
