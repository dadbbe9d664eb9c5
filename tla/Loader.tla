------------------------------- MODULE Loader -------------------------------
(***************************************************************************)
(* src/src/vm/loader.c, the require and provide macros of                  *)
(* src/runtime/init.lt: threads that require modules whose bodies provide  *)
(* themselves, require others, and may throw.  The list of provided        *)
(* modules is a variable that is read, consed onto and set.                *)
(***************************************************************************)
EXTENDS Naturals, Sequences, SequencesExt

CONSTANTS Requirers, Modules,
          Body,        \* per module, its forms: "provide" or a module to require
          NativeCode,  \* modules of compiled code, not read form by form
          MaxRequires  \* bound: top-level calls of require in a behaviour

Forms == Modules \cup {"provide"}

(* A module provides itself before it requires another (modules/sxml.lt:5, *)
(* tests/fixtures/test-module-foo.lt:1); native code requires nothing.     *)
ASSUME BodyAssumption ==
  /\ "provide" \notin Modules /\ "none" \notin Modules
  /\ Body \in [Modules -> Seq(Forms)]
  /\ \A m \in Modules : Body[m] # <<>> /\ Body[m][1] = "provide"
ASSUME MaxRequiresAssumption == MaxRequires \in Nat

VARIABLES
  provided,  \* %modules, the latest first
  loading,   \* per thread, the loads in progress, the innermost last
  loads,     \* history: how often each module's load was begun
  again,     \* history: how often a race or a throw cost a module its load
  requires

loaderVars == <<provided, loading, loads, again, requires>>

(* A load in progress: the form it is at, and the list a provide has made. *)
Frames == [module : Modules, at : Nat \ {0}, list : Seq(Modules)]

LoaderTypeOK ==
  /\ provided \in Seq(Modules) /\ IsInjective(provided)
  /\ loading \in [Requirers -> Seq(Frames)]
  /\ loads \in [Modules -> Nat]
  /\ again \in [Modules -> Nat]
  /\ requires \in 0..MaxRequires

LoaderInit ==
  /\ provided = <<>>
  /\ loading = [t \in Requirers |-> <<>>]
  /\ loads = [m \in Modules |-> 0]
  /\ again = [m \in Modules |-> 0]
  /\ requires = 0

Inner(t) == Last(loading[t])
(* The form a thread evaluates, "none" after the last. *)
Form(t) == IF loading[t] = <<>> \/ Inner(t).at > Len(Body[Inner(t).module])
           THEN "none" ELSE Body[Inner(t).module][Inner(t).at]
InFrame(t, frame) == loading' = [loading EXCEPT ![t] = Append(Front(@), frame)]
NextForm(t) == InFrame(t, [Inner(t) EXCEPT !.at = @ + 1, !.list = <<>>])
(* A load whose first form, which provides the module, is not done.        *)
AtProvide(t, m) ==
  \E i \in DOMAIN loading[t] : loading[t][i].module = m /\ loading[t][i].at = 1
(* What each module of a set has lost a load to. *)
Charge(lost) ==
  again' = [m \in Modules |-> IF m \in lost THEN again[m] + 1 ELSE again[m]]

(* LT_loader_load: the body is run form by form in a new frame. *)
BeginLoad(t, m) ==
  /\ loading' = [loading EXCEPT ![t] = Append(@, [module |-> m, at |-> 1, list |-> <<>>])]
  /\ loads' = [loads EXCEPT ![m] = @ + 1]
  /\ Charge({n \in {m} : \E u \in Requirers \ {t} : AtProvide(u, n)})

(* LT_loader_require_with_resolvers asks module_provided_p, then loads. *)
RequireModule(t, m) ==
  /\ loading[t] = <<>> /\ requires < MaxRequires
  /\ requires' = requires + 1
  /\ IF m \in ToSet(provided) THEN UNCHANGED <<loading, loads, again>>
     ELSE BeginLoad(t, m)
  /\ UNCHANGED provided

RequireForm(t) ==
  /\ Form(t) \in Modules
  /\ IF Form(t) \in ToSet(provided) THEN NextForm(t) /\ UNCHANGED <<loads, again>>
     ELSE BeginLoad(t, Form(t))
  /\ UNCHANGED <<provided, requires>>

(* Mutant of ProvideRead: a module that is on the list is put on it again. *)
ProvideReadUnchecked(t) ==
  LET m == Inner(t).module IN
  /\ Form(t) = "provide" /\ Inner(t).list = <<>>
  /\ InFrame(t, [Inner(t) EXCEPT !.list = <<m>> \o provided])
  /\ UNCHANGED <<provided, loads, again, requires>>

(* provide, first half: the list is read and, unless the module is on it,  *)
(* a longer one is made.                                                   *)
ProvideRead(t) ==
  LET m == Inner(t).module IN
  /\ Form(t) = "provide" /\ Inner(t).list = <<>>
  /\ IF m \in ToSet(provided) THEN NextForm(t)
     ELSE InFrame(t, [Inner(t) EXCEPT !.list = <<m>> \o provided])
  /\ UNCHANGED <<provided, loads, again, requires>>

(* The variable is set to it, whatever it holds by now. *)
ProvideWrite(t) ==
  LET list == Inner(t).list IN
  /\ Form(t) = "provide" /\ list # <<>>
  /\ provided' = list
  /\ NextForm(t)
  /\ Charge(ToSet(provided) \ ToSet(list))
  /\ UNCHANGED <<loads, requires>>

(* The end of LT_loader_load_file, then of the require form of the frame   *)
(* below.                                                                  *)
EndLoad(t) ==
  /\ loading[t] # <<>> /\ Form(t) = "none"
  /\ LET below == Front(loading[t]) IN
     loading' = [loading EXCEPT ![t] =
                   IF below = <<>> THEN <<>>
                   ELSE Append(Front(below), [Last(below) EXCEPT !.at = @ + 1])]
  /\ UNCHANGED <<provided, loads, again, requires>>

(* A form throws to the top level; what was provided stays provided. *)
FormThrows(t) ==
  /\ loading[t] # <<>> /\ Inner(t).module \notin NativeCode
  /\ Charge({m \in Modules : AtProvide(t, m)} \ ToSet(provided))
  /\ loading' = [loading EXCEPT ![t] = <<>>]
  /\ UNCHANGED <<provided, loads, requires>>

LoaderNext ==
  \E t \in Requirers :
    \/ \E m \in Modules : RequireModule(t, m)
    \/ RequireForm(t) \/ ProvideRead(t) \/ ProvideWrite(t) \/ EndLoad(t)
    \/ FormThrows(t)

LoaderSpec == LoaderInit /\ [][LoaderNext]_loaderVars

(* A module is loaded once however many modules and threads require it,    *)
(* in a cycle too.  Three things load it again (loader.c:322, 369): a      *)
(* second thread finds it missing before it is provided, another thread's  *)
(* provide overwrites the list it was just added to, or its body throws    *)
(* before it provides.  Each costs one load and no more.                   *)
LoadedOnce == \A m \in Modules : loads[m] <= 1 + again[m]
==========================================================================
