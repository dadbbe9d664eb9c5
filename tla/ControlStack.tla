---------------------------- MODULE ControlStack ----------------------------
(* Non-local control of one ListTalk thread: catch, throw, unwind-protect,  *)
(* handler-bind, restart-bind, correctable errors, the debugger hook and    *)
(* the tail calls of LT_apply (vm/throw_catch.c, vm/conditions.c,           *)
(* vm/error.c, vm/eval.c, vm/base_env/special_forms.c).                     *)
(*                                                                          *)
(* The C stack is a sequence of activations, the newest last.  The thread   *)
(* state keeps four chains of frames that live in those activations.  Each  *)
(* chain is linked from the newest frame to the oldest, so it is modelled   *)
(* by the set of the activations that hold its frames, and "previous" by    *)
(* the set a frame found when it was linked.                                *)
EXTENDS Naturals, Sequences

CONSTANTS Tags,             \* tags of the program's catch and throw forms
          Names,            \* names of the program's restarts
          CONTINUE,         \* name and tag of the restart of LT_cerror
          NONE,
          Interactive,      \* the driver installed a debugger hook
          BodiesEndInCall,  \* a body of catch, handler-bind or restart-bind
                            \* may end in a call, in tail position
          MaxDepth          \* bound: user code calls no deeper than this

ASSUME TagsAssumption == /\ CONTINUE \notin Tags \cup Names
                         /\ NONE \notin Tags \cup Names \cup {CONTINUE}
                         /\ Interactive \in BOOLEAN
                         /\ BodiesEndInCall \in BOOLEAN

VARIABLES stack,    \* the C stack
          ctx,      \* LT_ThreadState: the four chains and the debugger hook
          thrown,   \* the tag of an LT_throw under way, or NONE
          aborted   \* the process has called abort

vars == <<stack, ctx, thrown, aborted>>

(* Activations that hold a frame of throw_catch_stack.  Those of handler,   *)
(* restart and hook come from the unwind-protect inside their macros.       *)
FrameKinds == {"catch", "protect", "handler", "restart", "hook"}
Kinds == FrameKinds \cup {"apply", "signal", "error"}
AllTags == Tags \cup Names \cup {CONTINUE, NONE}

Contexts == [throws : SUBSET (Nat \ {0}), handlers : SUBSET (Nat \ {0}),
             restarts : SUBSET (Nat \ {0}), trace : SUBSET (Nat \ {0}),
             hook : BOOLEAN]

Activations == [kind : Kinds,
                tag : AllTags,                            \* or restart name, or thrown tag
                phase : {"body", "cleanup", "rethrow"},   \* of an unwind-protect
                todo : SUBSET (Nat \ {0}),                \* handlers LT_signal has to call
                entry : Contexts]                         \* the thread state it found

TypeOK == /\ stack \in Seq(Activations)
          /\ ctx \in Contexts
          /\ thrown \in AllTags
          /\ aborted \in BOOLEAN

Init == /\ stack = <<>>
        /\ ctx = [throws |-> {}, handlers |-> {}, restarts |-> {}, trace |-> {},
                  hook |-> Interactive]
        /\ thrown = NONE
        /\ aborted = FALSE

-----------------------------------------------------------------------------
Depth == Len(stack)
Top == stack[Depth]

(* Mistake: the oldest frame of a chain is taken for the newest. *)
NewestIsOldest(S) == CHOOSE i \in S : \A j \in S : i <= j

(* The head of a chain. *)
Newest(S) == CHOOSE i \in S : \A j \in S : j <= i

Activation(k, x, todo, c) ==
  [kind |-> k, tag |-> x, phase |-> "body", todo |-> todo, entry |-> c]

(* The thread state after an activation of kind k at depth n has linked its *)
(* frames. *)
Linked(c, k, n) ==
  [throws   |-> IF k \in FrameKinds THEN c.throws \cup {n} ELSE c.throws,
   handlers |-> IF k = "handler" THEN c.handlers \cup {n} ELSE c.handlers,
   restarts |-> IF k = "restart" THEN c.restarts \cup {n} ELSE c.restarts,
   trace    |-> IF k = "apply" THEN c.trace \cup {n} ELSE c.trace,
   hook     |-> c.hook /\ k # "hook"]

Push(k, x) == /\ stack' = Append(stack, Activation(k, x, {}, ctx))
              /\ ctx' = Linked(ctx, k, Depth + 1)

(* LT_signal_error, LT_signal: their loop over the handlers begins. *)
PushSignal(k) == /\ stack' = Append(stack, Activation(k, NONE, ctx.handlers, ctx))
                 /\ UNCHANGED ctx

(* Mistake: LT_HANDLER_BIND forgets to unlink its handler when it is left   *)
(* by a throw or by its end. *)
UnlinkedKeepsHandler(a) ==
  [ctx EXCEPT !.throws   = a.entry.throws,
              !.restarts = IF a.kind = "restart" THEN a.entry.restarts ELSE @,
              !.hook     = IF a.kind = "hook" THEN a.entry.hook ELSE @]

(* The thread state when the frame of activation a is unlinked, and the     *)
(* cleanup of its macro has restored what the macro had bound. *)
Unlinked(a) ==
  [ctx EXCEPT !.throws   = a.entry.throws,
              !.handlers = IF a.kind = "handler" THEN a.entry.handlers ELSE @,
              !.restarts = IF a.kind = "restart" THEN a.entry.restarts ELSE @,
              !.hook     = IF a.kind = "hook" THEN a.entry.hook ELSE @]

Below(n) == SubSeq(stack, 1, n - 1)

(* Every frame of the chains is in an activation that still exists.  What   *)
(* the program does after it lost one is undefined and not followed.        *)
FramesLive ==
  \A i \in ctx.throws \cup ctx.handlers \cup ctx.restarts \cup ctx.trace : i <= Depth

Steps == ~aborted /\ FramesLive

(* Program code is running in the newest activation, or at top level. *)
Running == /\ Steps
           /\ thrown = NONE
           /\ stack # <<>> => Top.kind \in {"apply", "catch", "protect", "handler", "restart"}

Room == Depth < MaxDepth

-----------------------------------------------------------------------------
(* What program code may do next. *)

(* A call not in tail position, also of a queued signal. *)
Call == Running /\ Room /\ Push("apply", NONE) /\ UNCHANGED <<thrown, aborted>>

Catch(t) == Running /\ Room /\ Push("catch", t) /\ UNCHANGED <<thrown, aborted>>

UnwindProtect == Running /\ Room /\ Push("protect", NONE) /\ UNCHANGED <<thrown, aborted>>

HandlerBind == Running /\ Room /\ Push("handler", NONE) /\ UNCHANGED <<thrown, aborted>>

RestartBind(n) == Running /\ Room /\ Push("restart", n) /\ UNCHANGED <<thrown, aborted>>

Signal == Running /\ Room /\ PushSignal("signal") /\ UNCHANGED <<thrown, aborted>>

Error == Running /\ Room /\ PushSignal("error") /\ UNCHANGED <<thrown, aborted>>

(* LT_cerror: a catch and a restart of the shared tag around the error. *)
CError ==
  LET c1 == Linked(ctx, "catch", Depth + 1)
      c2 == Linked(c1, "restart", Depth + 2)
  IN /\ Running /\ Room
     /\ stack' = Append(Append(Append(stack,
                   Activation("catch", CONTINUE, {}, ctx)),
                   Activation("restart", CONTINUE, {}, c1)),
                   Activation("error", NONE, ctx.handlers, c2))
     /\ ctx' = c2
     /\ UNCHANGED <<thrown, aborted>>

(* Mistake: an unwind-protect frame counts as a target of any tag. *)
CatchesForAny(t) == {i \in ctx.throws : stack[i].kind # "catch" \/ stack[i].tag = t}

CatchesFor(t) == {i \in ctx.throws : stack[i].kind = "catch" /\ stack[i].tag = t}

Throw(t) == /\ Running
            /\ CatchesFor(t) # {} \/ Room
            /\ thrown' = t
            /\ UNCHANGED <<stack, ctx, aborted>>

(* LT_invoke_restart, and the debugger's choice of an active restart: the   *)
(* callable of the program's restarts is program code, that of LT_cerror    *)
(* throws to the shared tag. *)
InvokeRestart(n) ==
  LET found == {i \in ctx.restarts : stack[i].tag = n} IN
  /\ Running /\ Room
  /\ \/ /\ found = {}
        /\ PushSignal("error")
        /\ UNCHANGED thrown
     \/ /\ found # {}
        /\ Push("apply", NONE)
        /\ thrown' = IF n = CONTINUE THEN CONTINUE ELSE NONE
  /\ UNCHANGED aborted

(* The special forms that evaluate their body with the marker of the        *)
(* trampoline around them. *)
KeepsMarker == {"catch", "handler", "restart"}

(* LT_apply with a marker: the program jumps back to the trampoline of the  *)
(* newest apply, which calls the new callable.  Only the stack trace is     *)
(* restored. *)
TailCall ==
  /\ Running
  /\ \E i \in 1..Depth :
       /\ stack[i].kind = "apply"
       /\ \A j \in (i + 1)..Depth : BodiesEndInCall /\ stack[j].kind \in KeepsMarker
       /\ stack' = SubSeq(stack, 1, i)
       /\ ctx' = [ctx EXCEPT !.trace = stack[i].entry.trace \cup {i}]
  /\ UNCHANGED <<thrown, aborted>>

-----------------------------------------------------------------------------
(* How activations end. *)

(* LT_stack_trace_pop unlinks the frame if it is the newest. *)
ApplyReturns ==
  /\ Running /\ stack # <<>> /\ Top.kind = "apply"
  /\ stack' = Below(Depth)
  /\ ctx' = [ctx EXCEPT !.trace = IF @ # {} /\ Newest(@) = Depth
                                  THEN Top.entry.trace ELSE @]
  /\ UNCHANGED <<thrown, aborted>>

BodyEnds ==
  /\ Running /\ stack # <<>> /\ Top.kind \in {"catch", "handler", "restart"}
  /\ stack' = Below(Depth)
  /\ ctx' = Unlinked(Top)
  /\ UNCHANGED <<thrown, aborted>>

(* The cleanup forms run when the frame is unlinked. *)
ProtectedEnds ==
  /\ Running /\ stack # <<>> /\ Top.kind = "protect" /\ Top.phase = "body"
  /\ stack' = Append(Below(Depth), [Top EXCEPT !.phase = "cleanup"])
  /\ ctx' = Unlinked(Top)
  /\ UNCHANGED <<thrown, aborted>>

CleanupEnds ==
  /\ Running /\ stack # <<>> /\ Top.kind = "protect" /\ Top.phase # "body"
  /\ stack' = Below(Depth)
  /\ thrown' = IF Top.phase = "rethrow" THEN Top.tag ELSE NONE
  /\ UNCHANGED <<ctx, aborted>>

-----------------------------------------------------------------------------
(* LT_throw.  It looks for a catch of the tag first, and without one it     *)
(* signals an error. *)
UncaughtThrow == /\ Steps /\ thrown # NONE /\ CatchesFor(thrown) = {}
                 /\ PushSignal("error")
                 /\ thrown' = NONE
                 /\ UNCHANGED aborted

(* siglongjmp to frame f.  A frame of a macro restores its binding and      *)
(* throws again, a frame of the program's unwind-protect runs its cleanup   *)
(* first. *)
JumpTo(f) ==
  LET a == stack[f] IN
  /\ \/ /\ a.kind = "protect"
        /\ stack' = Append(Below(f), [a EXCEPT !.phase = "rethrow", !.tag = thrown])
        /\ thrown' = NONE
     \/ /\ a.kind = "catch"
        /\ stack' = Below(f)
        /\ thrown' = NONE
     \/ /\ a.kind \in {"handler", "restart", "hook"}
        /\ stack' = Below(f)
        /\ UNCHANGED thrown
  /\ ctx' = [Unlinked(a) EXCEPT !.trace = a.entry.trace]
  /\ UNCHANGED aborted

(* Mistake: the jump goes straight to the catch. *)
LongJumpToCatch == /\ Steps /\ thrown # NONE /\ CatchesFor(thrown) # {}
                   /\ JumpTo(Newest(CatchesFor(thrown)))

(* The newest frame that is an unwind-protect or catches the tag. *)
LongJump ==
  /\ Steps /\ thrown # NONE /\ CatchesFor(thrown) # {}
  /\ JumpTo(Newest({i \in ctx.throws : stack[i].kind # "catch"} \cup CatchesFor(thrown)))

-----------------------------------------------------------------------------
(* LT_signal calls the handlers from the newest to the oldest, each with    *)
(* all of them still in force. *)
CallHandler ==
  LET h == Newest(Top.todo) IN
  /\ Steps /\ thrown = NONE
  /\ stack # <<>> /\ Top.todo # {}
  /\ stack' = Append(Append(Below(Depth), [Top EXCEPT !.todo = @ \ {h}]),
                     Activation("apply", NONE, {}, ctx))
  /\ ctx' = Linked(ctx, "apply", Depth + 1)
  /\ UNCHANGED <<thrown, aborted>>

SignalReturns == /\ Steps /\ thrown = NONE
                 /\ stack # <<>> /\ Top.kind = "signal" /\ Top.todo = {}
                 /\ stack' = Below(Depth)
                 /\ UNCHANGED <<ctx, thrown, aborted>>

(* LT_invoke_debugger: the hook is off while it runs. *)
EnterDebugger ==
  LET c1 == Linked(ctx, "hook", Depth + 1) IN
  /\ Steps /\ thrown = NONE
  /\ stack # <<>> /\ Top.kind = "error" /\ Top.todo = {} /\ ctx.hook
  /\ stack' = Append(Append(stack, Activation("hook", NONE, {}, ctx)),
                     Activation("apply", NONE, {}, c1))
  /\ ctx' = Linked(c1, "apply", Depth + 2)
  /\ UNCHANGED <<thrown, aborted>>

(* An error that nobody handled ends the process, after the debugger if     *)
(* there is a hook. *)
Abort == /\ Steps /\ thrown = NONE
         /\ stack # <<>>
         /\ \/ Top.kind = "error" /\ Top.todo = {} /\ ~ctx.hook
            \/ Top.kind = "hook"
         /\ aborted' = TRUE
         /\ UNCHANGED <<stack, ctx, thrown>>

-----------------------------------------------------------------------------
Program == \/ Call \/ UnwindProtect \/ HandlerBind \/ Signal \/ Error \/ CError
           \/ \E t \in Tags : Catch(t) \/ Throw(t)
           \/ \E n \in Names : RestartBind(n)
           \/ \E n \in Names \cup {CONTINUE} : InvokeRestart(n)
           \/ TailCall

Machine == \/ ApplyReturns \/ BodyEnds \/ ProtectedEnds \/ CleanupEnds
           \/ UncaughtThrow \/ LongJump
           \/ CallHandler \/ SignalReturns \/ EnterDebugger \/ Abort

Ended == aborted /\ UNCHANGED vars

Next == Program \/ Machine \/ Ended

Spec == Init /\ [][Next]_vars

-----------------------------------------------------------------------------
(* The activations of stack s up to depth n whose frames should be linked. *)
Live(s, K, n) == {i \in 1..n : s[i].kind \in K /\ s[i].phase = "body"}

Extent(s, n) == [throws   |-> Live(s, FrameKinds, n),
                 handlers |-> Live(s, {"handler"}, n),
                 restarts |-> Live(s, {"restart"}, n),
                 trace    |-> Live(s, {"apply"}, n),
                 hook     |-> Interactive /\ Live(s, {"hook"}, n) = {}]

(* However control leaves a body, by its end, by a throw or through a       *)
(* debugger, the chains and the hook are those of the activations that are  *)
(* still there, and every frame remembers what was linked below it. *)
ChainsExact == /\ ctx = Extent(stack, Depth)
               /\ \A i \in 1..Depth : stack[i].entry = Extent(stack, i - 1)

PhaseInv == \A i \in 1..Depth : /\ stack[i].phase # "body" => stack[i].kind = "protect"
                                /\ stack[i].todo # {} => stack[i].kind \in {"signal", "error"}
                                /\ stack[i].todo \subseteq stack[i].entry.handlers

(* A throw that stopped for a cleanup still has its catch below, so that    *)
(* the rethrow cannot end as "Uncaught throw". *)
RethrowFindsTarget ==
  \A i \in 1..Depth : stack[i].phase = "rethrow" =>
    \E j \in 1..(i - 1) : stack[j].kind = "catch" /\ stack[j].tag = stack[i].tag

IInv == TypeOK /\ PhaseInv /\ ChainsExact /\ RethrowFindsTarget

(* "Always run cleanup forms": a protected form is never left, by whatever  *)
(* number of throws, tail calls and handlers in between, but into its       *)
(* cleanup. *)
CleanupsRun ==
  [][\A i \in 1..Depth : stack[i].kind = "protect" /\ stack[i].phase = "body" =>
       /\ Len(stack') >= i
       /\ stack'[i] # stack[i] => Len(stack') = i /\ stack'[i].phase # "body"]_vars

(* A throw never unwinds past the nearest catch of its tag, and it is over  *)
(* when it gets there. *)
NearestCatchTakesThrow ==
  [][\A i \in 1..Depth : stack[i].kind = "catch" /\ stack[i].tag = thrown =>
       /\ Len(stack') >= i - 1
       /\ Len(stack') = i - 1 => thrown' = NONE]_vars

(* "Bind condition handler during dynamic extent of body": no handler is in *)
(* force whose handler-bind form has been left. *)
HandlersEndWithBody ==
  \A i \in ctx.handlers : i <= Depth /\ stack[i].kind = "handler"

=============================================================================
