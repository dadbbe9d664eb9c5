------------------------- MODULE ControlStack_proofs -------------------------
(* The control stack of ControlStack is kept in order at any depth and for  *)
(* any tags and restarts, as long as no body of catch, handler-bind or      *)
(* restart-bind ends in a call.  The argument: what the chains should be,   *)
(* Extent, depends only on the kind and phase of the activations below, an  *)
(* activation that is pushed extends it by its own frames, and a jump to    *)
(* the newest frame that matters finds no other binding above it.           *)
EXTENDS ControlStack, TLAPS, WellFoundedInduction

(* Bodies of catch, handler-bind and restart-bind do not end in a call.     *)
NoTailCalls == BodiesEndInCall = FALSE

(* A chain with a frame has a newest one. *)
LEMMA HasNewest ==
  ASSUME NEW n \in Nat, NEW S \in SUBSET (1..n), S # {}
  PROVE  Newest(S) \in S /\ \A j \in S : j <= Newest(S)
<1> DEFINE T == {n - i : i \in S}
<1>0. \A i \in S : i \in Nat /\ n - i \in Nat
  OBVIOUS
<1>1. T \subseteq Nat /\ T # {}
  <2>1. T \subseteq Nat
    BY <1>0
  <2>2. PICK i \in S : TRUE
    OBVIOUS
  <2>3. n - i \in T
    BY <2>2
  <2> QED BY <2>1, <2>3
<1>2. \E x \in T : \A y \in T : ~ (<<y, x>> \in OpToRel(<, Nat))
  <2> HIDE DEF T
  <2> QED BY <1>1, NatLessThanWellFounded, WFMin
<1>3. PICK x \in T : \A y \in T : ~ (<<y, x>> \in OpToRel(<, Nat))
  BY <1>2
<1>4. \A y \in T : ~(y < x)
  <2> HIDE DEF T
  <2> QED BY <1>1, <1>3 DEF OpToRel
<1>5. PICK i \in S : x = n - i
  BY <1>3
<1>6. ASSUME NEW j \in S PROVE j <= i
  <2>1. ~(n - j < n - i)
    BY <1>4, <1>5
  <2> QED BY <2>1, <1>0
<1>7. \E k \in S : \A j \in S : j <= k
  BY <1>5, <1>6
<1> QED BY <1>7 DEF Newest

(* What should be linked below a depth depends on the kinds and phases of   *)
(* the activations there alone. *)
LEMMA ExtentBelow ==
  ASSUME NEW s, NEW u, NEW n \in Nat,
         \A i \in 1..n : u[i].kind = s[i].kind /\ u[i].phase = s[i].phase
  PROVE  Extent(u, n) = Extent(s, n)
<1>1. ASSUME NEW K PROVE Live(u, K, n) = Live(s, K, n)
  BY DEF Live
<1> QED BY <1>1 DEF Extent

(* An activation in its body extends what is linked below it by its own     *)
(* frames. *)
LEMMA ExtentStep ==
  ASSUME NEW s, NEW n \in Nat, s[n + 1].phase = "body"
  PROVE  Extent(s, n + 1) = Linked(Extent(s, n), s[n + 1].kind, n + 1)
<1> DEFINE k == s[n + 1].kind
           L(K) == Live(s, K, n)
<1>1. ASSUME NEW K PROVE Live(s, K, n + 1) = IF k \in K THEN L(K) \cup {n + 1} ELSE L(K)
  BY DEF Live
<1>2. Live(s, FrameKinds, n + 1) = IF k \in FrameKinds THEN L(FrameKinds) \cup {n + 1} ELSE L(FrameKinds)
  BY <1>1
<1>3. Live(s, {"handler"}, n + 1) = IF k = "handler" THEN L({"handler"}) \cup {n + 1} ELSE L({"handler"})
  BY <1>1
<1>4. Live(s, {"restart"}, n + 1) = IF k = "restart" THEN L({"restart"}) \cup {n + 1} ELSE L({"restart"})
  BY <1>1
<1>5. Live(s, {"apply"}, n + 1) = IF k = "apply" THEN L({"apply"}) \cup {n + 1} ELSE L({"apply"})
  BY <1>1
<1>6. (Live(s, {"hook"}, n + 1) = {}) = (L({"hook"}) = {} /\ k # "hook")
  BY <1>1
<1> HIDE DEF k
<1> QED BY <1>2, <1>3, <1>4, <1>5, <1>6 DEF Extent, Linked, k

(* An activation whose frame is unlinked adds nothing. *)
LEMMA ExtentSkip ==
  ASSUME NEW s, NEW n \in Nat, s[n + 1].phase # "body"
  PROVE  Extent(s, n + 1) = Extent(s, n)
<1>1. ASSUME NEW K PROVE Live(s, K, n + 1) = Live(s, K, n)
  BY DEF Live
<1> QED BY <1>1 DEF Extent

(* The chains that should be are a thread state. *)
LEMMA ExtentType == ASSUME NEW s, NEW n \in Nat PROVE Extent(s, n) \in Contexts
BY TagsAssumption DEF Extent, Live, Contexts

-----------------------------------------------------------------------------
(* The invariant of a stack s with a thread state c. *)
RethrowTargets(s) ==
  \A i \in 1..Len(s) : s[i].phase = "rethrow" =>
    \E j \in 1..(i - 1) : s[j].kind = "catch" /\ s[j].tag = s[i].tag

PhasesOK(s) ==
  \A i \in 1..Len(s) :
    /\ s[i].phase # "body" => s[i].kind = "protect"
    /\ s[i].todo # {} => s[i].kind \in {"signal", "error"}
    /\ s[i].todo \subseteq s[i].entry.handlers

EntriesOK(s) == \A i \in 1..Len(s) : s[i].entry = Extent(s, i - 1)

Good(s, c) == /\ s \in Seq(Activations)
              /\ c = Extent(s, Len(s))
              /\ PhasesOK(s) /\ EntriesOK(s) /\ RethrowTargets(s)

(* IInv says this of the stack of the program, and types of the rest. *)
LEMMA InvIsGood == IInv <=> Good(stack, ctx) /\ thrown \in AllTags /\ aborted \in BOOLEAN
<1>1. ASSUME Good(stack, ctx) PROVE ctx \in Contexts
  <2>1. Len(stack) \in Nat
    BY <1>1 DEF Good
  <2> QED BY <1>1, <2>1, ExtentType DEF Good
<1>2. PhaseInv <=> PhasesOK(stack)
  BY DEF PhaseInv, PhasesOK, Depth
<1>4. RethrowFindsTarget <=> RethrowTargets(stack)
  BY DEF RethrowFindsTarget, RethrowTargets, Depth
<1>3. ChainsExact <=> ctx = Extent(stack, Len(stack)) /\ EntriesOK(stack)
  BY DEF ChainsExact, EntriesOK, Depth
<1> QED BY <1>1, <1>2, <1>3, <1>4 DEF IInv, TypeOK, Good

(* Going back to an older depth keeps everything in order. *)
LEMMA CutGood ==
  ASSUME NEW s, NEW c, Good(s, c), NEW n \in 0..Len(s)
  PROVE  Good(SubSeq(s, 1, n), Extent(s, n))
<1> DEFINE u == SubSeq(s, 1, n)
<1>1. s \in Seq(Activations) /\ Len(s) \in Nat /\ n \in Nat
  BY DEF Good
<1>2. u \in Seq(Activations) /\ Len(u) = n /\ \A i \in 1..n : u[i] = s[i]
  BY <1>1
<1> HIDE DEF u
<1>3. ASSUME NEW i \in 0..n PROVE Extent(u, i) = Extent(s, i)
  BY <1>1, <1>2, ExtentBelow
<1>4. Extent(s, n) = Extent(u, Len(u))
  BY <1>2, <1>3
<1>5. PhasesOK(u)
  BY <1>1, <1>2 DEF Good, PhasesOK
<1>6. EntriesOK(u)
  <2> SUFFICES ASSUME NEW i \in 1..n PROVE u[i].entry = Extent(u, i - 1)
    BY <1>2 DEF EntriesOK
  <2>1. i - 1 \in 0..n /\ i \in 1..Len(s)
    BY <1>1
  <2> QED BY <2>1, <1>2, <1>3 DEF Good, EntriesOK
<1>7. RethrowTargets(u)
  BY <1>1, <1>2 DEF Good, RethrowTargets
<1> QED BY <1>2, <1>4, <1>5, <1>6, <1>7 DEF Good, u

(* A new activation that has linked its frames, if it is in its body, or    *)
(* whose frame is unlinked keeps everything in order. *)
LEMMA AppendGood ==
  ASSUME NEW s, NEW c, Good(s, c),
         NEW a \in Activations,
         a.entry = c,
         a.phase # "body" => a.kind = "protect",
         a.todo # {} => a.kind \in {"signal", "error"},
         a.todo \subseteq c.handlers,
         a.phase = "rethrow" =>
           \E j \in 1..Len(s) : s[j].kind = "catch" /\ s[j].tag = a.tag
  PROVE  Good(Append(s, a),
              IF a.phase = "body" THEN Linked(c, a.kind, Len(s) + 1) ELSE c)
<1> DEFINE u == Append(s, a)
           n == Len(s)
<1>1. s \in Seq(Activations) /\ n \in Nat
  BY DEF Good
<1>2. u \in Seq(Activations) /\ Len(u) = n + 1 /\ u[n + 1] = a /\ \A i \in 1..n : u[i] = s[i]
  BY <1>1
<1> HIDE DEF u, n
<1>3. ASSUME NEW i \in 0..n PROVE Extent(u, i) = Extent(s, i)
  BY <1>1, <1>2, ExtentBelow
<1>4. Extent(u, n) = c
  BY <1>1, <1>3 DEF Good, n
<1>5. Extent(u, n + 1) = IF a.phase = "body" THEN Linked(c, a.kind, n + 1) ELSE c
  BY <1>1, <1>2, <1>4, ExtentStep, ExtentSkip
<1>6. PhasesOK(u)
  BY <1>1, <1>2 DEF Good, PhasesOK, n
<1>7. EntriesOK(u)
  <2> SUFFICES ASSUME NEW i \in 1..(n + 1) PROVE u[i].entry = Extent(u, i - 1)
    BY <1>2 DEF EntriesOK
  <2>1. CASE i = n + 1
    BY <2>1, <1>1, <1>2, <1>4
  <2>2. CASE i \in 1..n
    <3>1. i - 1 \in 0..n
      BY <2>2, <1>1
    <3> QED BY <2>2, <3>1, <1>2, <1>3 DEF Good, EntriesOK, n
  <2> QED BY <2>1, <2>2, <1>1
<1>8. RethrowTargets(u)
  BY <1>1, <1>2 DEF Good, RethrowTargets, n
<1> QED BY <1>2, <1>5, <1>6, <1>7, <1>8 DEF Good, u, n

-----------------------------------------------------------------------------
(* A call, a form or an error that begins keeps the invariant. *)
LEMMA PushInv ==
  ASSUME IInv, NEW k \in Kinds, NEW x \in AllTags, Push(k, x)
  PROVE  Good(stack, ctx)'
<1> DEFINE a == Activation(k, x, {}, ctx)
<1>1. Good(stack, ctx) /\ ctx \in Contexts
  BY InvIsGood DEF IInv, TypeOK
<1>2. /\ a \in Activations /\ a.entry = ctx /\ a.phase = "body" /\ a.todo = {} /\ a.kind = k
  BY <1>1 DEF Activation, Activations
<1> HIDE DEF a
<1>3. Good(Append(stack, a), Linked(ctx, k, Len(stack) + 1))
  BY <1>1, <1>2, AppendGood
<1> QED BY <1>3 DEF Push, Depth, a

(* A signal that begins keeps the invariant. *)
LEMMA PushSignalInv ==
  ASSUME IInv, NEW k \in {"signal", "error"}, PushSignal(k)
  PROVE  Good(stack, ctx)'
<1> DEFINE a == Activation(k, NONE, ctx.handlers, ctx)
<1>1. Good(stack, ctx) /\ ctx \in Contexts
  BY InvIsGood DEF IInv, TypeOK
<1>2. /\ a \in Activations /\ a.entry = ctx /\ a.phase = "body"
      /\ a.todo = ctx.handlers /\ a.kind = k
  BY <1>1 DEF Activation, Activations, Contexts, Kinds, AllTags
<1>3. Linked(ctx, k, Len(stack) + 1) = ctx
  BY <1>1 DEF Linked, FrameKinds, Contexts
<1> HIDE DEF a
<1>4. Good(Append(stack, a), Linked(ctx, k, Len(stack) + 1))
  BY <1>1, <1>2, AppendGood
<1> QED BY <1>3, <1>4 DEF PushSignal, a

(* What the newest activation linked is what it unlinks. *)
LEMMA TopUnlinked ==
  ASSUME IInv, stack # <<>>
  PROVE  /\ Depth \in Nat \ {0} /\ Depth = Len(stack) /\ Top \in Activations
         /\ Top.entry = Extent(stack, Depth - 1)
         /\ Top.phase # "body" => ctx = Top.entry
         /\ Top.phase = "body" => ctx = Linked(Top.entry, Top.kind, Depth)
<1>1. Good(stack, ctx)
  BY InvIsGood
<1>2. Depth \in Nat \ {0} /\ Depth = Len(stack) /\ Top \in Activations
  BY <1>1 DEF Good, Depth, Top
<1>3. Top.entry = Extent(stack, Depth - 1) /\ ctx = Extent(stack, (Depth - 1) + 1)
  BY <1>1, <1>2 DEF Good, EntriesOK, Top
<1> QED BY <1>2, <1>3, ExtentStep, ExtentSkip DEF Top

(* Going back to below an activation keeps the invariant, if the thread     *)
(* state goes back to what it found. *)
LEMMA PopInv ==
  ASSUME IInv, NEW n \in 1..Depth
  PROVE  Good(Below(n), stack[n].entry)
<1>1. Good(stack, ctx) /\ Len(stack) \in Nat /\ n - 1 \in 0..Len(stack)
  BY InvIsGood DEF Good, Depth
<1>2. stack[n].entry = Extent(stack, n - 1)
  BY <1>1 DEF Good, EntriesOK, Depth
<1> QED BY <1>1, <1>2, CutGood DEF Below

(* The frame a throw jumps to restores the bindings of everything above it: *)
(* there is no handler, restart or hook between the two. *)
LEMMA JumpRestores ==
  ASSUME IInv, CatchesFor(thrown) # {},
         NEW f, f = Newest({i \in ctx.throws : stack[i].kind # "catch"} \cup CatchesFor(thrown))
  PROVE  /\ f \in 1..Depth /\ f \in ctx.throws
         /\ stack[f].phase = "body" /\ stack[f].kind \in FrameKinds
         /\ stack[f].kind = "catch" => stack[f].tag = thrown
         /\ \A i \in CatchesFor(thrown) : i <= f
         /\ \A i \in ctx.throws : stack[i].kind # "catch" => i <= f
         /\ [Unlinked(stack[f]) EXCEPT !.trace = stack[f].entry.trace] = stack[f].entry
<1> DEFINE S == {i \in ctx.throws : stack[i].kind # "catch"} \cup CatchesFor(thrown)
           a == stack[f]
<1>1. Good(stack, ctx) /\ Depth = Len(stack) /\ Depth \in Nat
  BY InvIsGood DEF Good, Depth
<1>2. ctx = Extent(stack, Depth)
  BY <1>1 DEF Good
<1>3. ctx.throws = {i \in 1..Depth : stack[i].kind \in FrameKinds /\ stack[i].phase = "body"}
  BY <1>2 DEF Extent, Live
<1>4. S \subseteq 1..Depth /\ S # {}
  BY <1>3 DEF CatchesFor
<1>5. f \in S /\ \A j \in S : j <= f
  <2> HIDE DEF S
  <2>1. Newest(S) \in S /\ \A j \in S : j <= Newest(S)
    BY <1>1, <1>4, HasNewest
  <2> QED BY <2>1 DEF S
<1>6. /\ f \in 1..Depth /\ f \in ctx.throws
      /\ a.phase = "body" /\ a.kind \in FrameKinds
      /\ a.kind = "catch" => a.tag = thrown
      /\ \A i \in CatchesFor(thrown) : i <= f
      /\ \A i \in ctx.throws : stack[i].kind # "catch" => i <= f
  BY <1>3, <1>5 DEF CatchesFor
<1>7. a.entry = Extent(stack, f - 1)
  BY <1>1, <1>6 DEF Good, EntriesOK
<1>8. ASSUME NEW K, K \in {{"handler"}, {"restart"}, {"hook"}}, a.kind \notin K
      PROVE  Live(stack, K, Depth) = Live(stack, K, f - 1)
  <2>1. ASSUME NEW i \in 1..Depth, stack[i].kind \in K, stack[i].phase = "body"
        PROVE  i \in 1..(f - 1)
    <3>1. i \in ctx.throws /\ stack[i].kind # "catch"
      BY <1>3, <1>8, <2>1 DEF FrameKinds
    <3>2. i <= f /\ i # f
      BY <3>1, <1>6, <1>8, <2>1
    <3> QED BY <3>2, <1>1, <1>6
  <2>2. \A i \in 1..(f - 1) : i \in 1..Depth
    <3>1. f \in Nat /\ f <= Depth
      BY <1>1, <1>6
    <3> HIDE DEF S, a
    <3> QED BY <3>1, <1>1
  <2> QED BY <2>1, <2>2 DEF Live
<1>9. a.kind # "handler" => ctx.handlers = a.entry.handlers
  BY <1>2, <1>7, <1>8 DEF Extent
<1>10. a.kind # "restart" => ctx.restarts = a.entry.restarts
  BY <1>2, <1>7, <1>8 DEF Extent
<1>11. a.kind # "hook" => ctx.hook = a.entry.hook
  <2>1. a.kind # "hook" => Live(stack, {"hook"}, Depth) = Live(stack, {"hook"}, f - 1)
    BY <1>8
  <2>2. /\ ctx.hook = (Interactive /\ Live(stack, {"hook"}, Depth) = {})
        /\ a.entry.hook = (Interactive /\ Live(stack, {"hook"}, f - 1) = {})
    BY <1>2, <1>7 DEF Extent
  <2> HIDE DEF a
  <2> QED BY <2>1, <2>2
<1>12. ctx \in Contexts /\ a.entry \in Contexts
  BY <1>1, <1>2, <1>6, <1>7, ExtentType
<1>13. [Unlinked(a) EXCEPT !.trace = a.entry.trace] = a.entry
  BY <1>9, <1>10, <1>11, <1>12 DEF Unlinked, Contexts
<1> QED BY <1>6, <1>13

-----------------------------------------------------------------------------
(* An error that gets a restart to continue keeps the invariant. *)
LEMMA CErrorInv == ASSUME IInv, CError PROVE Good(stack, ctx)'
<1> DEFINE n == Len(stack)
           c1 == Linked(ctx, "catch", n + 1)
           c2 == Linked(c1, "restart", n + 2)
           a1 == Activation("catch", CONTINUE, {}, ctx)
           a2 == Activation("restart", CONTINUE, {}, c1)
           a3 == Activation("error", NONE, ctx.handlers, c2)
<1>1. Good(stack, ctx) /\ ctx \in Contexts /\ n \in Nat /\ stack \in Seq(Activations)
  BY InvIsGood DEF IInv, TypeOK
<1>2. c1 \in Contexts /\ c2 \in Contexts /\ c2.handlers = ctx.handlers
  BY <1>1 DEF Linked, Contexts
<1>3. a1 \in Activations /\ a2 \in Activations /\ a3 \in Activations
  BY <1>1, <1>2 DEF Activation, Activations, Contexts, Kinds, FrameKinds, AllTags
<1>4. Good(Append(stack, a1), c1)
  BY <1>1, <1>3, AppendGood DEF Activation
<1>5. Len(Append(stack, a1)) = n + 1
  BY <1>1
<1>6. Good(Append(Append(stack, a1), a2), c2)
  <2> DEFINE s1 == Append(stack, a1)
  <2>1. a2.entry = c1 /\ a2.phase = "body" /\ a2.todo = {} /\ a2.kind = "restart"
    BY DEF Activation
  <2>2. (Len(s1) + 1) = n + 2
    BY <1>1, <1>5
  <2> HIDE DEF s1, a2, c1
  <2>3. Good(Append(s1, a2), Linked(c1, "restart", Len(s1) + 1))
    BY <1>3, <1>4, <2>1, AppendGood DEF s1
  <2> QED BY <2>2, <2>3 DEF s1, c1
<1>7. Linked(c2, "error", n + 3) = c2
  BY <1>2 DEF Linked, FrameKinds, Contexts
<1>8. Good(Append(Append(Append(stack, a1), a2), a3), c2)
  <2> DEFINE s2 == Append(Append(stack, a1), a2)
  <2>1. a3.entry = c2 /\ a3.phase = "body" /\ a3.todo = c2.handlers /\ a3.kind = "error"
    BY <1>2 DEF Activation
  <2>2. (Len(s2) + 1) = n + 3
    BY <1>1, <1>3, <1>5
  <2> HIDE DEF s2, a3, c2
  <2>3. Good(Append(s2, a3), Linked(c2, "error", Len(s2) + 1))
    BY <1>3, <1>6, <2>1, AppendGood DEF s2
  <2> QED BY <1>7, <2>2, <2>3 DEF s2, c2
<1> QED BY <1>8 DEF CError, Depth

(* The debugger begins with the hook off. *)
LEMMA EnterDebuggerInv == ASSUME IInv, EnterDebugger PROVE Good(stack, ctx)'
<1> DEFINE n == Len(stack)
           c1 == Linked(ctx, "hook", n + 1)
           a1 == Activation("hook", NONE, {}, ctx)
           a2 == Activation("apply", NONE, {}, c1)
<1>1. Good(stack, ctx) /\ ctx \in Contexts /\ n \in Nat /\ stack \in Seq(Activations)
  BY InvIsGood DEF IInv, TypeOK
<1>2. c1 \in Contexts
  BY <1>1 DEF Linked, Contexts
<1>3. a1 \in Activations /\ a2 \in Activations
  BY <1>1, <1>2 DEF Activation, Activations, Kinds, FrameKinds, AllTags
<1>4. Good(Append(stack, a1), c1)
  BY <1>1, <1>3, AppendGood DEF Activation
<1>5. Good(Append(Append(stack, a1), a2), Linked(c1, "apply", n + 2))
  <2> DEFINE s1 == Append(stack, a1)
  <2>1. a2.entry = c1 /\ a2.phase = "body" /\ a2.todo = {} /\ a2.kind = "apply"
    BY DEF Activation
  <2>2. (Len(s1) + 1) = n + 2
    BY <1>1
  <2> HIDE DEF s1, a2, c1
  <2>3. Good(Append(s1, a2), Linked(c1, "apply", Len(s1) + 1))
    BY <1>3, <1>4, <2>1, AppendGood DEF s1
  <2> QED BY <2>2, <2>3 DEF s1, c1
<1> QED BY <1>5 DEF EnterDebugger, Depth

(* A handler that is called finds the thread state of its signal. *)
LEMMA CallHandlerInv == ASSUME IInv, CallHandler PROVE Good(stack, ctx)'
<1> DEFINE h == Newest(Top.todo)
           a1 == [Top EXCEPT !.todo = @ \ {h}]
           a2 == Activation("apply", NONE, {}, ctx)
           s1 == Append(Below(Depth), a1)
<1>1. /\ Good(stack, ctx) /\ ctx \in Contexts /\ stack # <<>> /\ Top.todo # {}
      /\ stack \in Seq(Activations)
  BY InvIsGood DEF IInv, TypeOK, CallHandler
<1>2. /\ Depth \in Nat \ {0} /\ Depth = Len(stack) /\ Top \in Activations
      /\ Top.phase # "body" => ctx = Top.entry
      /\ Top.phase = "body" => ctx = Linked(Top.entry, Top.kind, Depth)
  BY <1>1, TopUnlinked
<1>3. /\ Top.phase = "body" /\ Top.kind \in {"signal", "error"}
      /\ Top.todo \subseteq Top.entry.handlers
  BY <1>1, <1>2 DEF Good, PhasesOK, Top
<1>4. Top.entry \in Contexts /\ ctx = Top.entry
  BY <1>2, <1>3 DEF Activations, Linked, Contexts, FrameKinds
<1>5. Good(Below(Depth), ctx) /\ Len(Below(Depth)) = Depth - 1
  BY <1>1, <1>2, <1>4, PopInv DEF Top, Below
<1>6. /\ a1 \in Activations /\ a1.entry = ctx /\ a1.phase = "body"
      /\ a1.todo \subseteq ctx.handlers /\ a1.kind = Top.kind
  <2> HIDE DEF h
  <2> QED BY <1>2, <1>3, <1>4 DEF Activations
<1>7. Good(s1, ctx) /\ Len(s1) = Depth
  <2>1. Linked(ctx, Top.kind, Len(Below(Depth)) + 1) = ctx
    BY <1>3, <1>4 DEF Linked, FrameKinds, Contexts
  <2>2. Good(s1, Linked(ctx, a1.kind, Len(Below(Depth)) + 1))
    <3> HIDE DEF a1
    <3> QED BY <1>3, <1>5, <1>6, AppendGood
  <2>3. Below(Depth) \in Seq(Activations)
    BY <1>5 DEF Good
  <2>4. Len(s1) = Depth
    BY <1>2, <1>5, <1>6, <2>3
  <2> HIDE DEF s1, a1
  <2> QED BY <1>6, <2>1, <2>2, <2>4
<1>8. /\ a2 \in Activations /\ a2.entry = ctx /\ a2.phase = "body" /\ a2.todo = {}
      /\ a2.kind = "apply"
  BY <1>1 DEF Activation, Activations, Kinds, AllTags
<1>9. Good(Append(s1, a2), Linked(ctx, "apply", Depth + 1))
  <2> HIDE DEF s1, a2
  <2> QED BY <1>7, <1>8, AppendGood
<1> QED BY <1>9 DEF CallHandler

-----------------------------------------------------------------------------
(* A body that ends unlinks exactly what its form has linked. *)
LEMMA TopRestored ==
  ASSUME IInv, stack # <<>>, Top.phase = "body", Top.kind \in FrameKinds
  PROVE  Unlinked(Top) = Top.entry
<1>1. ctx = Linked(Top.entry, Top.kind, Depth) /\ Top.entry \in Contexts
  BY TopUnlinked DEF Activations
<1>2. /\ Unlinked(Top).throws = Top.entry.throws
      /\ Unlinked(Top).handlers = Top.entry.handlers
      /\ Unlinked(Top).restarts = Top.entry.restarts
      /\ Unlinked(Top).trace = Top.entry.trace
  BY <1>1 DEF IInv, TypeOK, Unlinked, Linked, Contexts, FrameKinds
<1>3. Unlinked(Top).hook = Top.entry.hook
  <2>1. Top.kind # "hook" => ctx.hook = (Top.entry.hook /\ Top.kind # "hook")
    BY <1>1 DEF Linked
  <2>2. ctx.hook \in BOOLEAN /\ Top.entry.hook \in BOOLEAN
    BY <1>1 DEF IInv, TypeOK, Contexts
  <2>3. Unlinked(Top).hook = IF Top.kind = "hook" THEN Top.entry.hook ELSE ctx.hook
    BY DEF IInv, TypeOK, Unlinked, Contexts
  <2> QED BY <2>1, <2>2, <2>3
<1> QED BY <1>1, <1>2, <1>3 DEF IInv, TypeOK, Unlinked, Contexts

(* A call that returns unlinks its frame of the stack trace. *)
LEMMA ReturnsInv == ASSUME IInv, ApplyReturns PROVE Good(stack, ctx)'
<1>1. stack # <<>> /\ Top.kind = "apply"
  BY DEF ApplyReturns
<1>2. Depth \in Nat \ {0} /\ Depth \in 1..Depth
  BY <1>1, TopUnlinked
<1>3. ctx = Linked(Top.entry, "apply", Depth) /\ Top.entry \in Contexts
  BY <1>1, TopUnlinked DEF Activations, IInv, PhaseInv, Top
<1>4. ctx.trace = Top.entry.trace \cup {Depth} /\ ctx.trace \in SUBSET (1..Depth)
  <2>1. ctx.trace \in SUBSET (1..Depth)
    BY DEF IInv, ChainsExact, Extent, Live
  <2> QED BY <1>3, <2>1 DEF Linked
<1>5. Newest(ctx.trace) = Depth
  <2>1. \A j \in ctx.trace : j <= Newest(ctx.trace)
    BY <1>2, <1>4, HasNewest
  <2>2. Newest(ctx.trace) \in 1..Depth
    BY <1>2, <1>4, HasNewest
  <2>3. Depth <= Newest(ctx.trace)
    BY <1>4, <2>1
  <2> QED BY <1>2, <2>2, <2>3
<1>6. ctx' = [ctx EXCEPT !.trace = Top.entry.trace]
  <2>1. ctx.trace # {}
    BY <1>4
  <2>2. ctx' = [ctx EXCEPT !.trace = IF ctx.trace # {} /\ Newest(ctx.trace) = Depth
                                    THEN Top.entry.trace ELSE ctx.trace]
    BY DEF ApplyReturns
  <2> QED BY <1>5, <2>1, <2>2
<1>7. ctx' = Top.entry
  <2>1. ctx.hook = Top.entry.hook
    <3>1. ctx.hook = (Top.entry.hook /\ "apply" # "hook")
      BY <1>3 DEF Linked
    <3>2. Top.entry.hook \in BOOLEAN
      BY <1>3 DEF Contexts
    <3> QED BY <3>1, <3>2
  <2>2. /\ ctx.throws = Top.entry.throws /\ ctx.handlers = Top.entry.handlers
        /\ ctx.restarts = Top.entry.restarts
    BY <1>3 DEF Linked, FrameKinds
  <2> QED BY <1>3, <1>6, <2>1, <2>2 DEF IInv, TypeOK, Contexts
<1>8. Good(Below(Depth), Top.entry)
  BY <1>2, PopInv DEF Top
<1> QED BY <1>7, <1>8 DEF ApplyReturns

(* A body that ends keeps the invariant. *)
LEMMA BodyEndsInv == ASSUME IInv, BodyEnds PROVE Good(stack, ctx)'
<1>1. stack # <<>> /\ Top.kind \in FrameKinds \ {"protect"}
  BY DEF BodyEnds, FrameKinds
<1>2. Depth \in 1..Depth
  BY <1>1, TopUnlinked
<1>3. Top.phase = "body"
  BY <1>1, <1>2 DEF IInv, PhaseInv, Top
<1>4. Unlinked(Top) = Top.entry
  BY <1>1, <1>3, TopRestored
<1> QED BY <1>2, <1>4, PopInv DEF BodyEnds, Top

(* A protected body that ends leaves its activation to the cleanup. *)
LEMMA ProtectedEndsInv == ASSUME IInv, ProtectedEnds PROVE Good(stack, ctx)'
<1> DEFINE a == [Top EXCEPT !.phase = "cleanup"]
<1>1. stack # <<>> /\ Top.kind = "protect" /\ Top.phase = "body"
  BY DEF ProtectedEnds
<1>2. Depth \in 1..Depth /\ Top \in Activations
  BY <1>1, TopUnlinked
<1>3. Unlinked(Top) = Top.entry
  BY <1>1, TopRestored DEF FrameKinds
<1>4. Good(Below(Depth), Top.entry)
  BY <1>2, PopInv DEF Top
<1>5. Top.todo = {}
  BY <1>1, <1>2 DEF IInv, PhaseInv, Top
<1>6. /\ a \in Activations /\ a.entry = Top.entry /\ a.phase = "cleanup"
      /\ a.kind = "protect" /\ a.todo = {}
  BY <1>1, <1>2, <1>5 DEF Activations
<1>7. Good(Append(Below(Depth), a), Top.entry)
  <2> HIDE DEF a
  <2> QED BY <1>4, <1>6, AppendGood
<1> QED BY <1>3, <1>7 DEF ProtectedEnds

(* A signal that nobody took and a cleanup that ends leave nothing behind.  *)
LEMMA DropTopInv ==
  ASSUME IInv, stack # <<>>, Top.phase # "body" \/ Top.kind = "signal",
         stack' = Below(Depth), UNCHANGED ctx
  PROVE  Good(stack, ctx)'
<1>1. Depth \in 1..Depth /\ Top \in Activations
  BY TopUnlinked
<1>2. ctx = Top.entry
  <2>1. ASSUME Top.phase = "body" PROVE ctx = Top.entry
    BY <1>1, <2>1, TopUnlinked DEF Activations, Linked, Contexts, FrameKinds
  <2> QED BY <2>1, TopUnlinked
<1> QED BY <1>1, <1>2, PopInv DEF Top

(* A jump restores all that was bound above its frame. *)
LEMMA LongJumpInv == ASSUME IInv, LongJump PROVE Good(stack, ctx)' /\ thrown' \in AllTags
<1> DEFINE S == {i \in ctx.throws : stack[i].kind # "catch"} \cup CatchesFor(thrown)
<1>1. PICK f : f = Newest(S)
  OBVIOUS
<1> DEFINE a == stack[f]
           b == [a EXCEPT !.phase = "rethrow", !.tag = thrown]
<1>2. CatchesFor(thrown) # {} /\ JumpTo(f)
  BY <1>1 DEF LongJump
<1>3. /\ f \in 1..Depth /\ a.phase = "body" /\ a.kind \in FrameKinds
      /\ \A i \in CatchesFor(thrown) : i <= f
      /\ [Unlinked(a) EXCEPT !.trace = a.entry.trace] = a.entry
  BY <1>1, <1>2, JumpRestores
<1>4. ctx' = a.entry
  BY <1>2, <1>3 DEF JumpTo
<1>5. Good(Below(f), a.entry)
  BY <1>3, PopInv
<1>6. thrown \in AllTags /\ NONE \in AllTags /\ Len(stack) \in Nat /\ Depth = Len(stack)
  BY DEF IInv, TypeOK, AllTags, Depth
<1>7. ASSUME a.kind = "protect", stack' = Append(Below(f), b)
      PROVE  Good(stack, ctx)'
  <2>1. a \in Activations
    BY <1>3, <1>6 DEF IInv, TypeOK
  <2>2. a.todo = {}
    BY <1>3, <1>7 DEF IInv, PhaseInv
  <2>3. /\ b \in Activations /\ b.entry = a.entry /\ b.phase = "rethrow"
        /\ b.kind = "protect" /\ b.todo = {} /\ b.tag = thrown
    BY <1>6, <1>7, <2>1, <2>2 DEF Activations
  <2>4. PICK j \in CatchesFor(thrown) : TRUE
    BY <1>2
  <2>5. j \in 1..Depth /\ stack[j].kind = "catch" /\ stack[j].tag = thrown /\ j <= f
    BY <1>3 DEF IInv, ChainsExact, Extent, Live, CatchesFor
  <2>6. j \in 1..(f - 1)
    <3>1. j # f
      BY <1>7, <2>5
    <3> HIDE DEF a, b
    <3> QED BY <1>3, <1>6, <2>5, <3>1
  <2>7. Len(Below(f)) = f - 1 /\ Below(f)[j] = stack[j]
    BY <1>3, <1>6, <2>6 DEF IInv, TypeOK, Below
  <2>8. Good(Append(Below(f), b), a.entry)
    <3>1. \E i \in 1..Len(Below(f)) : Below(f)[i].kind = "catch" /\ Below(f)[i].tag = b.tag
      BY <2>3, <2>5, <2>6, <2>7
    <3> HIDE DEF a, b
    <3> QED BY <1>5, <2>3, <3>1, AppendGood
  <2> QED BY <1>4, <1>7, <2>8
<1> QED BY <1>2, <1>3, <1>4, <1>5, <1>6, <1>7 DEF JumpTo, FrameKinds

(* A tail call at the end of the body of a call only replaces what it runs. *)
LEMMA TailCallInv == ASSUME NoTailCalls, IInv, TailCall PROVE Good(stack, ctx)'
<1>1. PICK i \in 1..Depth :
        /\ stack[i].kind = "apply"
        /\ \A j \in (i + 1)..Depth : BodiesEndInCall /\ stack[j].kind \in KeepsMarker
        /\ stack' = SubSeq(stack, 1, i)
        /\ ctx' = [ctx EXCEPT !.trace = stack[i].entry.trace \cup {i}]
  BY DEF TailCall
<1>2. stack \in Seq(Activations) /\ Depth = Len(stack) /\ Depth \in Nat /\ ctx \in Contexts
  BY DEF IInv, TypeOK, Depth
<1>3. i = Depth
  <2>1. ASSUME i # Depth PROVE FALSE
    <3>1. i + 1 \in (i + 1)..Depth
      BY <1>1, <1>2, <2>1
    <3> QED BY <1>1, <3>1 DEF NoTailCalls
  <2> QED BY <2>1
<1>4. stack' = stack
  BY <1>1, <1>2, <1>3
<1>5. stack # <<>> /\ Top.kind = "apply" /\ Top.phase = "body"
  BY <1>1, <1>2, <1>3 DEF Top, IInv, PhaseInv
<1>6. ctx.trace = Top.entry.trace \cup {i}
  BY <1>3, <1>5, TopUnlinked DEF Linked
<1>7. ctx' = ctx
  BY <1>1, <1>2, <1>3, <1>6 DEF Top, Contexts
<1> QED BY <1>4, <1>7, InvIsGood

-----------------------------------------------------------------------------
(* The thread starts in order. *)
LEMMA InitInv == Init => IInv
<1> SUFFICES ASSUME Init PROVE IInv
  OBVIOUS
<1>1. stack = <<>> /\ Depth = 0 /\ 1..Depth = {}
  BY DEF Init, Depth
<1>2. TypeOK
  <2>1. stack \in Seq(Activations)
    BY <1>1
  <2>2. ctx \in Contexts
    <3> HIDE DEF Contexts
    <3>1. \A b \in BOOLEAN : [throws |-> {}, handlers |-> {}, restarts |-> {}, trace |-> {},
                               hook |-> b] \in Contexts
      BY DEF Contexts
    <3> QED BY <3>1, TagsAssumption DEF Init
  <2> QED BY <2>1, <2>2 DEF Init, TypeOK, AllTags
<1>3. ctx = Extent(stack, Depth)
  <2>1. ASSUME NEW K PROVE Live(stack, K, Depth) = {}
    BY <1>1 DEF Live
  <2>2. Extent(stack, Depth) = [throws |-> {}, handlers |-> {}, restarts |-> {}, trace |-> {},
                                hook |-> Interactive /\ TRUE]
    BY <2>1 DEF Extent
  <2>3. (Interactive /\ TRUE) = Interactive
    BY TagsAssumption
  <2> QED BY <2>2, <2>3, TagsAssumption DEF Init
<1> QED BY <1>1, <1>2, <1>3 DEF IInv, PhaseInv, ChainsExact, RethrowFindsTarget

(* The invariant of the next state, said of its stack. *)
LEMMA NextGood == Good(stack, ctx)' /\ thrown' \in AllTags /\ aborted' \in BOOLEAN => IInv'
<1>1. (Good(stack, ctx) /\ thrown \in AllTags /\ aborted \in BOOLEAN)' => IInv'
  BY InvIsGood, PTL
<1> QED BY <1>1

(* Every step keeps the invariant. *)
LEMMA StepInv == ASSUME NoTailCalls PROVE IInv /\ [Next]_vars => IInv'
<1> SUFFICES ASSUME NoTailCalls, IInv, [Next]_vars PROVE IInv'
  OBVIOUS
<1> DEFINE Goal == Good(stack, ctx)' /\ thrown' \in AllTags /\ aborted' \in BOOLEAN
<1>0. /\ Good(stack, ctx) /\ thrown \in AllTags /\ aborted \in BOOLEAN /\ NONE \in AllTags
      /\ CONTINUE \in AllTags /\ Tags \subseteq AllTags /\ Names \subseteq AllTags
  BY InvIsGood DEF AllTags
<1>1. ASSUME Call \/ UnwindProtect \/ HandlerBind PROVE Goal
  <2>1. PICK k \in Kinds : Push(k, NONE)
    BY <1>1 DEF Call, UnwindProtect, HandlerBind, Kinds, FrameKinds
  <2> QED BY <1>0, <1>1, <2>1, PushInv DEF Call, UnwindProtect, HandlerBind
<1>2. ASSUME NEW t \in Tags, Catch(t) PROVE Goal
  BY <1>0, <1>2, PushInv DEF Catch, Kinds, FrameKinds
<1>3. ASSUME NEW n \in Names, RestartBind(n) PROVE Goal
  BY <1>0, <1>3, PushInv DEF RestartBind, Kinds, FrameKinds
<1>4. ASSUME Signal \/ Error PROVE Goal
  BY <1>0, <1>4, PushSignalInv DEF Signal, Error
<1>5. ASSUME CError PROVE Goal
  BY <1>0, <1>5, CErrorInv DEF CError
<1>6. ASSUME NEW t \in Tags, Throw(t) PROVE Goal
  BY <1>0, <1>6 DEF Throw
<1>7. ASSUME NEW n \in Names \cup {CONTINUE}, InvokeRestart(n) PROVE Goal
  <2>1. CASE PushSignal("error") /\ UNCHANGED thrown
    BY <1>0, <1>7, <2>1, PushSignalInv DEF InvokeRestart
  <2>2. CASE Push("apply", NONE) /\ thrown' \in {CONTINUE, NONE}
    BY <1>0, <1>7, <2>2, PushInv DEF InvokeRestart, Kinds
  <2> QED BY <1>7, <2>1, <2>2 DEF InvokeRestart
<1>8. ASSUME TailCall PROVE Goal
  BY <1>0, <1>8, TailCallInv DEF TailCall
<1>9. ASSUME ApplyReturns PROVE Goal
  BY <1>0, <1>9, ReturnsInv DEF ApplyReturns
<1>10. ASSUME BodyEnds PROVE Goal
  BY <1>0, <1>10, BodyEndsInv DEF BodyEnds
<1>11. ASSUME ProtectedEnds PROVE Goal
  BY <1>0, <1>11, ProtectedEndsInv DEF ProtectedEnds
<1>12. ASSUME CleanupEnds PROVE Goal
  <2>1. Top.tag \in AllTags
    BY <1>12, TopUnlinked DEF CleanupEnds, Activations
  <2> QED BY <1>0, <1>12, <2>1, DropTopInv DEF CleanupEnds
<1>13. ASSUME UncaughtThrow PROVE Goal
  BY <1>0, <1>13, PushSignalInv DEF UncaughtThrow
<1>14. ASSUME LongJump PROVE Goal
  BY <1>0, <1>14, LongJumpInv DEF LongJump, JumpTo
<1>15. ASSUME CallHandler PROVE Goal
  BY <1>0, <1>15, CallHandlerInv DEF CallHandler
<1>16. ASSUME SignalReturns PROVE Goal
  BY <1>0, <1>16, DropTopInv DEF SignalReturns
<1>17. ASSUME EnterDebugger PROVE Goal
  BY <1>0, <1>17, EnterDebuggerInv DEF EnterDebugger
<1>18. ASSUME Abort \/ UNCHANGED vars PROVE Goal
  <2>1. UNCHANGED <<stack, ctx, thrown>> /\ aborted' \in BOOLEAN
    BY <1>0, <1>18 DEF Abort, vars
  <2> QED BY <1>0, <2>1
<1> HIDE DEF Goal
<1>19. Goal
  BY <1>1, <1>2, <1>3, <1>4, <1>5, <1>6, <1>7, <1>8, <1>9, <1>10, <1>11, <1>12, <1>13,
     <1>14, <1>15, <1>16, <1>17, <1>18 DEF Next, Program, Machine, Ended
<1> QED BY <1>19, NextGood DEF Goal

(* However control leaves the forms, the chains of frames and the hook are  *)
(* those of the activations that exist: no binding of a form that was left  *)
(* stays in force and none of a form in progress is lost. *)
THEOREM StackInOrder == ASSUME NoTailCalls PROVE Spec => []IInv
BY InitInv, StepInv, PTL DEF Spec

(* A throw that stopped for a cleanup finds its catch when it goes on.      *)
THEOREM RethrowIsCaught == ASSUME NoTailCalls PROVE Spec => []RethrowFindsTarget
<1>1. IInv => RethrowFindsTarget
  BY DEF IInv
<1> QED BY <1>1, StackInOrder, PTL

-----------------------------------------------------------------------------
(* What a step can do to the protected forms and catches in progress: keep  *)
(* them all, or take away the newest activation.                            *)
Kept == \A i \in 1..Depth :
          /\ Len(stack') >= i
          /\ stack[i].kind \in {"catch", "protect"} => stack'[i] = stack[i]

Popped == /\ stack # <<>> /\ stack' = Below(Depth)
          /\ Top.kind = "protect" => Top.phase # "body"
          /\ Top.kind = "catch" => thrown' = NONE

(* An activation that is pushed leaves those below it alone. *)
LEMMA AppendKeeps ==
  ASSUME stack \in Seq(Activations), NEW a, stack' = Append(stack, a)
  PROVE  Kept
BY DEF Kept, Depth

(* Only the end of a protected body and a jump do anything else. *)
LEMMA StepShape ==
  ASSUME NoTailCalls, IInv, [Next]_vars
  PROVE  Kept \/ Popped \/ ProtectedEnds \/ LongJump
<1> DEFINE Goal == Kept \/ Popped \/ ProtectedEnds \/ LongJump
<1>0. stack \in Seq(Activations) /\ Depth = Len(stack) /\ Depth \in Nat
  BY DEF IInv, TypeOK, Depth
<1>1. ASSUME NEW k, NEW x, Push(k, x) PROVE Goal
  BY <1>0, <1>1, AppendKeeps DEF Push
<1>2. ASSUME NEW k, PushSignal(k) PROVE Goal
  BY <1>0, <1>2, AppendKeeps DEF PushSignal
<1>3. ASSUME UNCHANGED stack PROVE Goal
  BY <1>0, <1>3 DEF Kept
<1>4. ASSUME CError PROVE Goal
  <2>1. PICK a, b, c : stack' = Append(Append(Append(stack, a), b), c)
    BY <1>4 DEF CError
  <2>2. \A i \in 1..Depth : Len(stack') >= i /\ stack'[i] = stack[i]
    BY <1>0, <2>1
  <2> QED BY <2>2 DEF Kept
<1>5. ASSUME EnterDebugger PROVE Goal
  <2>1. PICK a, b : stack' = Append(Append(stack, a), b)
    BY <1>5 DEF EnterDebugger
  <2>2. \A i \in 1..Depth : Len(stack') >= i /\ stack'[i] = stack[i]
    BY <1>0, <2>1
  <2> QED BY <2>2 DEF Kept
<1>6. ASSUME CallHandler PROVE Goal
  <2>1. stack # <<>> /\ Top.todo # {}
    BY <1>6 DEF CallHandler
  <2>2. Depth \in 1..Depth /\ Top.kind \in {"signal", "error"}
    BY <1>0, <2>1 DEF IInv, PhaseInv, Top
  <2>3. PICK a, b : stack' = Append(Append(Below(Depth), a), b)
    BY <1>6 DEF CallHandler
  <2>4. \A i \in 1..Depth : Len(stack') >= i /\ (i # Depth => stack'[i] = stack[i])
    BY <1>0, <2>2, <2>3 DEF Below
  <2> QED BY <1>0, <2>2, <2>4 DEF Kept, Top
<1>7. ASSUME TailCall PROVE Goal
  <2>1. PICK i \in 1..Depth :
          /\ \A j \in (i + 1)..Depth : BodiesEndInCall /\ stack[j].kind \in KeepsMarker
          /\ stack' = SubSeq(stack, 1, i)
    BY <1>7 DEF TailCall
  <2>2. i = Depth
    <3>1. i # Depth => i + 1 \in (i + 1)..Depth
      BY <1>0, <2>1
    <3> QED BY <2>1, <3>1 DEF NoTailCalls
  <2> QED BY <1>0, <1>3, <2>1, <2>2
<1>8. ASSUME ApplyReturns \/ BodyEnds \/ CleanupEnds \/ SignalReturns PROVE Goal
  BY <1>8 DEF Popped, ApplyReturns, BodyEnds, CleanupEnds, SignalReturns, Running
<1>9. ASSUME NEW n, InvokeRestart(n) PROVE Goal
  BY <1>1, <1>2, <1>9 DEF InvokeRestart
<1>10. ASSUME Call \/ UnwindProtect \/ HandlerBind \/ (\E t \in Tags : Catch(t))
              \/ (\E n \in Names : RestartBind(n))
       PROVE  Goal
  BY <1>1, <1>10 DEF Call, UnwindProtect, HandlerBind, Catch, RestartBind
<1>11. ASSUME Signal \/ Error \/ UncaughtThrow PROVE Goal
  BY <1>2, <1>11 DEF Signal, Error, UncaughtThrow
<1>12. ASSUME (\E t \in Tags : Throw(t)) \/ Abort \/ UNCHANGED vars PROVE Goal
  BY <1>3, <1>12 DEF Throw, Abort, vars
<1>13. ASSUME ProtectedEnds \/ LongJump PROVE Goal
  BY <1>13
<1> HIDE DEF Goal
<1> QED BY <1>4, <1>5, <1>6, <1>7, <1>8, <1>9, <1>10, <1>11, <1>12, <1>13
        DEF Next, Program, Machine, Ended, Goal

(* A protected form is never left but into its cleanup: a jump stops at the *)
(* newest protected form, and nothing else takes one away.                  *)
THEOREM CleanupsAlwaysRun == ASSUME NoTailCalls PROVE Spec => CleanupsRun
<1> DEFINE A == \A i \in 1..Depth : stack[i].kind = "protect" /\ stack[i].phase = "body" =>
                  /\ Len(stack') >= i
                  /\ stack'[i] # stack[i] => Len(stack') = i /\ stack'[i].phase # "body"
<1>1. IInv /\ [Next]_vars => A
  <2> SUFFICES ASSUME IInv, [Next]_vars,
                      NEW i \in 1..Depth, stack[i].kind = "protect", stack[i].phase = "body"
               PROVE  /\ Len(stack') >= i
                      /\ stack'[i] # stack[i] => Len(stack') = i /\ stack'[i].phase # "body"
    OBVIOUS
  <2>0. stack \in Seq(Activations) /\ Depth = Len(stack) /\ Depth \in Nat
    BY DEF IInv, TypeOK, Depth
  <2>1. ASSUME NEW f \in 1..Depth, i < f, NEW u,
               stack' = Below(f) \/ stack' = Append(Below(f), u)
        PROVE  Len(stack') >= i /\ stack'[i] = stack[i]
    BY <2>0, <2>1 DEF Below
  <2>2. CASE Kept
    BY <2>2 DEF Kept
  <2>3. CASE Popped
    <3>1. i # Depth /\ Depth \in 1..Depth
      BY <2>0, <2>3 DEF Popped, Top
    <3> QED BY <2>0, <2>1, <2>3, <3>1 DEF Popped
  <2>4. CASE ProtectedEnds
    <3> DEFINE a == [Top EXCEPT !.phase = "cleanup"]
    <3>1. Depth \in 1..Depth /\ Top \in Activations
      BY <2>4, TopUnlinked DEF ProtectedEnds
    <3>2. a.phase # "body"
      BY <3>1 DEF Activations
    <3> HIDE DEF a
    <3>3. stack' = Append(Below(Depth), a)
      BY <2>4 DEF ProtectedEnds, a
    <3>4. CASE i = Depth
      BY <2>0, <3>1, <3>2, <3>3, <3>4 DEF Below
    <3>5. CASE i < Depth
      BY <2>1, <3>1, <3>3, <3>5
    <3> QED BY <2>0, <3>4, <3>5
  <2>5. CASE LongJump
    <3>1. PICK f : /\ f = Newest({j \in ctx.throws : stack[j].kind # "catch"} \cup CatchesFor(thrown))
                   /\ CatchesFor(thrown) # {} /\ JumpTo(f)
      BY <2>5 DEF LongJump
    <3>2. f \in 1..Depth /\ \A j \in ctx.throws : stack[j].kind # "catch" => j <= f
      BY <3>1, JumpRestores
    <3>3. i \in ctx.throws
      BY <2>0 DEF IInv, ChainsExact, Extent, Live, FrameKinds
    <3>4. i <= f
      BY <3>2, <3>3
    <3> DEFINE a == [stack[f] EXCEPT !.phase = "rethrow", !.tag = thrown]
    <3>5. a.phase # "body"
      BY <2>0, <3>2 DEF Activations
    <3> HIDE DEF a
    <3>6. \/ stack[f].kind = "protect" /\ stack' = Append(Below(f), a)
          \/ stack[f].kind # "protect" /\ stack' = Below(f)
      BY <3>1 DEF JumpTo, a
    <3>7. CASE i = f
      BY <2>0, <3>2, <3>5, <3>6, <3>7 DEF Below
    <3>8. CASE i < f
      BY <2>1, <3>2, <3>6, <3>8
    <3> QED BY <2>0, <3>2, <3>4, <3>7, <3>8
  <2> QED BY <2>2, <2>3, <2>4, <2>5, StepShape
<1> QED BY <1>1, StackInOrder, PTL DEF Spec, CleanupsRun

(* A throw stops at the nearest catch of its tag at the latest, and ends    *)
(* there.                                                                   *)
THEOREM ThrowEndsAtNearestCatch == ASSUME NoTailCalls PROVE Spec => NearestCatchTakesThrow
<1> DEFINE A == \A i \in 1..Depth : stack[i].kind = "catch" /\ stack[i].tag = thrown =>
                  /\ Len(stack') >= i - 1
                  /\ Len(stack') = i - 1 => thrown' = NONE
<1>1. IInv /\ [Next]_vars => A
  <2> SUFFICES ASSUME IInv, [Next]_vars,
                      NEW i \in 1..Depth, stack[i].kind = "catch", stack[i].tag = thrown
               PROVE  /\ Len(stack') >= i - 1
                      /\ Len(stack') = i - 1 => thrown' = NONE
    OBVIOUS
  <2>0. stack \in Seq(Activations) /\ Depth = Len(stack) /\ Depth \in Nat
    BY DEF IInv, TypeOK, Depth
  <2>1. ASSUME NEW f \in 1..Depth PROVE Len(Below(f)) = f - 1
    BY <2>0 DEF Below
  <2>2. CASE Kept
    BY <2>0, <2>2 DEF Kept
  <2>3. CASE Popped
    BY <2>0, <2>1, <2>3 DEF Popped, Top
  <2>4. CASE ProtectedEnds
    <3>1. Len(stack') = Depth
      BY <2>0, <2>1, <2>4 DEF ProtectedEnds, Below
    <3> QED BY <2>0, <3>1
  <2>5. CASE LongJump
    <3>1. PICK f : /\ f = Newest({j \in ctx.throws : stack[j].kind # "catch"} \cup CatchesFor(thrown))
                   /\ CatchesFor(thrown) # {} /\ JumpTo(f)
      BY <2>5 DEF LongJump
    <3>2. f \in 1..Depth /\ \A j \in CatchesFor(thrown) : j <= f
      BY <3>1, JumpRestores
    <3>3. i \in CatchesFor(thrown)
      BY <2>0 DEF IInv, PhaseInv, ChainsExact, Extent, Live, FrameKinds, CatchesFor
    <3>4. i <= f
      BY <3>2, <3>3
    <3> DEFINE a == [stack[f] EXCEPT !.phase = "rethrow", !.tag = thrown]
    <3> HIDE DEF a
    <3>5. \/ stack[f].kind = "protect" /\ stack' = Append(Below(f), a)
          \/ stack[f].kind = "catch" /\ stack' = Below(f) /\ thrown' = NONE
          \/ stack[f].kind \notin {"protect", "catch"} /\ stack' = Below(f)
      BY <3>1 DEF JumpTo, a
    <3>6. Len(Append(Below(f), a)) = f /\ Len(Below(f)) = f - 1
      BY <2>0, <3>2 DEF Below
    <3> QED BY <2>0, <3>2, <3>4, <3>5, <3>6
  <2> QED BY <2>2, <2>3, <2>4, <2>5, StepShape
<1> QED BY <1>1, StackInOrder, PTL DEF Spec, NearestCatchTakesThrow

=============================================================================
