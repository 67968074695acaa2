---------------------------- MODULE HooksProofs ----------------------------
(***************************************************************************)
(* For any components, bodies and effects.                                  *)
(*                                                                          *)
(* Unmounting and panics leave no current fiber behind, and what is current *)
(* is the innermost render's, CurrentExact.  What makes it true is where a  *)
(* call can come from: hooks and effects run inside a render, so what was   *)
(* entered first is a render, whose end makes nobody current, or an Unmount *)
(* from a handler, inside which nothing can be rendered (Bracketed).  Then no *)
(* step but the beginning of a render makes a component current (Scoped).   *)
(*                                                                          *)
(* A run of an effect is cleaned up once, CleanupExact.  Its cleanup is at  *)
(* one place at a time: in a slot, in the list that an Unmount has still to *)
(* call, or called (Accounted).                                             *)
(*                                                                          *)
(* A component that keeps the rules of hooks has the slots of its own       *)
(* hooks, OwnSlots.  Slots are claimed in its fiber by no render but its    *)
(* own, which has called all its hooks or is the one that is current        *)
(* (Owned).                                                                 *)
(***************************************************************************)
EXTENDS Hooks, FiniteSetTheorems, TLAPS

\* What is known of a call that has been entered.
Entered(f) ==
  /\ f.at \in {"render", "effect", "unmount"}
  /\ f.at = "render" => f \in [at: {"render"}, c: Comp, gen: Nat, body: Seq(Kind \cup Comp)]
  /\ f.at = "effect" => f \in [at: {"effect"}, id: Name, gen: Nat, idx: Nat, deps: SUBSET Dep,
                               old: Run \cup {NoRun}]
  /\ f.at = "unmount" => f \in [at: {"unmount"}, todo: {f.todo}, ran: BOOLEAN]

\* The types of what hooks are claimed in, and that the stack is one.
Mounted ==
  /\ fiber \in [Name -> Fiber \cup {NoFiber}]
  /\ current \in Name \cup {Nobody}
  /\ handles \subseteq Handle
  /\ gen \in Nat

Calls(s) == s \in Seq(RunsOf(s)) /\ \A i \in DOMAIN s : Entered(s[i])
Stacked == Calls(stack)

\* What is entered first is a render or an Unmount; only the former has a current fiber.
Rooted ==
  /\ stack = <<>> => current = Nobody
  /\ stack # <<>> => stack[1].at # "effect"
  /\ stack # <<>> /\ stack[1].at = "unmount" =>
       current = Nobody /\ \A i \in DOMAIN stack : stack[i].at = "unmount"

\* The current fiber is mounted, and there is none at rest.
Calm ==
  /\ current # Nobody => fiber[current] # NoFiber
  /\ stack = <<>> => current = Nobody

Bracketed == Mounted /\ Stacked /\ Rooted /\ Calm

-----------------------------------------------------------------------------

LEMMA BracketedInit == Init => Bracketed
<1> SUFFICES ASSUME Init
             PROVE  Bracketed
  OBVIOUS
<1>1. Mounted
  BY DEF Init, Mounted
<1>2. Stacked /\ Rooted /\ Calm
  BY DEF Init, Stacked, Calls, Rooted, Calm, RunsOf
<1> QED
  BY <1>1, <1>2 DEF Bracketed

(***************************************************************************)
(* The fibers that the helpers make.                                        *)
(***************************************************************************)
LEMMA FiberGot ==
  ASSUME Mounted, NEW n \in Name
  PROVE  Got(n) \in Fiber /\ GenWith(n) \in Nat
  BY DEF Mounted, Got, GenWith, Fiber

LEMMA SlotTyped ==
  ASSUME NEW f \in Fiber, NEW i \in Nat
  PROVE  SlotOf(f, i) \in Slot
<1>1. EmptySlot \in Slot
  BY DEF EmptySlot, Slot
<1>2. f.slots \in Seq(Slot)
  BY DEF Fiber
<1>3. i \in DOMAIN f.slots => f.slots[i] \in Slot
  BY <1>2
<1> QED
  BY <1>1, <1>3 DEF SlotOf

LEMMA FiberStored ==
  ASSUME NEW f \in Fiber, NEW i \in Nat, NEW slot \in Slot
  PROVE  Stored(f, i, slot) \in Fiber
<1> DEFINE n == IF i > Len(f.slots) THEN i ELSE Len(f.slots)
           slots == [j \in 1..n |-> IF j = i THEN slot ELSE SlotOf(f, j)]
<1>1. f.slots \in Seq(Slot) /\ n \in Nat
  BY DEF Fiber
<1>0. \A j \in 1..n : j \in Nat
  BY <1>1
<1>2. slots \in Seq(Slot)
  <2>1. \A j \in 1..n : SlotOf(f, j) \in Slot
    BY <1>0, SlotTyped
  <2> QED
    BY <1>1, <2>1
<1>3. Stored(f, i, slot) = [f EXCEPT !.slots = slots]
  BY DEF Stored
<1> HIDE DEF slots, n
<1> QED
  BY <1>2, <1>3 DEF Fiber

LEMMA FiberClaimed ==
  ASSUME NEW f \in Fiber
  PROVE  Claimed(f) \in Fiber /\ Rewound(f) \in Fiber /\ Counted(f) \in Fiber /\ Index(f) \in Nat
  BY DEF Claimed, Rewound, Counted, Index, Fiber

(***************************************************************************)
(* Calls with one call more, one less, or the last one gone on.             *)
(***************************************************************************)
LEMMA Pushed ==
  ASSUME NEW s, Calls(s), NEW f, Entered(f)
  PROVE  /\ Calls(Append(s, f))
         /\ Len(s) \in Nat
         /\ DOMAIN Append(s, f) = 1..(Len(s) + 1)
         /\ \A i \in 1..Len(s) : Append(s, f)[i] = s[i]
         /\ Append(s, f)[Len(s) + 1] = f
<1> DEFINE S == RunsOf(s) \cup {f}
           t == Append(s, f)
<1>1. s \in Seq(S) /\ f \in S
  BY DEF Calls, RunsOf
<1>2. /\ t \in Seq(S) /\ Len(s) \in Nat /\ Len(t) = Len(s) + 1
      /\ \A i \in 1..Len(s) : t[i] = s[i]
      /\ t[Len(s) + 1] = f
  <2> HIDE DEF S
  <2> QED
    BY <1>1
<1> HIDE DEF t
<1>3. t \in Seq(RunsOf(t))
  BY <1>2 DEF RunsOf
<1>4. \A i \in DOMAIN t : Entered(t[i])
  BY <1>1, <1>2 DEF Calls
<1> QED
  BY <1>2, <1>3, <1>4 DEF Calls, t

LEMMA Popped ==
  ASSUME NEW s, Calls(s), s # <<>>
  PROVE  /\ Len(s) \in Nat \ {0}
         /\ DOMAIN s = 1..Len(s)
         /\ Entered(s[1]) /\ Entered(s[Len(s)])
         /\ Calls(SubSeq(s, 1, Len(s) - 1))
         /\ Len(SubSeq(s, 1, Len(s) - 1)) = Len(s) - 1
         /\ DOMAIN SubSeq(s, 1, Len(s) - 1) = 1..(Len(s) - 1)
         /\ \A i \in 1..(Len(s) - 1) : SubSeq(s, 1, Len(s) - 1)[i] = s[i]
<1> DEFINE S == RunsOf(s)
           n == Len(s) - 1
           t == SubSeq(s, 1, n)
<1>1. s \in Seq(S)
  BY DEF Calls
<1>2. Len(s) \in Nat \ {0} /\ DOMAIN s = 1..Len(s) /\ 1 \in DOMAIN s /\ Len(s) \in DOMAIN s
  <2> HIDE DEF S
  <2> QED
    BY <1>1
<1>3. n \in Nat /\ n <= Len(s) /\ \A i \in 1..n : s[i] \in S /\ i \in DOMAIN s
  BY <1>2 DEF RunsOf
<1>4. t = [i \in 1..n |-> s[i]]
  <2> HIDE DEF S
  <2> QED
    BY <1>1, <1>2, <1>3
<1> HIDE DEF t
<1>5. t \in Seq(S) /\ Len(t) = n /\ DOMAIN t = 1..n
  <2> HIDE DEF S
  <2> QED
    BY <1>3, <1>4
<1>6. t \in Seq(RunsOf(t))
  <2> DEFINE T == RunsOf(t)
  <2>1. \A i \in 1..n : t[i] \in T
    BY <1>5 DEF RunsOf
  <2> HIDE DEF T
  <2>2. t \in Seq(T)
    BY <1>3, <1>4, <2>1
  <2> QED
    BY <2>2 DEF T
<1>7. \A i \in DOMAIN t : Entered(t[i])
  BY <1>3, <1>4, <1>5 DEF Calls
<1> QED
  BY <1>2, <1>4, <1>5, <1>6, <1>7 DEF Calls, t

\* The last call of `stack' returns, or goes on at the same place.
LEMMA LastCall ==
  ASSUME Stacked, stack # <<>>
  PROVE  /\ Len(stack) \in Nat \ {0}
         /\ DOMAIN stack = 1..Len(stack)
         /\ Entered(Top) /\ Top = stack[Len(stack)]
         /\ Calls(Below)
         /\ Len(Below) = Len(stack) - 1
         /\ DOMAIN Below = 1..(Len(stack) - 1)
         /\ \A i \in 1..(Len(stack) - 1) : Below[i] = stack[i]
  BY Popped DEF Stacked, Top, Below

LEMMA GoesOn ==
  ASSUME Stacked, stack # <<>>, NEW f, Entered(f), f.at = Top.at
  PROVE  /\ Calls(Append(Below, f))
         /\ Append(Below, f) # <<>>
         /\ DOMAIN Append(Below, f) = DOMAIN stack
         /\ \A i \in DOMAIN stack : Append(Below, f)[i].at = stack[i].at
<1>0. /\ Calls(Below) /\ DOMAIN stack = 1..Len(stack)
      /\ Len(stack) \in Nat \ {0} /\ Len(Below) = Len(stack) - 1
  BY LastCall
<1>1. Calls(Below) /\ Len(stack) \in Nat \ {0} /\ Len(Below) + 1 = Len(stack) /\ DOMAIN stack = 1..Len(stack)
  BY <1>0
<1> DEFINE t == Append(Below, f)
<1>2. /\ Calls(t)
      /\ DOMAIN t = 1..(Len(Below) + 1)
      /\ \A i \in 1..Len(Below) : t[i] = Below[i]
      /\ t[Len(Below) + 1] = f
  BY <1>1, Pushed
<1> HIDE DEF t
<1>3. DOMAIN t = DOMAIN stack /\ Len(stack) \in DOMAIN t
  BY <1>1, <1>2
<1>4. t # <<>>
  BY <1>3, <1>1
<1>5. \A i \in DOMAIN stack : t[i].at = stack[i].at
  <2> SUFFICES ASSUME NEW i \in DOMAIN stack
               PROVE  t[i].at = stack[i].at
    OBVIOUS
  <2>1. CASE i = Len(stack)
    BY <1>1, <1>2, <2>1, LastCall
  <2>2. CASE i # Len(stack)
    BY <1>1, <1>2, <2>2, LastCall
  <2> QED
    BY <2>1, <2>2
<1> QED
  BY <1>2, <1>3, <1>4, <1>5 DEF t

-----------------------------------------------------------------------------

\* A step inside a render: what was entered first is a render.
LEMMA InsideRender ==
  ASSUME Bracketed, At("render")
  PROVE  /\ stack # <<>> /\ Stacked
         /\ stack[1].at = "render"
         /\ Top \in [at: {"render"}, c: Comp, gen: Nat, body: Seq(Kind \cup Comp)]
<1>1. stack # <<>> /\ Top.at = "render" /\ Stacked
  BY DEF At, Bracketed
<1>2. Top \in [at: {"render"}, c: Comp, gen: Nat, body: Seq(Kind \cup Comp)]
  BY <1>1, LastCall DEF Entered
<1>3. /\ Len(stack) \in DOMAIN stack /\ 1 \in DOMAIN stack
      /\ stack[Len(stack)].at # "unmount"
  BY <1>1, LastCall
<1>4. Entered(stack[1])
  BY <1>1, Popped DEF Stacked
<1>5. stack[1].at = "render"
  BY <1>1, <1>3, <1>4 DEF Bracketed, Rooted, Entered
<1> QED
  BY <1>1, <1>2, <1>5

\* An effect or a cleanup runs in something.
LEMMA InsideEffect ==
  ASSUME Bracketed, At("effect")
  PROVE  /\ stack # <<>> /\ Stacked
         /\ stack[1].at = "render"
         /\ Len(stack) > 1
         /\ Top \in [at: {"effect"}, id: Name, gen: Nat, idx: Nat, deps: SUBSET Dep,
                     old: Run \cup {NoRun}]
<1>1. stack # <<>> /\ Top.at = "effect" /\ Stacked
  BY DEF At, Bracketed
<1>2. Top \in [at: {"effect"}, id: Name, gen: Nat, idx: Nat, deps: SUBSET Dep, old: Run \cup {NoRun}]
  BY <1>1, LastCall DEF Entered
<1>3. /\ Len(stack) \in DOMAIN stack /\ 1 \in DOMAIN stack
      /\ stack[Len(stack)].at = "effect"
      /\ Len(stack) \in Nat \ {0}
  BY <1>1, LastCall
<1>4. Entered(stack[1])
  BY <1>1, Popped DEF Stacked
<1>5. stack[1].at = "render"
  BY <1>1, <1>3, <1>4 DEF Bracketed, Rooted, Entered
<1>6. Len(stack) # 1
  BY <1>3, <1>5
<1> QED
  BY <1>1, <1>2, <1>3, <1>5, <1>6

\* The hook or child at the head of the body is taken off it.
LEMMA RestOf ==
  ASSUME Bracketed, At("render"), Top.body # <<>>
  PROVE  /\ Calls(Rest) /\ Rest # <<>>
         /\ Rest[1].at = "render"
<1> DEFINE f == [Top EXCEPT !.body = Tail(@)]
<1>1. Top \in [at: {"render"}, c: Comp, gen: Nat, body: Seq(Kind \cup Comp)]
  BY InsideRender
<1>2. Tail(Top.body) \in Seq(Kind \cup Comp)
  BY <1>1
<1>3. f \in [at: {"render"}, c: Comp, gen: Nat, body: Seq(Kind \cup Comp)]
  BY <1>1, <1>2
<1>4. f.at = "render" /\ Top.at = "render"
  BY <1>1, <1>3
<1>5. Rest = Append(Below, f)
  BY DEF Rest
<1> HIDE DEF f
<1>6. Entered(f)
  BY <1>3, <1>4 DEF Entered
<1>7. 1 \in DOMAIN stack
  BY InsideRender, LastCall
<1> QED
  BY <1>4, <1>5, <1>6, <1>7, InsideRender, GoesOn

\* Another call is entered in one that a render has led to.
LEMMA PushedInRender ==
  ASSUME NEW s, Calls(s), s # <<>>, s[1].at = "render", NEW f, Entered(f)
  PROVE  /\ Calls(Append(s, f)) /\ Append(s, f) # <<>>
         /\ Append(s, f)[1].at = "render"
<1>1. Len(s) \in Nat \ {0}
  BY Popped
<1>2. 1 \in 1..Len(s) /\ DOMAIN Append(s, f) = 1..(Len(s) + 1)
  BY <1>1, Pushed
<1>3. 1 \in DOMAIN Append(s, f)
  BY <1>1, <1>2
<1> QED
  BY <1>2, <1>3, Pushed

LEMMA BeginRenderStep ==
  ASSUME Bracketed, NEW c \in Comp, NEW under, BeginRender(c, under),
         Calls(under), under # <<>> => under[1].at = "render"
  PROVE  Bracketed'
<1>1. PICK body \in Bodies[c] :
        /\ fiber' = [fiber EXCEPT ![c] = Rewound(Got(c))]
        /\ gen' = GenWith(c)
        /\ current' = c
        /\ stack' = Append(under, [at |-> "render", c |-> c, gen |-> Got(c).gen, body |-> body])
        /\ UNCHANGED handles
  BY DEF BeginRender
<1>2. c \in Name
  BY DEF Name
<1>3. Rewound(Got(c)) \in Fiber /\ GenWith(c) \in Nat /\ Got(c).gen \in Nat
  <2>1. Got(c) \in Fiber /\ GenWith(c) \in Nat
    BY <1>2, FiberGot DEF Bracketed
  <2>2. Rewound(Got(c)) \in Fiber /\ Got(c).gen \in Nat
    BY <2>1, FiberClaimed DEF Fiber
  <2> QED
    BY <2>1, <2>2
<1>4. Mounted'
  BY <1>1, <1>2, <1>3 DEF Bracketed, Mounted
<1> DEFINE f == [at |-> "render", c |-> c, gen |-> Got(c).gen, body |-> body]
<1>5. body \in Seq(Kind \cup Comp)
  BY <1>1, HooksAssumption
<1>6. f \in [at: {"render"}, c: Comp, gen: Nat, body: Seq(Kind \cup Comp)] /\ f.at = "render"
  BY <1>3, <1>5
<1>7. stack' = Append(under, f)
  BY <1>1
<1> HIDE DEF f
<1>8. Entered(f)
  BY <1>6 DEF Entered
<1>9. Stacked' /\ stack' # <<>> /\ stack'[1].at = "render"
  <2>1. CASE under = <<>>
    <3>1. Len(under) = 0
      BY <2>1
    <3>2. /\ Calls(stack') /\ DOMAIN stack' = 1..(Len(under) + 1)
          /\ stack'[Len(under) + 1] = f
      BY <1>7, <1>8, Pushed
    <3>3. DOMAIN stack' = 1..1 /\ stack'[1] = f
      BY <3>1, <3>2
    <3>4. stack' # <<>>
      BY <3>3
    <3> QED
      BY <1>6, <3>2, <3>3, <3>4 DEF Stacked
  <2>2. CASE under # <<>>
    BY <1>7, <1>8, <2>2, PushedInRender DEF Stacked
  <2> QED
    BY <2>1, <2>2
<1>10. Calm'
  BY <1>1, <1>2, <1>3, <1>9, NoFiberAssumption DEF Bracketed, Mounted, Calm
<1> QED
  BY <1>4, <1>9, <1>10 DEF Bracketed, Rooted

LEMMA BracketedRender ==
  ASSUME Bracketed, NEW c \in Comp, Render(c)
  PROVE  Bracketed'
<1>1. BeginRender(c, <<>>)
  BY DEF Render
<1>2. Calls(<<>>)
  BY DEF Calls, RunsOf
<1> QED
  BY <1>1, <1>2, BeginRenderStep

LEMMA BracketedRenderChild ==
  ASSUME Bracketed, RenderChild
  PROVE  Bracketed'
<1>1. At("render") /\ Top.body # <<>> /\ Head(Top.body) \in Comp /\ BeginRender(Head(Top.body), Rest)
  BY DEF RenderChild, Doing
<1> QED
  BY <1>1, RestOf, BeginRenderStep

(***************************************************************************)
(* A panic leaves every call: if a render is among them and a fiber is      *)
(* current, its EndRender ends it.                                          *)
(***************************************************************************)
LEMMA BracketedPanic ==
  ASSUME Bracketed, NEW fs, fs \in [Name -> Fiber \cup {NoFiber}],
         \A n \in Name : fiber[n] # NoFiber => fs[n] # NoFiber,
         stack # <<>>, Panic(fs), UNCHANGED gen
  PROVE  Bracketed'
<1>1. Unwound(fs) /\ stack' = <<>> /\ UNCHANGED handles
  BY DEF Panic
<1>2. Stacked'
  BY <1>1 DEF Stacked, Calls, RunsOf
<1>3. CASE Frames("render") = {} \/ current = Nobody
  <2>1. current = Nobody
    <3>1. CASE Frames("render") = {}
      <4>1. 1 \in DOMAIN stack /\ Entered(stack[1])
        BY Popped DEF Bracketed, Stacked
      <4>2. stack[1].at # "render"
        BY <3>1, <4>1 DEF Frames
      <4> QED
        BY <4>1, <4>2 DEF Bracketed, Rooted, Entered
    <3> QED
      BY <1>3, <3>1
  <2>2. fiber' = fs /\ current' = Nobody
    BY <1>1, <1>3, <2>1 DEF Unwound
  <2> QED
    BY <1>1, <1>2, <2>2, HooksAssumption DEF Bracketed, Mounted, Rooted, Calm
<1>4. CASE ~(Frames("render") = {} \/ current = Nobody)
  <2>1. fiber' = [fs EXCEPT ![current] = Counted(@)] /\ current' = Nobody
    BY <1>1, <1>4 DEF Unwound
  <2>2. current \in Name /\ fs[current] \in Fiber
    BY <1>4 DEF Bracketed, Mounted, Calm
  <2>3. Counted(fs[current]) \in Fiber
    BY <2>2, FiberClaimed
  <2> QED
    BY <1>1, <1>2, <2>1, <2>2, <2>3 DEF Bracketed, Mounted, Rooted, Calm
<1> QED
  BY <1>3, <1>4

LEMMA BracketedCodePanics ==
  ASSUME Bracketed, CodePanics
  PROVE  Bracketed'
<1>1. stack # <<>> /\ Panic(fiber) /\ UNCHANGED gen
  BY DEF CodePanics, InCode, At
<1> QED
  BY <1>1, BracketedPanic DEF Bracketed, Mounted

LEMMA BracketedKindChanged ==
  ASSUME Bracketed, KindChanged
  PROVE  Bracketed'
<1> DEFINE fs == [fiber EXCEPT ![Claimant] = Claimed(@)]
<1>1. /\ At("render") /\ Panic(fs) /\ UNCHANGED gen
      /\ SlotOf(Got(Claimant), Index(Got(Claimant))).kind # ""
  BY DEF KindChanged, Doing
<1>2. Claimant \in Name
  BY DEF Claimant, Bracketed, Mounted, Name
<1>3. fiber[Claimant] # NoFiber
  <2> SUFFICES ASSUME fiber[Claimant] = NoFiber
               PROVE  FALSE
    OBVIOUS
  <2> DEFINE g == Got(Claimant)
  <2>1. g.slots = <<>>
    BY DEF Got
  <2>2. SlotOf(g, Index(g)) = EmptySlot
    BY <2>1 DEF SlotOf
  <2>3. EmptySlot.kind = ""
    BY DEF EmptySlot
  <2>4. SlotOf(g, Index(g)).kind # ""
    BY <1>1
  <2> HIDE DEF g
  <2> QED
    BY <2>2, <2>3, <2>4
<1>4. Claimed(fiber[Claimant]) \in Fiber
  BY <1>2, <1>3, FiberClaimed DEF Bracketed, Mounted
<1>5. fs \in [Name -> Fiber \cup {NoFiber}]
  BY <1>2, <1>4 DEF Bracketed, Mounted
<1>6. \A n \in Name : fiber[n] # NoFiber => fs[n] # NoFiber
  BY <1>2, <1>4, NoFiberAssumption DEF Bracketed, Mounted
<1>7. stack # <<>>
  BY <1>1, InsideRender
<1> HIDE DEF fs
<1> QED
  BY <1>1, <1>5, <1>6, <1>7, BracketedPanic

(***************************************************************************)
(* A render ends: it panics, or leaves no current fiber.                    *)
(***************************************************************************)
LEMMA BracketedEndRender ==
  ASSUME Bracketed, EndRender
  PROVE  Bracketed'
<1>1. At("render") /\ stack # <<>> /\ stack[1].at = "render" /\ Stacked
  BY InsideRender DEF EndRender
<1>2. CASE current # Nobody /\ fiber[current].expectedHooks \notin {-1, fiber[current].cursor}
  <2>1. UNCHANGED gen /\ Panic(fiber)
    BY <1>2 DEF EndRender
  <2> QED
    BY <1>1, <2>1, BracketedPanic DEF Bracketed, Mounted
<1>3. CASE ~(current # Nobody /\ fiber[current].expectedHooks \notin {-1, fiber[current].cursor})
  <2>1. /\ fiber' = IF current = Nobody THEN fiber
                    ELSE [fiber EXCEPT ![current].expectedHooks = fiber[current].cursor]
        /\ current' = Nobody /\ stack' = Below /\ UNCHANGED <<gen, handles>>
    BY <1>3 DEF EndRender
  <2>2. fiber' \in [Name -> Fiber \cup {NoFiber}]
    <3>1. CASE current = Nobody
      BY <2>1, <3>1 DEF Bracketed, Mounted
    <3>2. CASE current # Nobody
      <4>1. current \in Name /\ fiber[current] \in Fiber
        BY <3>2 DEF Bracketed, Mounted, Calm
      <4> DEFINE g == [fiber[current] EXCEPT !.expectedHooks = fiber[current].cursor]
      <4>2. g \in Fiber
        BY <4>1 DEF Fiber
      <4>3. fiber' = [fiber EXCEPT ![current] = g]
        BY <2>1, <3>2
      <4> HIDE DEF g
      <4> QED
        BY <4>1, <4>2, <4>3 DEF Bracketed, Mounted
    <3> QED
      BY <3>1, <3>2
  <2>3. Mounted' /\ Calm'
    BY <2>1, <2>2 DEF Bracketed, Mounted, Calm
  <2>4. Stacked'
    BY <1>1, <2>1, LastCall DEF Stacked
  <2>5. ASSUME stack' # <<>>
        PROVE  stack'[1].at = "render"
    <3>0. stack' \in Seq(RunsOf(stack')) /\ Len(stack') = Len(stack) - 1
      BY <1>1, <2>1, <2>4, LastCall DEF Stacked, Calls
    <3>1. Len(stack) - 1 # 0
      <4> SUFFICES ASSUME Len(stack) - 1 = 0
                   PROVE  stack' = <<>>
        BY <2>5
      <4>1. Len(stack') = 0
        BY <3>0
      <4> QED
        BY <3>0, <4>1
    <3>2. 1 \in 1..(Len(stack) - 1)
      BY <1>1, <3>1, LastCall
    <3> QED
      BY <1>1, <2>1, <3>2, LastCall
  <2> QED
    BY <2>1, <2>3, <2>4, <2>5 DEF Bracketed, Rooted
<1> QED
  BY <1>2, <1>3

(***************************************************************************)
(* A hook claims a slot: its fiber is mounted and becomes current.          *)
(***************************************************************************)
LEMMA BracketedClaim ==
  ASSUME Bracketed, NEW slot \in Slot, Claim(slot), handles' \subseteq Handle,
         Calls(stack'), stack' # <<>>, stack'[1].at = "render"
  PROVE  Bracketed'
<1> DEFINE f == Got(Claimant)
           g == Stored(Claimed(f), Index(f), slot)
<1>1. Claimant \in Name
  BY DEF Claimant, Bracketed, Mounted, Name
<1>2. f \in Fiber /\ GenWith(Claimant) \in Nat
  BY <1>1, FiberGot DEF Bracketed
<1>3. g \in Fiber
  <2> HIDE DEF f
  <2> QED
    BY <1>2, FiberClaimed, FiberStored
<1>4. fiber' = [fiber EXCEPT ![Claimant] = g] /\ gen' = GenWith(Claimant) /\ current' = Claimant
  BY DEF Claim
<1> HIDE DEF g
<1>5. Mounted' /\ Calm'
  BY <1>1, <1>2, <1>3, <1>4, NoFiberAssumption DEF Bracketed, Mounted, Calm
<1> QED
  BY <1>5 DEF Bracketed, Stacked, Rooted

\* What the hooks store, of any kind.
LEMMA SlotClaimed ==
  ASSUME Bracketed, NEW kind \in Kind
  PROVE  LET f == Got(Claimant)
             slot == SlotOf(f, Index(f))
         IN /\ slot \in Slot
            /\ [slot EXCEPT !.kind = kind, !.initialized = TRUE] \in Slot
            /\ [slot EXCEPT !.kind = kind] \in Slot
            /\ Claimant \in Name /\ Index(f) \in Nat /\ f.gen \in Nat
<1> DEFINE f == Got(Claimant)
           slot == SlotOf(f, Index(f))
<1>1. Claimant \in Name
  BY DEF Claimant, Bracketed, Mounted, Name
<1>2. f \in Fiber
  BY <1>1, FiberGot DEF Bracketed
<1>3. Index(f) \in Nat /\ f.gen \in Nat
  BY <1>2, FiberClaimed DEF Fiber
<1>4. slot \in Slot
  BY <1>2, <1>3, SlotTyped
<1>5. [slot EXCEPT !.kind = kind, !.initialized = TRUE] \in Slot /\ [slot EXCEPT !.kind = kind] \in Slot
  <2> HIDE DEF slot
  <2> QED
    BY <1>4 DEF Slot
<1> QED
  BY <1>1, <1>3, <1>4, <1>5

LEMMA BracketedHooks ==
  ASSUME Bracketed, UseState \/ UseMemo \/ UseRef
  PROVE  Bracketed'
<1> DEFINE f == Got(Claimant)
           slot(kind) == [SlotOf(f, Index(f)) EXCEPT !.kind = kind, !.initialized = TRUE]
<1>1. At("render") /\ Top.body # <<>> /\ stack' = Rest
  BY DEF UseState, UseMemo, UseRef, Keeps, Claims, Doing
<1>2. Calls(stack') /\ stack' # <<>> /\ stack'[1].at = "render"
  BY <1>1, RestOf
<1>3. \A kind \in Kind : slot(kind) \in Slot /\ Claimant \in Name /\ Index(f) \in Nat /\ f.gen \in Nat
  BY SlotClaimed
<1>4. CASE UseState
  <2>1. Claim(slot("state")) /\ handles' = handles \cup {[id |-> Claimant, idx |-> Index(f), gen |-> f.gen]}
    BY <1>4 DEF UseState
  <2>2. slot("state") \in Slot /\ handles' \subseteq Handle
    <3>1. "state" \in Kind
      BY DEF Kind
    <3> HIDE DEF f, slot
    <3> QED
      BY <1>3, <2>1, <3>1 DEF Handle, Bracketed, Mounted
  <2> QED
    BY <1>2, <2>1, <2>2, BracketedClaim
<1>5. CASE UseMemo \/ UseRef
  <2>1. PICK kind \in {"memo", "ref"} : Claim(slot(kind)) /\ UNCHANGED handles
    BY <1>5 DEF UseMemo, UseRef, Keeps
  <2>2. slot(kind) \in Slot /\ handles' \subseteq Handle
    BY <1>3, <2>1 DEF Kind, Bracketed, Mounted
  <2> QED
    BY <1>2, <2>1, <2>2, BracketedClaim
<1> QED
  BY <1>4, <1>5

LEMMA BracketedUseEffect ==
  ASSUME Bracketed, NEW d \in Dep, UseEffect(d)
  PROVE  Bracketed'
<1> DEFINE f == Got(Claimant)
           slot == SlotOf(f, Index(f))
           call == [at |-> "effect", id |-> Claimant, gen |-> f.gen, idx |-> Index(f),
                    deps |-> {d}, old |-> OldCleanup(slot)]
<1>1. /\ At("render") /\ Top.body # <<>> /\ UNCHANGED handles
      /\ Claim([slot EXCEPT !.kind = "effect"])
      /\ stack' = Rest \/ stack' = Append(Rest, call)
  BY DEF UseEffect, Claims, Doing
<1>2. Calls(Rest) /\ Rest # <<>> /\ Rest[1].at = "render"
  BY <1>1, RestOf
<1>3. /\ slot \in Slot /\ [slot EXCEPT !.kind = "effect"] \in Slot
      /\ Claimant \in Name /\ Index(f) \in Nat /\ f.gen \in Nat
  <2>1. "effect" \in Kind
    BY DEF Kind
  <2> QED
    BY <2>1, SlotClaimed
<1>4. OldCleanup(slot) \in Run \cup {NoRun}
  BY <1>3 DEF OldCleanup, Slot
<1>5. Entered(call)
  <2>1. call \in [at: {"effect"}, id: Name, gen: Nat, idx: Nat, deps: SUBSET Dep, old: Run \cup {NoRun}]
    <3> HIDE DEF slot, f
    <3> QED
      BY <1>3, <1>4
  <2>2. call.at = "effect"
    OBVIOUS
  <2> HIDE DEF call
  <2> QED
    BY <2>1, <2>2 DEF Entered
<1> HIDE DEF call
<1>6. Calls(stack') /\ stack' # <<>> /\ stack'[1].at = "render"
  BY <1>1, <1>2, <1>5, PushedInRender
<1> QED
  BY <1>1, <1>3, <1>6, BracketedClaim DEF Bracketed, Mounted

(***************************************************************************)
(* An effect's function returns: it was called inside a render.  Its fiber, *)
(* if it is still the one of that mount, gets the cleanup.                  *)
(***************************************************************************)
LEMMA BracketedEffectReturns ==
  ASSUME Bracketed, NEW r \in Run, EffectReturns(r)
  PROVE  Bracketed'
<1>1. /\ stack # <<>> /\ Stacked /\ stack[1].at = "render" /\ Len(stack) > 1
      /\ Top \in [at: {"effect"}, id: Name, gen: Nat, idx: Nat, deps: SUBSET Dep, old: Run \cup {NoRun}]
  BY InsideEffect DEF EffectReturns
<1> DEFINE slot == [EmptySlot EXCEPT !.kind = "effect", !.initialized = TRUE, !.deps = Top.deps, !.cleanup = r]
           g == Stored(fiber[Top.id], Top.idx, slot)
<1>2. /\ fiber' = fiber \/ (fiber[Top.id] # NoFiber /\ fiber' = [fiber EXCEPT ![Top.id] = g])
      /\ stack' = Below /\ UNCHANGED <<current, gen, handles>>
  BY DEF EffectReturns
<1>3. slot \in Slot
  BY <1>1 DEF EmptySlot, Slot, Kind
<1>4. /\ fiber' \in [Name -> Fiber \cup {NoFiber}]
      /\ \A n \in Name : fiber[n] # NoFiber => fiber'[n] # NoFiber
  <2>1. CASE fiber' = fiber
    BY <2>1 DEF Bracketed, Mounted
  <2>2. CASE fiber[Top.id] # NoFiber /\ fiber' = [fiber EXCEPT ![Top.id] = g]
    <3>1. fiber[Top.id] \in Fiber /\ Top.id \in Name /\ Top.idx \in Nat
      BY <1>1, <2>2 DEF Bracketed, Mounted
    <3>2. g \in Fiber
      <4> HIDE DEF slot
      <4> QED
        BY <1>3, <3>1, FiberStored
    <3> HIDE DEF g
    <3> QED
      BY <2>2, <3>1, <3>2, NoFiberAssumption DEF Bracketed, Mounted
  <2> QED
    BY <1>2, <2>1, <2>2
<1>5. Mounted' /\ Calm'
  <2>1. stack' # <<>>
    <3>1. DOMAIN stack' = 1..(Len(stack) - 1) /\ Len(stack) \in Nat
      BY <1>1, <1>2, LastCall
    <3>2. 1 \in DOMAIN stack'
      BY <1>1, <3>1
    <3> QED
      BY <3>2
  <2> QED
    BY <1>2, <1>4, <2>1 DEF Bracketed, Mounted, Calm
<1>6. Stacked' /\ stack' # <<>> /\ stack'[1].at = "render"
  <2>1. /\ Calls(stack') /\ Len(stack) \in Nat
        /\ DOMAIN stack' = 1..(Len(stack) - 1)
        /\ \A i \in 1..(Len(stack) - 1) : stack'[i] = stack[i]
    BY <1>1, <1>2, LastCall
  <2>2. 1 \in DOMAIN stack' /\ stack'[1] = stack[1]
    BY <1>1, <2>1
  <2> QED
    BY <1>1, <2>1, <2>2 DEF Stacked
<1> QED
  BY <1>5, <1>6 DEF Bracketed, Rooted

(***************************************************************************)
(* Handlers, effects and cleanups: a setter makes a fiber or changes one;   *)
(* Unmount removes one, which is then not current.                          *)
(***************************************************************************)
LEMMA BracketedSetState ==
  ASSUME Bracketed, NEW h \in handles, SetState(h)
  PROVE  Bracketed'
<1> DEFINE f == Got(h.id)
           slot == [SlotOf(f, h.idx) EXCEPT !.value = h.gen, !.initialized = TRUE]
           g == Stored(f, h.idx, slot)
<1>1. fiber' = [fiber EXCEPT ![h.id] = g] /\ gen' = GenWith(h.id) /\ UNCHANGED <<current, stack, handles>>
  BY DEF SetState
<1>2. h.id \in Name /\ h.idx \in Nat /\ h.gen \in Nat
  BY DEF Bracketed, Mounted, Handle
<1>3. f \in Fiber /\ GenWith(h.id) \in Nat
  BY <1>2, FiberGot DEF Bracketed
<1>4. slot \in Slot
  <2> DEFINE old == SlotOf(f, h.idx)
  <2>1. old \in Slot
    BY <1>2, <1>3, SlotTyped
  <2> HIDE DEF old
  <2>2. [old EXCEPT !.value = h.gen, !.initialized = TRUE] \in Slot
    BY <1>2, <2>1 DEF Slot
  <2> QED
    BY <2>2 DEF old
<1>5. g \in Fiber
  <2> HIDE DEF f, slot
  <2> QED
    BY <1>2, <1>3, <1>4, FiberStored
<1> HIDE DEF g
<1>6. Mounted' /\ Calm'
  BY <1>1, <1>2, <1>3, <1>5, NoFiberAssumption DEF Bracketed, Mounted, Calm
<1>7. Stacked' /\ Rooted'
  BY <1>1 DEF Bracketed, Stacked, Calls, RunsOf, Rooted, Entered
<1> QED
  BY <1>6, <1>7 DEF Bracketed

\* Whatever the calls before it, one more Unmount keeps them rooted.
LEMMA BracketedUnmount ==
  ASSUME Bracketed, NEW n \in Name, Unmount(n)
  PROVE  Bracketed'
<1> DEFINE call == [at |-> "unmount", todo |-> Cleanups(fiber[n]), ran |-> FALSE]
<1>1. /\ fiber' = [fiber EXCEPT ![n] = NoFiber]
      /\ current' = IF current = n THEN Nobody ELSE current
      /\ stack' = Append(stack, call)
      /\ UNCHANGED <<gen, handles>>
  BY DEF Unmount, CurrentWithout
<1>2. Entered(call) /\ call.at = "unmount"
  BY DEF Entered
<1> HIDE DEF call
<1>3. /\ Stacked' /\ Len(stack) \in Nat
      /\ DOMAIN stack' = 1..(Len(stack) + 1)
      /\ \A i \in 1..Len(stack) : stack'[i] = stack[i]
      /\ stack'[Len(stack) + 1] = call
  BY <1>1, <1>2, Pushed DEF Bracketed, Stacked
<1>4. stack' # <<>>
  <2>1. 1 \in DOMAIN stack'
    BY <1>3
  <2> QED
    BY <2>1
<1>5. Mounted' /\ Calm'
  BY <1>1, <1>4 DEF Bracketed, Mounted, Calm
<1>6. Rooted'
  <2>1. CASE stack = <<>>
    <3>1. Len(stack) = 0 /\ current = Nobody
      BY <2>1 DEF Bracketed, Rooted
    <3>2. \A i \in DOMAIN stack' : stack'[i] = call
      BY <1>3, <3>1
    <3>3. 1 \in DOMAIN stack' /\ current' = Nobody
      BY <1>1, <1>3, <3>1
    <3> QED
      BY <1>2, <1>4, <3>2, <3>3 DEF Rooted
  <2>2. CASE stack # <<>>
    <3>1. Len(stack) # 0 /\ stack'[1] = stack[1]
      BY <1>3, <2>2, Popped DEF Bracketed, Stacked
    <3>2. DOMAIN stack = 1..Len(stack)
      BY <2>2, Popped DEF Bracketed, Stacked
    <3>3. \A i \in DOMAIN stack' : i \in DOMAIN stack \/ stack'[i] = call
      BY <1>3, <3>2
    <3>4. stack[1].at = "unmount" => current' = Nobody /\ \A i \in DOMAIN stack' : stack'[i].at = "unmount"
      BY <1>1, <1>2, <1>3, <2>2, <3>2, <3>3 DEF Bracketed, Rooted
    <3> QED
      BY <1>4, <2>2, <3>1, <3>4 DEF Bracketed, Rooted
  <2> QED
    BY <2>1, <2>2
<1> QED
  BY <1>3, <1>5, <1>6 DEF Bracketed

LEMMA BracketedRunCleanup ==
  ASSUME Bracketed, RunCleanup
  PROVE  Bracketed'
<1>0. PICK i \in DOMAIN Top.todo :
        stack' = Append(Below, [Top EXCEPT !.todo = Left(@, i), !.ran = TRUE])
  BY DEF RunCleanup
<1> DEFINE call == [Top EXCEPT !.todo = Left(@, i), !.ran = TRUE]
<1>1. /\ stack # <<>> /\ Stacked /\ Top.at = "unmount"
      /\ stack' = Append(Below, call) /\ UNCHANGED <<fiber, current, gen, handles>>
  BY <1>0 DEF RunCleanup, At, Bracketed
<1>2. Top \in [at: {"unmount"}, todo: {Top.todo}, ran: BOOLEAN]
  BY <1>1, LastCall DEF Entered
<1>3. call \in [at: {"unmount"}, todo: {Left(Top.todo, i)}, ran: BOOLEAN]
  BY <1>2
<1>4. call.at = "unmount" /\ call.todo = Left(Top.todo, i)
  BY <1>3
<1> HIDE DEF call
<1>5. Entered(call)
  BY <1>3, <1>4 DEF Entered
<1>6. /\ Stacked' /\ stack' # <<>> /\ DOMAIN stack' = DOMAIN stack
      /\ \A j \in DOMAIN stack : stack'[j].at = stack[j].at
  BY <1>1, <1>4, <1>5, GoesOn DEF Stacked
<1>7. 1 \in DOMAIN stack
  BY <1>1, LastCall
<1>8. Rooted'
  BY <1>1, <1>6, <1>7 DEF Bracketed, Rooted
<1> QED
  BY <1>1, <1>6, <1>8 DEF Bracketed, Mounted, Calm

LEMMA BracketedUnmountReturns ==
  ASSUME Bracketed, UnmountReturns
  PROVE  Bracketed'
<1>1. /\ stack # <<>> /\ Stacked /\ Top.at = "unmount"
      /\ stack' = Below /\ UNCHANGED <<fiber, current, gen, handles>>
  BY DEF UnmountReturns, At, Bracketed
<1>2. /\ Calls(stack') /\ Len(stack) \in Nat \ {0}
      /\ stack[Len(stack)].at = "unmount"
      /\ Len(stack') = Len(stack) - 1
      /\ DOMAIN stack' = 1..(Len(stack) - 1) /\ DOMAIN stack = 1..Len(stack)
      /\ \A i \in 1..(Len(stack) - 1) : stack'[i] = stack[i]
  BY <1>1, LastCall
<1>3. CASE Len(stack) = 1
  <2>1. current = Nobody
    BY <1>1, <1>2, <1>3 DEF Bracketed, Rooted
  <2>2. stack' = <<>>
    BY <1>2, <1>3 DEF Calls
  <2> QED
    BY <1>1, <1>2, <2>1, <2>2 DEF Bracketed, Mounted, Stacked, Rooted, Calm
<1>4. CASE Len(stack) # 1
  <2>1. 1 \in DOMAIN stack' /\ stack'[1] = stack[1] /\ DOMAIN stack' \subseteq DOMAIN stack
    BY <1>2, <1>4
  <2>2. stack' # <<>>
    BY <2>1
  <2>3. Rooted'
    BY <1>1, <1>2, <2>1, <2>2 DEF Bracketed, Rooted
  <2> QED
    BY <1>1, <1>2, <2>2, <2>3 DEF Bracketed, Mounted, Stacked, Calm
<1> QED
  BY <1>3, <1>4

LEMMA BracketedNext == Bracketed /\ [Next]_vars => Bracketed'
<1> SUFFICES ASSUME Bracketed, [Next]_vars
             PROVE  Bracketed'
  OBVIOUS
<1>1. CASE RenderStep
  BY <1>1, BracketedRender DEF RenderStep
<1>2. CASE RenderChild
  BY <1>2, BracketedRenderChild
<1>3. CASE EndRender
  BY <1>3, BracketedEndRender
<1>4. CASE HookStep
  BY <1>4, BracketedHooks, BracketedKindChanged, BracketedUseEffect, BracketedEffectReturns DEF HookStep
<1>5. CASE CodeStep
  BY <1>5, BracketedSetState, BracketedUnmount, BracketedCodePanics DEF CodeStep
<1>6. CASE RunCleanup
  BY <1>6, BracketedRunCleanup
<1>7. CASE UnmountReturns
  BY <1>7, BracketedUnmountReturns
<1>8. CASE UNCHANGED vars
  BY <1>8 DEF vars, Bracketed, Mounted, Stacked, Calls, RunsOf, Rooted, Entered, Calm
<1> QED
  BY <1>1, <1>2, <1>3, <1>4, <1>5, <1>6, <1>7, <1>8 DEF Next

-----------------------------------------------------------------------------
(***************************************************************************)
(* Cleanups.  A run that is not excused is held by one slot, or is one of   *)
(* those that one Unmount has yet to call, or has been cleaned up; of the   *)
(* effect that runs anew the slot still holds the run just cleaned up.      *)
(***************************************************************************)

\* The cleanup in slot i of n's fiber.
CleanupAt(n, i) == IF fiber[n] = NoFiber THEN NoRun ELSE SlotOf(fiber[n], i).cleanup

\* Cleanup i of the Unmount at place k of the stack is r; the effect there has r to replace.
PendingAt(r, k, i) ==
  /\ k \in DOMAIN stack /\ stack[k].at = "unmount"
  /\ i \in DOMAIN stack[k].todo /\ stack[k].todo[i] = r
EffectAt(k) == k \in DOMAIN stack /\ stack[k].at = "effect"

Holds(r) == \E n \in Name, i \in Nat : CleanupAt(n, i) = r
Waits(r) == \E k, i : PendingAt(r, k, i)
Again(r) == \E k : EffectAt(k) /\ stack[k].old = r

Once(r) ==
  /\ \A m, n \in Name, i, j \in Nat : CleanupAt(m, i) = r /\ CleanupAt(n, j) = r => m = n /\ i = j
  /\ \A k, l, i, j : PendingAt(r, k, i) /\ PendingAt(r, l, j) => k = l /\ i = j
  /\ ~(Holds(r) /\ Waits(r))

Balanced(r) ==
  /\ r \notin begun => ~Holds(r) /\ ~Waits(r) /\ cleaned[r] = 0
  /\ r \in begun => cleaned[r] = IF Waits(r) \/ (Holds(r) /\ ~Again(r)) THEN 0 ELSE 1

\* The fiber of an effect call is the one it was called in.
StillMounted(k) == fiber[stack[k].id] # NoFiber /\ fiber[stack[k].id].gen = stack[k].gen

Attached(k) ==
  /\ stack[k].gen <= gen /\ stack[k].idx # 0
  /\ StillMounted(k) => CleanupAt(stack[k].id, stack[k].idx) = stack[k].old
  /\ ~StillMounted(k) => stack[k].old \in excused \cup {NoRun}

\* Inside an effect only Unmounts are entered.
Nested == \A k, l \in DOMAIN stack : k < l /\ stack[k].at = "effect" => stack[l].at = "unmount"

Accounted ==
  /\ begun \subseteq Run /\ cleaned \in [Run -> Nat]
  /\ \A n \in Name : fiber[n] # NoFiber => fiber[n].gen <= gen
  /\ Nested
  /\ \A k : EffectAt(k) => Attached(k)
  /\ \A r \in Run \ excused : Once(r) /\ Balanced(r)

(***************************************************************************)
(* Steps that leave the cleanups where they are.                            *)
(***************************************************************************)

\* Fibers keep their cleanups and mounts; one that is made is younger and holds none.
FibersKeep ==
  /\ gen' \in Nat /\ gen <= gen'
  /\ \A n \in Name, i \in Nat : CleanupAt(n, i)' = CleanupAt(n, i)
  /\ \A n \in Name : fiber[n] # NoFiber => fiber'[n] # NoFiber /\ fiber'[n].gen = fiber[n].gen
  /\ \A n \in Name : fiber[n] = NoFiber /\ fiber'[n] # NoFiber =>
       gen < fiber'[n].gen /\ fiber'[n].gen <= gen'

\* The effects and Unmounts of the stack are where they were.
CallsKeep ==
  /\ \A k : EffectAt(k)' <=> EffectAt(k)
  /\ \A k : EffectAt(k) => stack'[k] = stack[k]
  /\ \A r, k, i : PendingAt(r, k, i)' <=> PendingAt(r, k, i)

SameFrames(s, t) ==
  \A k : /\ (k \in DOMAIN s /\ s[k].at # "render") <=> (k \in DOMAIN t /\ t[k].at # "render")
         /\ k \in DOMAIN s /\ s[k].at # "render" => t[k] = s[k]

LEMMA FramesKeep ==
  ASSUME SameFrames(stack, stack')
  PROVE  CallsKeep
<1>1. \A k : EffectAt(k)' <=> EffectAt(k)
  BY DEF SameFrames, EffectAt
<1>2. \A k : EffectAt(k) => stack'[k] = stack[k]
  BY DEF SameFrames, EffectAt
<1>3. \A r, k, i : PendingAt(r, k, i)' <=> PendingAt(r, k, i)
  BY DEF SameFrames, PendingAt
<1> QED
  BY <1>1, <1>2, <1>3 DEF CallsKeep

\* An effect's call is what Entered says of one.
LEMMA EffectCall ==
  ASSUME Bracketed, NEW k, EffectAt(k)
  PROVE  /\ stack[k].id \in Name /\ stack[k].gen \in Nat /\ stack[k].idx \in Nat
         /\ stack[k].old \in Run \cup {NoRun}
  BY DEF Bracketed, Stacked, Calls, EffectAt, Entered

LEMMA AttachedLasts ==
  ASSUME Bracketed, Accounted, FibersKeep, NEW k, EffectAt(k), stack'[k] = stack[k],
         excused \subseteq excused'
  PROVE  Attached(k)'
<1>1. Attached(k) /\ gen \in Nat /\ fiber \in [Name -> Fiber \cup {NoFiber}]
  BY DEF Accounted, Bracketed, Mounted
<1>2. /\ stack[k].id \in Name /\ stack[k].gen \in Nat /\ stack[k].idx \in Nat
  BY EffectCall
<1>3. stack[k].gen <= gen' /\ stack[k].idx # 0
  BY <1>1, <1>2 DEF Attached, FibersKeep
<1>4. StillMounted(k)' <=> StillMounted(k)
  <2>1. CASE fiber[stack[k].id] # NoFiber
    BY <1>2, <2>1 DEF StillMounted, FibersKeep
  <2>2. CASE fiber[stack[k].id] = NoFiber
    <3>1. ~StillMounted(k)
      BY <2>2 DEF StillMounted
    <3>2. fiber'[stack[k].id] # NoFiber => fiber'[stack[k].id].gen # stack[k].gen
      <4> SUFFICES ASSUME fiber'[stack[k].id] # NoFiber
                   PROVE  fiber'[stack[k].id].gen # stack[k].gen
        OBVIOUS
      <4>1. gen < fiber'[stack[k].id].gen
        BY <1>2, <2>2 DEF FibersKeep
      <4>2. stack[k].gen <= gen
        BY <1>1 DEF Attached
      <4> QED
        BY <1>1, <1>2, <4>1, <4>2
    <3> QED
      BY <3>1, <3>2 DEF StillMounted
  <2> QED
    BY <2>1, <2>2
<1>5. CleanupAt(stack[k].id, stack[k].idx)' = CleanupAt(stack[k].id, stack[k].idx)
  BY <1>2 DEF FibersKeep, CleanupAt
<1> QED
  BY <1>1, <1>3, <1>4, <1>5 DEF Attached

\* Fibers that keep their cleanups are no younger than the counter.
LEMMA NoneYounger ==
  ASSUME Bracketed, Accounted, FibersKeep, fiber' \in [Name -> Fiber \cup {NoFiber}]
  PROVE  \A n \in Name : fiber'[n] # NoFiber => fiber'[n].gen <= gen'
<1> SUFFICES ASSUME NEW n \in Name, fiber'[n] # NoFiber
             PROVE  fiber'[n].gen <= gen'
  OBVIOUS
<1>1. CASE fiber[n] # NoFiber
  <2>1. fiber'[n].gen = fiber[n].gen /\ fiber[n].gen <= gen /\ gen <= gen'
    BY <1>1 DEF FibersKeep, Accounted
  <2>2. fiber[n].gen \in Nat /\ gen \in Nat /\ gen' \in Nat
    BY <1>1 DEF Bracketed, Mounted, Fiber, FibersKeep
  <2> QED
    BY <2>1, <2>2
<1>2. CASE fiber[n] = NoFiber
  BY <1>2 DEF FibersKeep
<1> QED
  BY <1>1, <1>2

LEMMA AccountsKeep ==
  ASSUME Bracketed, Bracketed', Accounted, FibersKeep, CallsKeep, Nested', UNCHANGED runs
  PROVE  Accounted'
<1>1. \A n \in Name : fiber'[n] # NoFiber => fiber'[n].gen <= gen'
  BY NoneYounger DEF Bracketed, Mounted
<1>2. \A k : EffectAt(k)' => Attached(k)'
  BY AttachedLasts DEF CallsKeep, runs
<1>3. ASSUME NEW r \in Run \ excused
      PROVE  Once(r)' /\ Balanced(r)'
  <2>1. Once(r) /\ Balanced(r)
    BY DEF Accounted
  <2>2. (Holds(r)' <=> Holds(r)) /\ (Waits(r)' <=> Waits(r)) /\ (Again(r)' <=> Again(r))
    <3>1. Holds(r)' <=> Holds(r)
      BY DEF Holds, FibersKeep
    <3>2. Waits(r)' <=> Waits(r)
      BY DEF Waits, CallsKeep
    <3>3. Again(r)' <=> Again(r)
      BY DEF Again, CallsKeep
    <3> QED
      BY <3>1, <3>2, <3>3
  <2>3. \A m, n \in Name, i, j \in Nat :
          CleanupAt(m, i)' = r /\ CleanupAt(n, j)' = r => m = n /\ i = j
    BY <2>1 DEF Once, FibersKeep
  <2>4. \A k, l, i, j : PendingAt(r, k, i)' /\ PendingAt(r, l, j)' => k = l /\ i = j
    BY <2>1 DEF Once, CallsKeep
  <2>5. Once(r)'
    BY <2>1, <2>2, <2>3, <2>4 DEF Once
  <2>6. Balanced(r)'
    BY <2>1, <2>2 DEF Balanced, runs
  <2> QED
    BY <2>5, <2>6
<1> QED
  BY <1>1, <1>2, <1>3 DEF Accounted, runs

(***************************************************************************)
(* What writing a slot, or a fiber, does to cleanups.                       *)
(***************************************************************************)
LEMMA SlotStored ==
  ASSUME NEW f \in Fiber, NEW i \in Nat, NEW slot \in Slot, NEW j \in Nat
  PROVE  SlotOf(Stored(f, i, slot), j) = IF j = i /\ i # 0 THEN slot ELSE SlotOf(f, j)
<1> DEFINE n == IF i > Len(f.slots) THEN i ELSE Len(f.slots)
           slots == [k \in 1..n |-> IF k = i THEN slot ELSE SlotOf(f, k)]
<1>1. f.slots \in Seq(Slot)
  BY DEF Fiber
<1>2. n \in Nat /\ DOMAIN f.slots = 1..Len(f.slots) /\ Len(f.slots) \in Nat /\ Len(f.slots) <= n /\ i <= n
  BY <1>1
<1>3. Stored(f, i, slot) = [f EXCEPT !.slots = slots]
  BY DEF Stored
<1>4. [f EXCEPT !.slots = slots].slots = slots
  BY DEF Fiber
<1>5. DOMAIN slots = 1..n
  OBVIOUS
<1>6. SlotOf(Stored(f, i, slot), j) = IF j \in 1..n THEN slots[j] ELSE EmptySlot
  <2> HIDE DEF slots, n
  <2> QED
    BY <1>3, <1>4, <1>5 DEF SlotOf
<1>7. CASE j \in 1..n
  <2>1. slots[j] = IF j = i THEN slot ELSE SlotOf(f, j)
    BY <1>7
  <2>2. j # 0
    BY <1>2, <1>7
  <2> HIDE DEF slots, n
  <2> QED
    BY <1>6, <1>7, <2>1, <2>2
<1>8. CASE j \notin 1..n
  <2>1. (j = i => i = 0) /\ j \notin DOMAIN f.slots
    BY <1>2, <1>8
  <2>2. SlotOf(f, j) = EmptySlot
    BY <2>1 DEF SlotOf
  <2> HIDE DEF slots, n
  <2> QED
    BY <1>6, <1>8, <2>1, <2>2
<1> QED
  BY <1>7, <1>8

\* A fiber that has only just been made holds nothing.
LEMMA GotSlots ==
  ASSUME NEW n \in Name, NEW i
  PROVE  /\ SlotOf(Got(n), i).cleanup = CleanupAt(n, i)
         /\ Got(n).gen = IF fiber[n] = NoFiber THEN gen + 1 ELSE fiber[n].gen
<1>1. CASE fiber[n] = NoFiber
  <2>1. Got(n).slots = <<>> /\ Got(n).gen = gen + 1
    BY <1>1 DEF Got
  <2>2. SlotOf(Got(n), i) = EmptySlot
    BY <2>1 DEF SlotOf
  <2>3. EmptySlot.cleanup = NoRun
    BY DEF EmptySlot
  <2>4. CleanupAt(n, i) = NoRun
    BY <1>1 DEF CleanupAt
  <2>5. SlotOf(Got(n), i).cleanup = NoRun
    BY <2>2, <2>3
  <2> QED
    BY <1>1, <2>1, <2>4, <2>5
<1>2. CASE fiber[n] # NoFiber
  BY <1>2 DEF Got, CleanupAt
<1> QED
  BY <1>1, <1>2

\* A fiber is written whose cleanups stay, made if there was none.
LEMMA WrittenKeeps ==
  ASSUME Bracketed, NEW n \in Name, NEW g \in Fiber, fiber' = [fiber EXCEPT ![n] = g], gen' = GenWith(n),
         g.gen = Got(n).gen, \A i \in Nat : SlotOf(g, i).cleanup = SlotOf(Got(n), i).cleanup
  PROVE  FibersKeep
<1>1. /\ fiber \in [Name -> Fiber \cup {NoFiber}] /\ gen \in Nat
      /\ fiber' \in [Name -> Fiber \cup {NoFiber}]
      /\ fiber'[n] = g /\ g # NoFiber /\ \A m \in Name \ {n} : fiber'[m] = fiber[m]
  BY NoFiberAssumption DEF Bracketed, Mounted
<1>2. \A m \in Name, i \in Nat : CleanupAt(m, i)' = CleanupAt(m, i)
  <2> SUFFICES ASSUME NEW m \in Name, NEW i \in Nat
               PROVE  CleanupAt(m, i)' = CleanupAt(m, i)
    OBVIOUS
  <2>1. CASE m = n
    <3>1. CleanupAt(n, i)' = SlotOf(g, i).cleanup
      BY <1>1 DEF CleanupAt, SlotOf
    <3> QED
      BY <2>1, <3>1, GotSlots
  <2>2. CASE m # n
    BY <1>1, <2>2 DEF CleanupAt
  <2> QED
    BY <2>1, <2>2
<1>3. gen' = (IF fiber[n] = NoFiber THEN gen + 1 ELSE gen)
  BY DEF GenWith
<1>4. g.gen = IF fiber[n] = NoFiber THEN gen + 1 ELSE fiber[n].gen
  BY GotSlots
<1>5. gen' \in Nat /\ gen <= gen'
  BY <1>1, <1>3
<1>6. \A m \in Name : fiber[m] # NoFiber => fiber'[m] # NoFiber /\ fiber'[m].gen = fiber[m].gen
  BY <1>1, <1>4
<1>7. \A m \in Name : fiber[m] = NoFiber /\ fiber'[m] # NoFiber =>
        gen < fiber'[m].gen /\ fiber'[m].gen <= gen'
  <2> SUFFICES ASSUME NEW m \in Name, fiber[m] = NoFiber, fiber'[m] # NoFiber
               PROVE  gen < fiber'[m].gen /\ fiber'[m].gen <= gen'
    OBVIOUS
  <2>1. m = n /\ fiber'[m].gen = gen + 1 /\ gen' = gen + 1
    BY <1>1, <1>3, <1>4
  <2> QED
    BY <1>1, <2>1
<1> QED
  BY <1>2, <1>5, <1>6, <1>7 DEF FibersKeep

\* Slots that all stay.
LEMMA SlotsStay ==
  ASSUME Bracketed, gen' = gen,
         \A n \in Name : /\ fiber'[n] = NoFiber <=> fiber[n] = NoFiber
                         /\ fiber[n] # NoFiber =>
                              fiber'[n].slots = fiber[n].slots /\ fiber'[n].gen = fiber[n].gen
  PROVE  FibersKeep
<1>1. gen \in Nat /\ gen <= gen
  BY DEF Bracketed, Mounted
<1>2. \A n \in Name, i \in Nat : CleanupAt(n, i)' = CleanupAt(n, i)
  BY DEF CleanupAt, SlotOf
<1> QED
  BY <1>1, <1>2 DEF FibersKeep

(***************************************************************************)
(* What entering and leaving renders does to the calls.                     *)
(***************************************************************************)
LEMMA NoEffects ==
  ASSUME Bracketed, Accounted, At("render")
  PROVE  \A k : ~EffectAt(k)
<1> SUFFICES ASSUME NEW k, EffectAt(k)
             PROVE  FALSE
  OBVIOUS
<1>1. /\ DOMAIN stack = 1..Len(stack) /\ Len(stack) \in Nat \ {0} /\ Top = stack[Len(stack)]
      /\ Top.at = "render"
  BY InsideRender, LastCall DEF At
<1>2. k \in 1..Len(stack) /\ k # Len(stack)
  BY <1>1 DEF EffectAt
<1>3. k < Len(stack)
  <2> DEFINE n == Len(stack)
  <2>1. n \in Nat \ {0} /\ k \in 1..n /\ k # n
    BY <1>1, <1>2
  <2> HIDE DEF n
  <2>2. k < n
    BY <2>1
  <2> QED
    BY <2>2 DEF n
<1>4. stack[Len(stack)].at = "unmount"
  <2>1. Len(stack) \in DOMAIN stack
    BY <1>1
  <2> QED
    BY <1>3, <2>1 DEF Accounted, Nested, EffectAt
<1> QED
  BY <1>1, <1>4

LEMMA SameTransitive ==
  ASSUME NEW s, NEW t, NEW u, SameFrames(s, t), SameFrames(t, u)
  PROVE  SameFrames(s, u)
  BY DEF SameFrames

LEMMA FramesPushed ==
  ASSUME NEW s, Calls(s), NEW f, Entered(f), f.at = "render"
  PROVE  SameFrames(s, Append(s, f))
<1> DEFINE t == Append(s, f)
<1>1. /\ Len(s) \in Nat /\ DOMAIN t = 1..(Len(s) + 1)
      /\ \A i \in 1..Len(s) : t[i] = s[i]
      /\ t[Len(s) + 1] = f
  BY Pushed
<1>2. DOMAIN s = 1..Len(s)
  BY DEF Calls
<1> HIDE DEF t
<1>3. \A k : k \in DOMAIN t <=> k \in DOMAIN s \/ k = Len(s) + 1
  BY <1>1, <1>2
<1>4. Len(s) + 1 \notin DOMAIN s
  BY <1>1, <1>2
<1> QED
  BY <1>1, <1>2, <1>3, <1>4 DEF SameFrames, t

LEMMA FramesPopped ==
  ASSUME Stacked, stack # <<>>, Top.at = "render"
  PROVE  SameFrames(stack, Below)
<1>1. /\ Len(stack) \in Nat \ {0} /\ DOMAIN stack = 1..Len(stack) /\ Top = stack[Len(stack)]
      /\ DOMAIN Below = 1..(Len(stack) - 1)
      /\ \A i \in 1..(Len(stack) - 1) : Below[i] = stack[i]
  BY LastCall
<1>2. \A k : k \in DOMAIN stack <=> k \in DOMAIN Below \/ k = Len(stack)
  BY <1>1
<1>3. Len(stack) \notin DOMAIN Below
  BY <1>1
<1> QED
  BY <1>1, <1>2, <1>3 DEF SameFrames

LEMMA FramesRest ==
  ASSUME Bracketed, At("render"), Top.body # <<>>
  PROVE  SameFrames(stack, Rest)
<1> DEFINE f == [Top EXCEPT !.body = Tail(@)]
<1>1. stack # <<>> /\ Stacked /\ Top \in [at: {"render"}, c: Comp, gen: Nat, body: Seq(Kind \cup Comp)]
  BY InsideRender
<1>2. Tail(Top.body) \in Seq(Kind \cup Comp)
  BY <1>1
<1>3. f \in [at: {"render"}, c: Comp, gen: Nat, body: Seq(Kind \cup Comp)] /\ f.at = "render"
  BY <1>1, <1>2
<1>4. Rest = Append(Below, f)
  BY DEF Rest
<1> HIDE DEF f
<1>5. Entered(f)
  BY <1>3 DEF Entered
<1>6. SameFrames(Below, Rest)
  BY <1>1, <1>3, <1>4, <1>5, FramesPushed, LastCall
<1>7. SameFrames(stack, Below)
  BY <1>1, FramesPopped
<1> QED
  BY <1>6, <1>7, SameTransitive

\* A step of a render that leaves the cleanups where they are.
LEMMA RendersKeep ==
  ASSUME Bracketed, Bracketed', Accounted, \A k : ~EffectAt(k), SameFrames(stack, stack'),
         FibersKeep, UNCHANGED runs
  PROVE  Accounted'
<1>1. CallsKeep
  BY FramesKeep
<1>2. Nested'
  BY <1>1 DEF CallsKeep, Nested, EffectAt
<1> QED
  BY <1>1, <1>2, AccountsKeep

\* What FiberClaimed's fibers have of their slots.
LEMMA SlotsOfClaimed ==
  ASSUME NEW f \in Fiber
  PROVE  /\ Claimed(f).slots = f.slots /\ Claimed(f).gen = f.gen
         /\ Rewound(f).slots = f.slots /\ Rewound(f).gen = f.gen
         /\ Counted(f).slots = f.slots /\ Counted(f).gen = f.gen
         /\ \A i : SlotOf(Claimed(f), i) = SlotOf(f, i) /\ SlotOf(Rewound(f), i) = SlotOf(f, i)
<1>1. /\ Claimed(f).slots = f.slots /\ Claimed(f).gen = f.gen
      /\ Rewound(f).slots = f.slots /\ Rewound(f).gen = f.gen
      /\ Counted(f).slots = f.slots /\ Counted(f).gen = f.gen
  BY DEF Claimed, Rewound, Counted, Fiber
<1> QED
  BY <1>1 DEF SlotOf

LEMMA AccountsBeginRender ==
  ASSUME Bracketed, Bracketed', Accounted, NEW c \in Comp, NEW under, BeginRender(c, under),
         Calls(under), SameFrames(stack, under), \A k : ~EffectAt(k)
  PROVE  Accounted'
<1>1. PICK body \in Bodies[c] :
        /\ fiber' = [fiber EXCEPT ![c] = Rewound(Got(c))]
        /\ gen' = GenWith(c)
        /\ stack' = Append(under, [at |-> "render", c |-> c, gen |-> Got(c).gen, body |-> body])
        /\ UNCHANGED runs
  BY DEF BeginRender
<1>2. c \in Name
  BY DEF Name
<1>3. Got(c) \in Fiber /\ Rewound(Got(c)) \in Fiber /\ GenWith(c) \in Nat
  BY <1>2, FiberGot, FiberClaimed DEF Bracketed
<1>4. Rewound(Got(c)).gen = Got(c).gen /\ \A i \in Nat : SlotOf(Rewound(Got(c)), i) = SlotOf(Got(c), i)
  BY <1>3, SlotsOfClaimed
<1>5. FibersKeep
  BY <1>1, <1>2, <1>3, <1>4, WrittenKeeps
<1> DEFINE f == [at |-> "render", c |-> c, gen |-> Got(c).gen, body |-> body]
<1>6. f \in [at: {"render"}, c: Comp, gen: Nat, body: Seq(Kind \cup Comp)] /\ f.at = "render"
  <2>1. body \in Seq(Kind \cup Comp)
    BY HooksAssumption
  <2>2. Got(c).gen \in Nat
    BY <1>3 DEF Fiber
  <2> QED
    BY <2>1, <2>2
<1>7. stack' = Append(under, f)
  BY <1>1
<1> HIDE DEF f
<1>8. Entered(f)
  BY <1>6 DEF Entered
<1>9. SameFrames(stack, stack')
  BY <1>6, <1>7, <1>8, FramesPushed, SameTransitive
<1> QED
  BY <1>1, <1>5, <1>9, RendersKeep

LEMMA AccountsRender ==
  ASSUME Bracketed, Bracketed', Accounted, NEW c \in Comp, Render(c)
  PROVE  Accounted'
<1>1. BeginRender(c, <<>>) /\ stack = <<>>
  BY DEF Render
<1>2. Calls(<<>>) /\ SameFrames(stack, <<>>) /\ \A k : ~EffectAt(k)
  BY <1>1 DEF Calls, RunsOf, SameFrames, EffectAt
<1> QED
  BY <1>1, <1>2, AccountsBeginRender

LEMMA AccountsRenderChild ==
  ASSUME Bracketed, Bracketed', Accounted, RenderChild
  PROVE  Accounted'
<1>1. At("render") /\ Top.body # <<>> /\ Head(Top.body) \in Comp /\ BeginRender(Head(Top.body), Rest)
  BY DEF RenderChild, Doing
<1>2. Calls(Rest) /\ SameFrames(stack, Rest) /\ \A k : ~EffectAt(k)
  BY <1>1, RestOf, FramesRest, NoEffects
<1> QED
  BY <1>1, <1>2, AccountsBeginRender

(***************************************************************************)
(* A panic excuses every run that is in the middle of something.            *)
(***************************************************************************)
LEMMA AccountsPanic ==
  ASSUME Bracketed, Bracketed', Accounted, NEW fs, fs \in [Name -> Fiber \cup {NoFiber}],
         \A n \in Name : /\ fs[n] = NoFiber <=> fiber[n] = NoFiber
                         /\ fiber[n] # NoFiber =>
                              fs[n].slots = fiber[n].slots /\ fs[n].gen = fiber[n].gen,
         Panic(fs), UNCHANGED gen
  PROVE  Accounted'
<1>1. /\ stack' = <<>> /\ UNCHANGED <<begun, cleaned>> /\ Unwound(fs)
      /\ excused' = excused \cup {f.old : f \in Frames("effect")}
                      \cup UNION {RunsOf(f.todo) : f \in Frames("unmount")}
  BY DEF Panic
<1>2. FibersKeep
  <2>1. CASE fiber' = fs
    BY <2>1, SlotsStay
  <2>2. CASE current # Nobody /\ fiber' = [fs EXCEPT ![current] = Counted(@)]
    <3>1. current \in Name /\ fs[current] \in Fiber /\ fiber[current] # NoFiber
      BY <2>2 DEF Bracketed, Mounted, Calm
    <3>2. /\ Counted(fs[current]) \in Fiber
          /\ Counted(fs[current]).slots = fs[current].slots
          /\ Counted(fs[current]).gen = fs[current].gen
      BY <3>1, FiberClaimed, SlotsOfClaimed
    <3>3. /\ fiber'[current] = Counted(fs[current]) /\ fiber'[current] # NoFiber
          /\ \A n \in Name \ {current} : fiber'[n] = fs[n]
      BY <2>2, <3>1, <3>2, NoFiberAssumption
    <3> QED
      BY <3>1, <3>2, <3>3, SlotsStay
  <2> QED
    BY <1>1, <2>1, <2>2 DEF Unwound
<1>3. \A k : ~EffectAt(k)'
  BY <1>1 DEF EffectAt
<1>4. \A r, k, i : ~PendingAt(r, k, i)'
  BY <1>1 DEF PendingAt
<1>5. ASSUME NEW r \in Run \ excused'
      PROVE  Once(r)' /\ Balanced(r)'
  <2>1. r \in Run \ excused /\ Once(r) /\ Balanced(r)
    BY <1>1 DEF Accounted
  <2>2. ~Again(r)
    <3> SUFFICES ASSUME NEW k, EffectAt(k), stack[k].old = r
                 PROVE  FALSE
      BY DEF Again
    <3>1. stack[k] \in Frames("effect")
      BY DEF EffectAt, Frames
    <3> QED
      BY <1>1, <3>1
  <2>3. ~Waits(r)
    <3> SUFFICES ASSUME NEW k, NEW i, PendingAt(r, k, i)
                 PROVE  FALSE
      BY DEF Waits
    <3>1. stack[k] \in Frames("unmount") /\ r \in RunsOf(stack[k].todo)
      BY DEF PendingAt, Frames, RunsOf
    <3> QED
      BY <1>1, <3>1
  <2>4. (Holds(r)' <=> Holds(r)) /\ ~Waits(r)' /\ ~Again(r)'
    BY <1>2, <1>3, <1>4 DEF Holds, Waits, Again, FibersKeep
  <2>5. \A m, n \in Name, i, j \in Nat :
          CleanupAt(m, i)' = r /\ CleanupAt(n, j)' = r => m = n /\ i = j
    BY <1>2, <2>1 DEF Once, FibersKeep
  <2>6. Once(r)'
    BY <1>4, <2>4, <2>5 DEF Once
  <2>7. Balanced(r)'
    BY <1>1, <2>1, <2>2, <2>3, <2>4 DEF Balanced
  <2> QED
    BY <2>6, <2>7
<1>6. \A n \in Name : fiber'[n] # NoFiber => fiber'[n].gen <= gen'
  BY <1>2, NoneYounger DEF Bracketed, Mounted
<1>7. Nested'
  BY <1>3 DEF Nested, EffectAt
<1> QED
  BY <1>1, <1>3, <1>5, <1>6, <1>7 DEF Accounted

LEMMA AccountsCodePanics ==
  ASSUME Bracketed, Bracketed', Accounted, CodePanics
  PROVE  Accounted'
<1>1. Panic(fiber) /\ UNCHANGED gen
  BY DEF CodePanics
<1> QED
  BY <1>1, AccountsPanic DEF Bracketed, Mounted

LEMMA AccountsKindChanged ==
  ASSUME Bracketed, Bracketed', Accounted, KindChanged
  PROVE  Accounted'
<1> DEFINE fs == [fiber EXCEPT ![Claimant] = Claimed(@)]
<1>1. /\ Panic(fs) /\ UNCHANGED gen
      /\ SlotOf(Got(Claimant), Index(Got(Claimant))).kind # ""
  BY DEF KindChanged
<1>2. Claimant \in Name
  BY DEF Claimant, Bracketed, Mounted, Name
<1>3. fiber[Claimant] # NoFiber
  <2> SUFFICES ASSUME fiber[Claimant] = NoFiber
               PROVE  FALSE
    OBVIOUS
  <2> DEFINE g == Got(Claimant)
  <2>1. g.slots = <<>>
    BY DEF Got
  <2>2. SlotOf(g, Index(g)) = EmptySlot
    BY <2>1 DEF SlotOf
  <2>3. EmptySlot.kind = ""
    BY DEF EmptySlot
  <2>4. SlotOf(g, Index(g)).kind # ""
    BY <1>1
  <2> HIDE DEF g
  <2> QED
    BY <2>2, <2>3, <2>4
<1>4. /\ fiber[Claimant] \in Fiber /\ Claimed(fiber[Claimant]) \in Fiber
      /\ Claimed(fiber[Claimant]).slots = fiber[Claimant].slots
      /\ Claimed(fiber[Claimant]).gen = fiber[Claimant].gen
  BY <1>2, <1>3, FiberClaimed, SlotsOfClaimed DEF Bracketed, Mounted
<1>5. /\ fs \in [Name -> Fiber \cup {NoFiber}] /\ fs[Claimant] = Claimed(fiber[Claimant])
      /\ \A n \in Name \ {Claimant} : fs[n] = fiber[n]
  BY <1>2, <1>4 DEF Bracketed, Mounted
<1> HIDE DEF fs
<1>6. \A n \in Name : /\ fs[n] = NoFiber <=> fiber[n] = NoFiber
                      /\ fiber[n] # NoFiber =>
                           fs[n].slots = fiber[n].slots /\ fs[n].gen = fiber[n].gen
  <2> SUFFICES ASSUME NEW n \in Name
               PROVE  /\ fs[n] = NoFiber <=> fiber[n] = NoFiber
                      /\ fiber[n] # NoFiber =>
                           fs[n].slots = fiber[n].slots /\ fs[n].gen = fiber[n].gen
    OBVIOUS
  <2>1. CASE n = Claimant
    BY <1>3, <1>4, <1>5, <2>1, NoFiberAssumption
  <2>2. CASE n # Claimant
    BY <1>5, <2>2
  <2> QED
    BY <2>1, <2>2
<1> QED
  BY <1>1, <1>5, <1>6, AccountsPanic

LEMMA AccountsEndRender ==
  ASSUME Bracketed, Bracketed', Accounted, EndRender
  PROVE  Accounted'
<1>1. At("render") /\ stack # <<>> /\ Stacked
  BY InsideRender DEF EndRender
<1>2. CASE current # Nobody /\ fiber[current].expectedHooks \notin {-1, fiber[current].cursor}
  <2>1. UNCHANGED gen /\ Panic(fiber)
    BY <1>2 DEF EndRender
  <2> QED
    BY <2>1, AccountsPanic DEF Bracketed, Mounted
<1>3. CASE ~(current # Nobody /\ fiber[current].expectedHooks \notin {-1, fiber[current].cursor})
  <2>1. /\ fiber' = IF current = Nobody THEN fiber
                    ELSE [fiber EXCEPT ![current].expectedHooks = fiber[current].cursor]
        /\ stack' = Below /\ UNCHANGED gen /\ UNCHANGED runs
    BY <1>3 DEF EndRender
  <2>2. FibersKeep
    <3>1. CASE current = Nobody
      BY <2>1, <3>1, SlotsStay
    <3>2. CASE current # Nobody
      <4>1. current \in Name /\ fiber[current] \in Fiber
        BY <3>2 DEF Bracketed, Mounted, Calm
      <4> DEFINE g == [fiber[current] EXCEPT !.expectedHooks = fiber[current].cursor]
      <4>2. g \in Fiber /\ g.slots = fiber[current].slots /\ g.gen = fiber[current].gen
        BY <4>1 DEF Fiber
      <4>3. fiber' = [fiber EXCEPT ![current] = g]
        BY <2>1, <3>2
      <4> HIDE DEF g
      <4>4. fiber'[current] = g /\ g # NoFiber /\ \A n \in Name \ {current} : fiber'[n] = fiber[n]
        BY <4>1, <4>2, <4>3, NoFiberAssumption DEF Bracketed, Mounted
      <4>5. fiber[current] # NoFiber
        BY <4>1, NoFiberAssumption
      <4>6. \A n \in Name : /\ fiber'[n] = NoFiber <=> fiber[n] = NoFiber
                            /\ fiber[n] # NoFiber =>
                                 fiber'[n].slots = fiber[n].slots /\ fiber'[n].gen = fiber[n].gen
        BY <4>2, <4>4, <4>5
      <4> QED
        BY <2>1, <4>6, SlotsStay
    <3> QED
      BY <3>1, <3>2
  <2>3. SameFrames(stack, stack')
    BY <1>1, <2>1, FramesPopped DEF At
  <2> QED
    BY <1>1, <2>1, <2>2, <2>3, NoEffects, RendersKeep
<1> QED
  BY <1>2, <1>3

(***************************************************************************)
(* Hooks keep the cleanup of the slot that they claim.                      *)
(***************************************************************************)
LEMMA ClaimKeeps ==
  ASSUME Bracketed, NEW slot \in Slot, Claim(slot), slot.cleanup = CleanupAt(Claimant, Index(Got(Claimant)))
  PROVE  /\ FibersKeep
         /\ fiber'[Claimant] # NoFiber /\ fiber'[Claimant].gen = Got(Claimant).gen
<1> DEFINE f == Got(Claimant)
           g == Stored(Claimed(f), Index(f), slot)
<1>1. Claimant \in Name
  BY DEF Claimant, Bracketed, Mounted, Name
<1>2. f \in Fiber /\ GenWith(Claimant) \in Nat
  BY <1>1, FiberGot DEF Bracketed
<1>3. Claimed(f) \in Fiber /\ Index(f) \in Nat /\ Claimed(f).gen = f.gen
      /\ \A i : SlotOf(Claimed(f), i) = SlotOf(f, i)
  <2> HIDE DEF f
  <2> QED
    BY <1>2, FiberClaimed, SlotsOfClaimed
<1>4. g \in Fiber /\ g.gen = f.gen
  <2> DEFINE h == Claimed(f)
             j == Index(f)
  <2>1. h \in Fiber /\ j \in Nat /\ h.gen = f.gen
    BY <1>3
  <2> HIDE DEF h, j
  <2>2. Stored(h, j, slot) \in Fiber
    BY <2>1, FiberStored
  <2>3. Stored(h, j, slot).gen = h.gen
    BY <2>1 DEF Stored, Fiber
  <2> QED
    BY <2>1, <2>2, <2>3 DEF h, j
<1>5. \A i \in Nat : SlotOf(g, i).cleanup = SlotOf(f, i).cleanup
  <2> SUFFICES ASSUME NEW i \in Nat
               PROVE  SlotOf(g, i).cleanup = SlotOf(f, i).cleanup
    OBVIOUS
  <2>1. SlotOf(g, i) = IF i = Index(f) /\ Index(f) # 0 THEN slot ELSE SlotOf(Claimed(f), i)
    <3> HIDE DEF f
    <3> QED
      BY <1>3, SlotStored
  <2>2. slot.cleanup = SlotOf(f, Index(f)).cleanup
    BY <1>1, GotSlots
  <2> HIDE DEF f, g
  <2> QED
    BY <1>3, <2>1, <2>2
<1>6. fiber' = [fiber EXCEPT ![Claimant] = g] /\ gen' = GenWith(Claimant)
  BY DEF Claim
<1> HIDE DEF g
<1>7. FibersKeep
  BY <1>1, <1>4, <1>5, <1>6, WrittenKeeps
<1>8. fiber'[Claimant] = g /\ g # NoFiber
  BY <1>1, <1>4, <1>6, NoFiberAssumption DEF Bracketed, Mounted
<1> QED
  BY <1>4, <1>7, <1>8 DEF FibersKeep

\* The slot that a hook claims, whose kind and initialized it may write.
LEMMA ClaimedCleanup ==
  ASSUME Bracketed, NEW kind \in Kind
  PROVE  LET f == Got(Claimant)
             slot == SlotOf(f, Index(f))
         IN /\ slot.cleanup = CleanupAt(Claimant, Index(f))
            /\ [slot EXCEPT !.kind = kind, !.initialized = TRUE].cleanup = slot.cleanup
            /\ [slot EXCEPT !.kind = kind].cleanup = slot.cleanup
<1> DEFINE f == Got(Claimant)
           slot == SlotOf(f, Index(f))
<1>1. slot \in Slot /\ Claimant \in Name
  BY SlotClaimed
<1>2. slot.cleanup = CleanupAt(Claimant, Index(f))
  BY <1>1, GotSlots
<1>3. /\ [slot EXCEPT !.kind = kind, !.initialized = TRUE].cleanup = slot.cleanup
      /\ [slot EXCEPT !.kind = kind].cleanup = slot.cleanup
  <2> HIDE DEF slot
  <2> QED
    BY <1>1 DEF Slot
<1> QED
  BY <1>2, <1>3

LEMMA AccountsHooks ==
  ASSUME Bracketed, Bracketed', Accounted, UseState \/ UseMemo \/ UseRef
  PROVE  Accounted'
<1> DEFINE f == Got(Claimant)
           slot(kind) == [SlotOf(f, Index(f)) EXCEPT !.kind = kind, !.initialized = TRUE]
<1>1. At("render") /\ Top.body # <<>> /\ stack' = Rest /\ UNCHANGED runs
  BY DEF UseState, UseMemo, UseRef, Keeps, Claims, Doing
<1>2. PICK kind \in Kind : Claim(slot(kind))
  <2>1. {"state", "memo", "ref"} \subseteq Kind
    BY DEF Kind
  <2> QED
    BY <2>1 DEF UseState, UseMemo, UseRef, Keeps
<1>3. slot(kind) \in Slot /\ slot(kind).cleanup = CleanupAt(Claimant, Index(f))
  <2>1. slot(kind) \in Slot
    BY SlotClaimed
  <2>2. slot(kind).cleanup = CleanupAt(Claimant, Index(f))
    BY ClaimedCleanup
  <2> QED
    BY <2>1, <2>2
<1>4. FibersKeep
  <2> HIDE DEF slot
  <2> QED
    BY <1>2, <1>3, ClaimKeeps
<1> QED
  BY <1>1, <1>4, FramesRest, NoEffects, RendersKeep

(***************************************************************************)
(* An effect that runs anew: its old run is cleaned up and still held.      *)
(***************************************************************************)
LEMMA AccountsUseEffect ==
  ASSUME Bracketed, Bracketed', Accounted, NEW d \in Dep, UseEffect(d)
  PROVE  Accounted'
<1> DEFINE f == Got(Claimant)
           slot == SlotOf(f, Index(f))
           old == CleanupAt(Claimant, Index(f))
           call == [at |-> "effect", id |-> Claimant, gen |-> f.gen, idx |-> Index(f),
                    deps |-> {d}, old |-> slot.cleanup]
<1>1. /\ At("render") /\ Top.body # <<>>
      /\ Claim([slot EXCEPT !.kind = "effect"])
      /\ \/ stack' = Rest /\ UNCHANGED runs
         \/ /\ stack' = Append(Rest, call)
            /\ cleaned' = IF slot.cleanup = NoRun THEN cleaned ELSE [cleaned EXCEPT ![slot.cleanup] = @ + 1]
            /\ UNCHANGED <<begun, excused>>
  BY DEF UseEffect, Claims, Doing, OldCleanup
<1>2. /\ slot \in Slot /\ [slot EXCEPT !.kind = "effect"] \in Slot
      /\ Claimant \in Name /\ Index(f) \in Nat /\ f.gen \in Nat
      /\ slot.cleanup = old /\ [slot EXCEPT !.kind = "effect"].cleanup = old
  <2>1. "effect" \in Kind
    BY DEF Kind
  <2>2. /\ slot \in Slot /\ [slot EXCEPT !.kind = "effect"] \in Slot
        /\ Claimant \in Name /\ Index(f) \in Nat /\ f.gen \in Nat
    BY <2>1, SlotClaimed
  <2>3. slot.cleanup = old /\ [slot EXCEPT !.kind = "effect"].cleanup = slot.cleanup
    BY <2>1, ClaimedCleanup
  <2> QED
    BY <2>2, <2>3
<1>3. FibersKeep /\ fiber'[Claimant] # NoFiber /\ fiber'[Claimant].gen = f.gen
  <2> HIDE DEF slot
  <2> QED
    BY <1>1, <1>2, ClaimKeeps
<1>4. (\A k : ~EffectAt(k)) /\ SameFrames(stack, Rest) /\ Calls(Rest)
  BY <1>1, NoEffects, FramesRest, RestOf
<1>5. CASE stack' = Rest /\ UNCHANGED runs
  BY <1>3, <1>4, <1>5, RendersKeep
<1>6. CASE /\ stack' = Append(Rest, call)
           /\ cleaned' = IF slot.cleanup = NoRun THEN cleaned ELSE [cleaned EXCEPT ![slot.cleanup] = @ + 1]
           /\ UNCHANGED <<begun, excused>>
  <2> DEFINE n == Len(Rest) + 1
  <2>1. old \in Run \cup {NoRun}
    BY <1>2 DEF Slot
  <2>2. call \in [at: {"effect"}, id: Name, gen: Nat, idx: Nat, deps: SUBSET Dep, old: Run \cup {NoRun}]
        /\ call.at = "effect" /\ call.id = Claimant /\ call.gen = f.gen /\ call.idx = Index(f)
        /\ call.old = old
    <3> HIDE DEF slot, f, old
    <3> QED
      BY <1>2, <2>1
  <2> HIDE DEF call, slot
  <2>3. Entered(call)
    BY <2>2 DEF Entered
  <2>4. /\ Len(Rest) \in Nat /\ DOMAIN stack' = 1..n
        /\ \A i \in 1..Len(Rest) : stack'[i] = Rest[i]
        /\ stack'[n] = call /\ DOMAIN Rest = 1..Len(Rest)
    BY <1>4, <1>6, <2>3, Pushed DEF Calls
  <2>5. \A k : k \in DOMAIN stack' <=> k \in DOMAIN Rest \/ k = n
    BY <2>4
  <2>6. n \notin DOMAIN Rest /\ n \in Nat
    BY <2>4
  <2> HIDE DEF n
  <2>7. \A k : EffectAt(k)' <=> k = n
    <3>1. \A k \in DOMAIN Rest : Rest[k].at # "effect"
      BY <1>4 DEF SameFrames, EffectAt
    <3> QED
      BY <2>2, <2>4, <2>5, <3>1 DEF EffectAt
  <2>8. \A r, k, i : PendingAt(r, k, i)' <=> PendingAt(r, k, i)
    <3>1. \A k : /\ (k \in DOMAIN stack /\ stack[k].at = "unmount")
                     <=> (k \in DOMAIN Rest /\ Rest[k].at = "unmount")
                 /\ k \in DOMAIN stack /\ stack[k].at = "unmount" => Rest[k] = stack[k]
      BY <1>4 DEF SameFrames
    <3>2. \A k : /\ (k \in DOMAIN stack' /\ stack'[k].at = "unmount")
                     <=> (k \in DOMAIN Rest /\ Rest[k].at = "unmount")
                 /\ k \in DOMAIN Rest => stack'[k] = Rest[k]
      BY <2>2, <2>4, <2>5
    <3> QED
      BY <3>1, <3>2 DEF PendingAt
  <2>9. Nested'
    <3> SUFFICES ASSUME NEW k \in DOMAIN stack', NEW l \in DOMAIN stack', k < l, stack'[k].at = "effect"
                 PROVE  FALSE
      BY DEF Nested
    <3>1. k = n
      BY <2>7 DEF EffectAt
    <3>2. l \in 1..n /\ n < l
      BY <2>4, <3>1
    <3> QED
      BY <2>6, <3>2
  <2>10. ASSUME NEW k, EffectAt(k)'
         PROVE  Attached(k)'
    <3>1. stack'[k] = call
      BY <2>4, <2>7, <2>10
    <3>2. f.gen <= gen' /\ Index(f) # 0
      <4>1. fiber'[Claimant].gen <= gen'
        BY <1>2, <1>3, NoneYounger DEF Bracketed, Mounted
      <4>2. f.cursor \in Nat
        <5>1. f \in Fiber
          BY <1>2, FiberGot DEF Bracketed
        <5> QED
          BY <5>1 DEF Fiber
      <4> QED
        BY <1>3, <4>1, <4>2 DEF Index
    <3>3. StillMounted(k)'
      BY <1>3, <2>2, <3>1 DEF StillMounted
    <3>4. CleanupAt(stack[k].id, stack[k].idx)' = stack'[k].old
      BY <1>2, <1>3, <2>2, <3>1 DEF FibersKeep, CleanupAt
    <3> QED
      BY <2>2, <3>1, <3>2, <3>3, <3>4 DEF Attached
  <2>11. ASSUME NEW r \in Run \ excused
         PROVE  Once(r)' /\ Balanced(r)'
    <3>1. Once(r) /\ Balanced(r) /\ ~Again(r)
      BY <1>4 DEF Accounted, Again
    <3>2. (Holds(r)' <=> Holds(r)) /\ (Waits(r)' <=> Waits(r))
      BY <1>3, <2>8 DEF Holds, Waits, FibersKeep
    <3>3. Again(r)' <=> r = old
      BY <2>2, <2>4, <2>7 DEF Again
    <3>4. \A m, p \in Name, i, j \in Nat :
            CleanupAt(m, i)' = r /\ CleanupAt(p, j)' = r => m = p /\ i = j
      BY <1>3, <3>1 DEF Once, FibersKeep
    <3>5. Once(r)'
      BY <2>8, <3>1, <3>2, <3>4 DEF Once
    <3>6. CASE r = old
      <4>1. Holds(r) /\ ~Waits(r)
        BY <1>2, <3>1, <3>6 DEF Holds, Once
      <4>2. r \in begun /\ cleaned[r] = 0
        BY <3>1, <4>1 DEF Balanced
      <4>3. cleaned'[r] = 1
        BY <1>2, <1>6, <3>6, <4>2, HooksAssumption DEF Accounted
      <4> QED
        BY <1>6, <3>2, <3>3, <3>5, <3>6, <4>1, <4>2, <4>3 DEF Balanced
    <3>7. CASE r # old
      <4>1. cleaned'[r] = cleaned[r]
        BY <1>2, <1>6, <3>7 DEF Accounted
      <4> QED
        BY <1>6, <3>1, <3>2, <3>3, <3>5, <3>7, <4>1 DEF Balanced
    <3> QED
      BY <3>6, <3>7
  <2>12. cleaned' \in [Run -> Nat]
    BY <1>2, <1>6, <2>1 DEF Accounted
  <2>13. \A m \in Name : fiber'[m] # NoFiber => fiber'[m].gen <= gen'
    BY <1>3, NoneYounger DEF Bracketed, Mounted
  <2> QED
    BY <1>6, <2>9, <2>10, <2>11, <2>12, <2>13 DEF Accounted
<1> QED
  BY <1>1, <1>5, <1>6

(***************************************************************************)
(* An effect's function returns: its run takes the place of the old one.    *)
(***************************************************************************)

\* The calls but the last stay.
LEMMA LastReturns ==
  ASSUME Stacked, stack # <<>>, stack' = Below
  PROVE  /\ \A k : k \in DOMAIN stack' <=> k \in DOMAIN stack /\ k # Len(stack)
         /\ \A k \in DOMAIN stack' : stack'[k] = stack[k]
         /\ Len(stack) \in DOMAIN stack /\ Top = stack[Len(stack)]
         /\ \A k \in DOMAIN stack : k # Len(stack) => k < Len(stack)
<1>1. /\ Len(stack) \in Nat \ {0} /\ DOMAIN stack = 1..Len(stack) /\ Top = stack[Len(stack)]
      /\ DOMAIN Below = 1..(Len(stack) - 1)
      /\ \A i \in 1..(Len(stack) - 1) : Below[i] = stack[i]
  BY LastCall
<1> DEFINE n == Len(stack)
<1>2. n \in Nat \ {0} /\ DOMAIN stack = 1..n /\ DOMAIN stack' = 1..(n - 1)
  BY <1>1
<1> HIDE DEF n
<1>3. /\ \A k : k \in DOMAIN stack' <=> k \in DOMAIN stack /\ k # n
      /\ n \in DOMAIN stack
      /\ \A k \in DOMAIN stack : k # n => k < n
  BY <1>2
<1> QED
  BY <1>1, <1>3 DEF n

LEMMA ReturnsNested ==
  ASSUME Stacked, stack # <<>>, stack' = Below, Nested
  PROVE  Nested'
  BY LastReturns DEF Nested

LEMMA AccountsEffectReturns ==
  ASSUME Bracketed, Bracketed', Accounted, NEW new \in Run, EffectReturns(new)
  PROVE  Accounted'
<1> DEFINE at == Len(stack)
           slot == [EmptySlot EXCEPT !.kind = "effect", !.initialized = TRUE, !.deps = Top.deps, !.cleanup = new]
           g == Stored(fiber[Top.id], Top.idx, slot)
<1>1. /\ stack # <<>> /\ Stacked /\ stack' = Below /\ Top.at = "effect"
      /\ Top \in [at: {"effect"}, id: Name, gen: Nat, idx: Nat, deps: SUBSET Dep, old: Run \cup {NoRun}]
      /\ new \notin begun /\ begun' = begun \cup {new} /\ UNCHANGED <<gen, cleaned>>
  BY InsideEffect DEF EffectReturns, At
<1>2. /\ \A k : k \in DOMAIN stack' <=> k \in DOMAIN stack /\ k # at
      /\ \A k \in DOMAIN stack' : stack'[k] = stack[k]
      /\ at \in DOMAIN stack /\ Top = stack[at]
      /\ \A k \in DOMAIN stack : k # at => k < at
  BY <1>1, LastReturns
<1> HIDE DEF at
<1>3. \A k : EffectAt(k) <=> k = at
  BY <1>1, <1>2 DEF EffectAt, Accounted, Nested
<1>4. \A k : ~EffectAt(k)'
  BY <1>2, <1>3 DEF EffectAt
<1>5. \A r, k, i : PendingAt(r, k, i)' <=> PendingAt(r, k, i)
  BY <1>1, <1>2 DEF PendingAt
<1>6. Attached(at) /\ (StillMounted(at) <=> fiber[Top.id] # NoFiber /\ fiber[Top.id].gen = Top.gen)
  BY <1>2, <1>3 DEF Accounted, StillMounted
<1>7. \A r : Again(r) <=> r = Top.old
  BY <1>2, <1>3 DEF Again
<1>8. Nested'
  BY <1>1, ReturnsNested DEF Accounted
<1>9. \A r : ~Again(r)' /\ (Waits(r)' <=> Waits(r))
  BY <1>4, <1>5 DEF Again, Waits
<1>10. CASE ~StillMounted(at)
  <2>1. fiber' = fiber /\ excused' = excused \cup {new}
    BY <1>6, <1>10 DEF EffectReturns
  <2>2. Top.old \in excused \cup {NoRun}
    BY <1>2, <1>6, <1>10 DEF Attached
  <2>3. \A n, i : CleanupAt(n, i)' = CleanupAt(n, i)
    BY <2>1 DEF CleanupAt
  <2>4. ASSUME NEW r \in Run \ excused'
        PROVE  Once(r)' /\ Balanced(r)'
    <3>1. r \in Run \ excused /\ r # new /\ Once(r) /\ Balanced(r) /\ ~Again(r)
      BY <1>7, <2>1, <2>2, HooksAssumption DEF Accounted
    <3>2. Holds(r)' <=> Holds(r)
      BY <2>3 DEF Holds
    <3>3. Once(r)'
      BY <1>5, <1>9, <2>3, <3>1, <3>2 DEF Once
    <3>4. Balanced(r)'
      BY <1>1, <1>9, <3>1, <3>2 DEF Balanced
    <3> QED
      BY <3>3, <3>4
  <2> QED
    BY <1>1, <1>4, <1>8, <2>1, <2>4 DEF Accounted
<1>11. CASE StillMounted(at)
  <2>1. fiber' = [fiber EXCEPT ![Top.id] = g] /\ excused' = excused
    BY <1>6, <1>11 DEF EffectReturns
  <2>2. /\ fiber[Top.id] \in Fiber /\ Top.id \in Name /\ Top.idx \in Nat /\ Top.idx # 0
        /\ CleanupAt(Top.id, Top.idx) = Top.old
    BY <1>1, <1>2, <1>6, <1>11 DEF Attached, Bracketed, Mounted
  <2>3. slot \in Slot /\ slot.cleanup = new
    BY <1>1 DEF EmptySlot, Slot, Kind
  <2>4. /\ g \in Fiber /\ g.gen = fiber[Top.id].gen
        /\ \A i \in Nat : SlotOf(g, i) = IF i = Top.idx THEN slot ELSE SlotOf(fiber[Top.id], i)
    <3> DEFINE h == fiber[Top.id]
               j == Top.idx
    <3>1. h \in Fiber /\ j \in Nat /\ j # 0
      BY <2>2
    <3> HIDE DEF h, j, slot
    <3>2. Stored(h, j, slot) \in Fiber /\ Stored(h, j, slot).gen = h.gen
      BY <2>3, <3>1, FiberStored DEF Stored, Fiber
    <3>3. \A i \in Nat : SlotOf(Stored(h, j, slot), i) = IF i = j THEN slot ELSE SlotOf(h, i)
      BY <2>3, <3>1, SlotStored
    <3> QED
      BY <3>2, <3>3 DEF h, j
  <2> HIDE DEF g, slot
  <2>5. /\ fiber'[Top.id] = g /\ g # NoFiber /\ fiber[Top.id] # NoFiber
        /\ \A n \in Name \ {Top.id} : fiber'[n] = fiber[n]
    BY <2>1, <2>2, <2>4, NoFiberAssumption DEF Bracketed, Mounted
  <2>6. \A n \in Name, i \in Nat :
          CleanupAt(n, i)' = IF n = Top.id /\ i = Top.idx THEN new ELSE CleanupAt(n, i)
    <3> SUFFICES ASSUME NEW n \in Name, NEW i \in Nat
                 PROVE  CleanupAt(n, i)' = IF n = Top.id /\ i = Top.idx THEN new ELSE CleanupAt(n, i)
      OBVIOUS
    <3>1. CASE n = Top.id
      <4>1. CleanupAt(n, i)' = SlotOf(g, i).cleanup
        BY <2>5, <3>1 DEF CleanupAt, SlotOf
      <4>2. CleanupAt(n, i) = SlotOf(fiber[Top.id], i).cleanup
        BY <2>5, <3>1 DEF CleanupAt
      <4> QED
        BY <2>3, <2>4, <3>1, <4>1, <4>2
    <3>2. CASE n # Top.id
      BY <2>5, <3>2 DEF CleanupAt
    <3> QED
      BY <3>1, <3>2
  <2>7. ASSUME NEW r \in Run \ excused
        PROVE  Once(r)' /\ Balanced(r)'
    <3>1. Once(r) /\ Balanced(r)
      BY DEF Accounted
    <3>2. CASE r = new
      <4>1. ~Holds(r) /\ ~Waits(r) /\ cleaned[r] = 0
        BY <1>1, <3>1, <3>2 DEF Balanced
      <4>2. \A n \in Name, i \in Nat : CleanupAt(n, i)' = r <=> n = Top.id /\ i = Top.idx
        BY <2>6, <3>2, <4>1 DEF Holds
      <4>3. Holds(r)' /\ ~Waits(r)'
        BY <1>9, <2>2, <4>1, <4>2 DEF Holds
      <4>4. Once(r)'
        BY <4>2, <4>3 DEF Once, Waits
      <4>5. Balanced(r)'
        BY <1>1, <1>9, <3>2, <4>1, <4>3 DEF Balanced
      <4> QED
        BY <4>4, <4>5
    <3>3. CASE r = Top.old /\ r # new
      <4>1. Holds(r) /\ ~Waits(r) /\ Again(r)
        BY <1>7, <2>2, <3>1, <3>3 DEF Holds, Once
      <4>2. r \in begun /\ cleaned[r] = 1
        BY <3>1, <4>1 DEF Balanced
      <4>3. ~Holds(r)'
        <5> SUFFICES ASSUME NEW n \in Name, NEW i \in Nat, CleanupAt(n, i)' = r
                     PROVE  FALSE
          BY DEF Holds
        <5>1. CleanupAt(n, i) = r /\ ~(n = Top.id /\ i = Top.idx)
          BY <2>6, <3>3
        <5> QED
          BY <2>2, <3>1, <3>3, <5>1 DEF Once
      <4>4. Once(r)'
        BY <1>9, <4>1, <4>3 DEF Once, Holds, Waits
      <4>5. Balanced(r)'
        BY <1>1, <1>9, <4>1, <4>2, <4>3 DEF Balanced
      <4> QED
        BY <4>4, <4>5
    <3>4. CASE r # Top.old /\ r # new
      <4>1. \A n \in Name, i \in Nat : CleanupAt(n, i)' = r <=> CleanupAt(n, i) = r
        BY <2>2, <2>6, <3>4
      <4>2. (Holds(r)' <=> Holds(r)) /\ ~Again(r)
        BY <1>7, <3>4, <4>1 DEF Holds
      <4>3. Once(r)'
        BY <1>5, <1>9, <3>1, <4>1, <4>2 DEF Once
      <4>4. Balanced(r)'
        BY <1>1, <1>9, <3>1, <3>4, <4>2 DEF Balanced
      <4> QED
        BY <4>3, <4>4
    <3> QED
      BY <3>2, <3>3, <3>4
  <2>8. \A n \in Name : fiber'[n] # NoFiber => fiber'[n].gen <= gen'
    BY <1>1, <2>2, <2>4, <2>5 DEF Accounted
  <2> QED
    BY <1>1, <1>4, <1>8, <2>1, <2>7, <2>8 DEF Accounted
<1> QED
  BY <1>10, <1>11

(***************************************************************************)
(* Handlers, effects and cleanups.                                          *)
(***************************************************************************)
LEMMA AccountsSetState ==
  ASSUME Bracketed, Bracketed', Accounted, NEW h \in handles, SetState(h)
  PROVE  Accounted'
<1> DEFINE f == Got(h.id)
           old == SlotOf(f, h.idx)
           slot == [old EXCEPT !.value = h.gen, !.initialized = TRUE]
           g == Stored(f, h.idx, slot)
<1>1. fiber' = [fiber EXCEPT ![h.id] = g] /\ gen' = GenWith(h.id) /\ UNCHANGED stack /\ UNCHANGED runs
  BY DEF SetState
<1>2. h.id \in Name /\ h.idx \in Nat /\ h.gen \in Nat
  BY DEF Bracketed, Mounted, Handle
<1>3. f \in Fiber
  BY <1>2, FiberGot DEF Bracketed
<1>4. slot \in Slot /\ slot.cleanup = old.cleanup
  <2>1. old \in Slot
    BY <1>2, <1>3, SlotTyped
  <2> HIDE DEF old
  <2> QED
    BY <1>2, <2>1 DEF Slot
<1>5. g \in Fiber /\ g.gen = f.gen /\ \A i \in Nat : SlotOf(g, i).cleanup = SlotOf(f, i).cleanup
  <2> DEFINE j == h.idx
  <2>1. j \in Nat
    BY <1>2
  <2>2. old = SlotOf(f, j)
    OBVIOUS
  <2> HIDE DEF f, slot, old, j
  <2>3. Stored(f, j, slot) \in Fiber /\ Stored(f, j, slot).gen = f.gen
    BY <1>3, <1>4, <2>1, FiberStored DEF Stored, Fiber
  <2>4. \A i \in Nat : SlotOf(Stored(f, j, slot), i) = IF i = j /\ j # 0 THEN slot ELSE SlotOf(f, i)
    BY <1>3, <1>4, <2>1, SlotStored
  <2>5. \A i \in Nat : SlotOf(Stored(f, j, slot), i).cleanup = SlotOf(f, i).cleanup
    BY <1>4, <2>2, <2>4
  <2> QED
    BY <2>3, <2>5 DEF j
<1> HIDE DEF g
<1>6. FibersKeep
  BY <1>1, <1>2, <1>5, WrittenKeeps
<1>7. CallsKeep /\ Nested'
  BY <1>1 DEF CallsKeep, EffectAt, PendingAt, Accounted, Nested
<1> QED
  BY <1>1, <1>6, <1>7, AccountsKeep

\* What an Unmount is to call.
LEMMA CleanupsOf ==
  ASSUME NEW f \in Fiber, NEW r \in Run, NEW i
  PROVE  (i \in DOMAIN Cleanups(f) /\ Cleanups(f)[i] = r) <=> (i \in Nat /\ SlotOf(f, i).cleanup = r)
<1>1. NoRun # r /\ EmptySlot.cleanup = NoRun
  BY HooksAssumption DEF EmptySlot
<1>2. DOMAIN f.slots = 1..Len(f.slots) /\ Len(f.slots) \in Nat
  BY DEF Fiber
<1>3. i \in DOMAIN f.slots => i \in Nat
  BY <1>2
<1>4. (i \in DOMAIN Cleanups(f) /\ Cleanups(f)[i] = r)
        <=> (i \in DOMAIN f.slots /\ f.slots[i].cleanup = r)
  BY <1>1 DEF Cleanups
<1> QED
  BY <1>1, <1>3, <1>4 DEF SlotOf

(***************************************************************************)
(* Unmount: what its fiber held waits for its loop, but for the old run of  *)
(* an effect that runs anew, which it excuses.                              *)
(***************************************************************************)
LEMMA AccountsUnmount ==
  ASSUME Bracketed, Bracketed', Accounted, NEW n \in Name, Unmount(n)
  PROVE  Accounted'
<1> DEFINE call == [at |-> "unmount", todo |-> Cleanups(fiber[n]), ran |-> FALSE]
           last == Len(stack) + 1
<1>1. /\ fiber[n] # NoFiber /\ fiber' = [fiber EXCEPT ![n] = NoFiber]
      /\ stack' = Append(stack, call)
      /\ excused' = excused \cup ({f.old : f \in Frames("effect")} \cap RunsOf(Cleanups(fiber[n])))
      /\ UNCHANGED <<gen, begun, cleaned>>
  BY DEF Unmount
<1>2. call.at = "unmount" /\ call.todo = Cleanups(fiber[n]) /\ Entered(call)
  BY DEF Entered
<1> HIDE DEF call
<1>3. /\ Len(stack) \in Nat /\ DOMAIN stack' = 1..last
      /\ \A i \in 1..Len(stack) : stack'[i] = stack[i]
      /\ stack'[last] = call /\ DOMAIN stack = 1..Len(stack)
  BY <1>1, <1>2, Pushed DEF Bracketed, Stacked, Calls
<1>4. /\ \A k : k \in DOMAIN stack' <=> k \in DOMAIN stack \/ k = last
      /\ last \notin DOMAIN stack
      /\ \A k \in DOMAIN stack : stack'[k] = stack[k] /\ k < last /\ ~(last < k)
      /\ ~(last < last)
  BY <1>3
<1> HIDE DEF last
<1>5. fiber[n] \in Fiber /\ fiber' \in [Name -> Fiber \cup {NoFiber}]
  BY <1>1 DEF Bracketed, Mounted
<1>6. \A i : \A m \in Name : CleanupAt(m, i)' = IF m = n THEN NoRun ELSE CleanupAt(m, i)
  BY <1>1 DEF CleanupAt, Bracketed, Mounted
<1>7. \A k : EffectAt(k)' <=> EffectAt(k)
  BY <1>2, <1>3, <1>4 DEF EffectAt
<1>8. \A k, i : \A r \in Run : PendingAt(r, k, i)' <=>
        PendingAt(r, k, i) \/ (k = last /\ i \in Nat /\ CleanupAt(n, i) = r)
  <2> SUFFICES ASSUME NEW r \in Run, NEW k, NEW i
               PROVE  PendingAt(r, k, i)' <=>
                        PendingAt(r, k, i) \/ (k = last /\ i \in Nat /\ CleanupAt(n, i) = r)
    OBVIOUS
  <2>1. (i \in DOMAIN call.todo /\ call.todo[i] = r) <=> (i \in Nat /\ CleanupAt(n, i) = r)
    BY <1>1, <1>2, <1>5, CleanupsOf DEF CleanupAt
  <2>2. CASE k = last
    BY <1>2, <1>3, <1>4, <2>1, <2>2 DEF PendingAt
  <2>3. CASE k # last
    BY <1>4, <2>3 DEF PendingAt
  <2> QED
    BY <2>2, <2>3
<1>9. \A k, r, i : PendingAt(r, k, i) => k # last
  BY <1>4 DEF PendingAt
<1>10. Nested'
  BY <1>2, <1>3, <1>4 DEF Accounted, Nested
<1>11. ASSUME NEW k, EffectAt(k)'
       PROVE  Attached(k)'
  <2>1. EffectAt(k) /\ stack'[k] = stack[k] /\ Attached(k)
    BY <1>4, <1>7, <1>11 DEF EffectAt, Accounted
  <2>2. stack[k].id \in Name /\ stack[k].idx \in Nat /\ stack[k].old \in Run \cup {NoRun}
    BY <2>1, EffectCall
  <2>3. CASE stack[k].id = n
    <3>1. ~StillMounted(k)'
      BY <1>1, <2>1, <2>2, <2>3 DEF StillMounted, Bracketed, Mounted
    <3>2. stack[k].old \in excused' \cup {NoRun}
      <4>1. CASE ~StillMounted(k)
        BY <1>1, <2>1, <4>1 DEF Attached
      <4>2. CASE StillMounted(k) /\ stack[k].old # NoRun
        <5>1. CleanupAt(n, stack[k].idx) = stack[k].old /\ stack[k].old \in Run
          BY <2>1, <2>2, <2>3, <4>2 DEF Attached
        <5>2. stack[k].old \in RunsOf(Cleanups(fiber[n]))
          BY <1>1, <1>5, <2>2, <5>1, CleanupsOf DEF CleanupAt, RunsOf
        <5>3. stack[k].old \in {f.old : f \in Frames("effect")}
          BY <2>1 DEF EffectAt, Frames
        <5> QED
          BY <1>1, <5>2, <5>3
      <4> QED
        BY <4>1, <4>2
    <3> QED
      BY <1>1, <2>1, <3>1, <3>2 DEF Attached
  <2>4. CASE stack[k].id # n
    <3>1. StillMounted(k)' <=> StillMounted(k)
      BY <1>1, <2>1, <2>2, <2>4 DEF StillMounted, Bracketed, Mounted
    <3>2. CleanupAt(stack[k].id, stack[k].idx)' = CleanupAt(stack[k].id, stack[k].idx)
      BY <1>1, <2>1, <2>2, <2>4 DEF CleanupAt, Bracketed, Mounted
    <3> QED
      BY <1>1, <2>1, <3>1, <3>2 DEF Attached
  <2> QED
    BY <2>3, <2>4
<1>12. ASSUME NEW r \in Run \ excused'
       PROVE  Once(r)' /\ Balanced(r)'
  <2>1. r \in Run \ excused /\ Once(r) /\ Balanced(r) /\ r # NoRun
    BY <1>1, HooksAssumption DEF Accounted
  <2>2. Again(r)' <=> Again(r)
    BY <1>4, <1>7 DEF Again, EffectAt
  <2>3. \A m \in Name, i \in Nat : CleanupAt(m, i)' = r <=> m # n /\ CleanupAt(m, i) = r
    BY <1>6, <2>1
  <2>4. CASE \E i \in Nat : CleanupAt(n, i) = r
    <3>1. PICK i \in Nat : CleanupAt(n, i) = r
      BY <2>4
    <3>2. Holds(r) /\ ~Waits(r) /\ \A m \in Name, j \in Nat : CleanupAt(m, j) = r => m = n /\ j = i
      BY <2>1, <3>1 DEF Holds, Once
    <3>3. ~Again(r)
      <4> SUFFICES ASSUME NEW k, EffectAt(k), stack[k].old = r
                   PROVE  FALSE
        BY DEF Again
      <4>1. r \in {f.old : f \in Frames("effect")}
        BY DEF EffectAt, Frames
      <4>2. r \in RunsOf(Cleanups(fiber[n]))
        BY <1>1, <1>5, <2>1, <3>1, CleanupsOf DEF CleanupAt, RunsOf
      <4> QED
        BY <1>1, <4>1, <4>2
    <3>4. r \in begun /\ cleaned[r] = 0
      BY <2>1, <3>2, <3>3 DEF Balanced
    <3>5. \A k, j : PendingAt(r, k, j)' <=> k = last /\ j = i
      BY <1>8, <2>1, <3>1, <3>2 DEF Waits
    <3>6. ~Holds(r)'
      BY <2>3, <3>2 DEF Holds
    <3>7. Waits(r)'
      BY <3>5 DEF Waits
    <3>8. Once(r)'
      BY <3>5, <3>6 DEF Once, Holds
    <3>9. Balanced(r)'
      BY <1>1, <3>4, <3>7 DEF Balanced
    <3> QED
      BY <3>8, <3>9
  <2>5. CASE ~\E i \in Nat : CleanupAt(n, i) = r
    <3>1. \A m \in Name, i \in Nat : CleanupAt(m, i)' = r <=> CleanupAt(m, i) = r
      BY <2>3, <2>5
    <3>2. \A k, i : PendingAt(r, k, i)' <=> PendingAt(r, k, i)
      BY <1>8, <2>1, <2>5
    <3>3. (Holds(r)' <=> Holds(r)) /\ (Waits(r)' <=> Waits(r))
      BY <3>1, <3>2 DEF Holds, Waits
    <3>4. Once(r)'
      BY <2>1, <3>1, <3>2, <3>3 DEF Once
    <3>5. Balanced(r)'
      BY <1>1, <2>1, <2>2, <3>3 DEF Balanced
    <3> QED
      BY <3>4, <3>5
  <2> QED
    BY <2>4, <2>5
<1>13. \A m \in Name : fiber'[m] # NoFiber => fiber'[m].gen <= gen'
  BY <1>1 DEF Accounted, Bracketed, Mounted
<1> QED
  BY <1>1, <1>10, <1>11, <1>12, <1>13 DEF Accounted

LEMMA AccountsRunCleanup ==
  ASSUME Bracketed, Bracketed', Accounted, RunCleanup
  PROVE  Accounted'
<1>0. PICK i \in DOMAIN Top.todo :
        /\ cleaned' = [cleaned EXCEPT ![Top.todo[i]] = @ + 1]
        /\ stack' = Append(Below, [Top EXCEPT !.todo = Left(@, i), !.ran = TRUE])
  BY DEF RunCleanup
<1> DEFINE call == [Top EXCEPT !.todo = Left(@, i), !.ran = TRUE]
           at == Len(stack)
           run == Top.todo[i]
<1>1. /\ stack # <<>> /\ Stacked /\ Top.at = "unmount" /\ UNCHANGED <<fiber, gen, begun, excused>>
      /\ stack' = Append(Below, call) /\ cleaned' = [cleaned EXCEPT ![run] = @ + 1]
  BY <1>0 DEF RunCleanup, At, Bracketed
<1>2. Top \in [at: {"unmount"}, todo: {Top.todo}, ran: BOOLEAN]
  BY <1>1, LastCall DEF Entered
<1>3. call \in [at: {"unmount"}, todo: {Left(Top.todo, i)}, ran: BOOLEAN]
  BY <1>2
<1>4. call.at = "unmount" /\ call.todo = Left(Top.todo, i)
  BY <1>3
<1> HIDE DEF call
<1>5. Entered(call)
  BY <1>3, <1>4 DEF Entered
<1>6. /\ Len(Below) = Len(stack) - 1 /\ Calls(Below) /\ Len(stack) \in Nat \ {0}
      /\ DOMAIN stack = 1..Len(stack) /\ Top = stack[Len(stack)]
      /\ \A k \in 1..(Len(stack) - 1) : Below[k] = stack[k]
  BY <1>1, LastCall
<1>7. /\ DOMAIN stack' = 1..(Len(Below) + 1)
      /\ \A k \in 1..Len(Below) : stack'[k] = Below[k]
      /\ stack'[Len(Below) + 1] = call
  BY <1>1, <1>5, <1>6, Pushed
<1>8. /\ DOMAIN stack' = DOMAIN stack /\ at \in DOMAIN stack
      /\ \A k \in DOMAIN stack : k # at => stack'[k] = stack[k]
      /\ stack'[at] = call /\ stack[at] = Top
  <2>1. at \in Nat \ {0} /\ Len(Below) = at - 1 /\ DOMAIN stack = 1..at /\ Len(Below) + 1 = at
    BY <1>6
  <2>2. \A k \in 1..at : k # at => k \in 1..(at - 1)
    BY <2>1
  <2> QED
    BY <1>6, <1>7, <2>1, <2>2
<1> HIDE DEF at, run
<1>9. \A k : EffectAt(k)' <=> EffectAt(k)
  BY <1>1, <1>4, <1>8 DEF EffectAt
<1>10. \A k : EffectAt(k) => stack'[k] = stack[k]
  BY <1>1, <1>8 DEF EffectAt
<1>11. \A r, k, j : PendingAt(r, k, j)' <=> PendingAt(r, k, j) /\ ~(k = at /\ j = i)
  <2> SUFFICES ASSUME NEW r, NEW k, NEW j
               PROVE  PendingAt(r, k, j)' <=> PendingAt(r, k, j) /\ ~(k = at /\ j = i)
    OBVIOUS
  <2>1. CASE k = at
    <3>1. (j \in DOMAIN call.todo /\ call.todo[j] = r)
            <=> (j \in DOMAIN Top.todo /\ Top.todo[j] = r /\ j # i)
      BY <1>4 DEF Left
    <3> QED
      BY <1>1, <1>4, <1>8, <2>1, <3>1 DEF PendingAt
  <2>2. CASE k # at
    BY <1>8, <2>2 DEF PendingAt
  <2> QED
    BY <2>1, <2>2
<1>12. PendingAt(run, at, i)
  BY <1>0, <1>1, <1>8 DEF PendingAt, run
<1>13. FibersKeep
  BY <1>1, SlotsStay
<1>14. Nested'
  <2>1. \A k \in DOMAIN stack : stack'[k].at = stack[k].at
    BY <1>1, <1>4, <1>8
  <2> QED
    BY <1>8, <2>1 DEF Accounted, Nested
<1>15. \A k : EffectAt(k)' => Attached(k)'
  BY <1>1, <1>9, <1>10, <1>13, AttachedLasts
<1>16. ASSUME NEW r \in Run \ excused
       PROVE  Once(r)' /\ Balanced(r)'
  <2>1. Once(r) /\ Balanced(r) /\ cleaned \in [Run -> Nat]
    BY DEF Accounted
  <2>2. (Holds(r)' <=> Holds(r)) /\ (Again(r)' <=> Again(r))
    BY <1>1, <1>9, <1>10, <1>13 DEF Holds, Again, FibersKeep
  <2>3. \A m, n \in Name, j, l \in Nat :
          CleanupAt(m, j)' = r /\ CleanupAt(n, l)' = r => m = n /\ j = l
    BY <1>13, <2>1 DEF Once, FibersKeep
  <2>4. CASE r = run
    <3>1. Waits(r) /\ ~Holds(r) /\ \A k, j : PendingAt(r, k, j) => k = at /\ j = i
      BY <1>12, <2>1, <2>4 DEF Waits, Once
    <3>2. r \in begun /\ cleaned[r] = 0
      BY <2>1, <3>1 DEF Balanced
    <3>3. cleaned'[r] = 1
      BY <1>1, <2>1, <2>4, <3>2
    <3>4. \A k, j : ~PendingAt(r, k, j)'
      BY <1>11, <3>1
    <3>5. ~Waits(r)' /\ ~Holds(r)'
      BY <2>2, <3>1, <3>4 DEF Waits
    <3>6. Once(r)'
      BY <2>3, <3>4, <3>5 DEF Once
    <3>7. Balanced(r)'
      BY <1>1, <3>2, <3>3, <3>5 DEF Balanced
    <3> QED
      BY <3>6, <3>7
  <2>5. CASE r # run
    <3>1. cleaned'[r] = cleaned[r]
      BY <1>1, <2>1, <2>5
    <3>2. ~PendingAt(r, at, i)
      BY <1>12, <2>5 DEF PendingAt
    <3>3. \A k, j : PendingAt(r, k, j)' <=> PendingAt(r, k, j)
      BY <1>11, <3>2
    <3>4. Waits(r)' <=> Waits(r)
      BY <3>3 DEF Waits
    <3>5. Once(r)'
      BY <2>1, <2>2, <2>3, <3>3, <3>4 DEF Once
    <3>6. Balanced(r)'
      BY <1>1, <2>1, <2>2, <3>1, <3>4 DEF Balanced
    <3> QED
      BY <3>5, <3>6
  <2> QED
    BY <2>4, <2>5
<1>17. cleaned' \in [Run -> Nat]
  <2>1. cleaned \in [Run -> Nat] /\ cleaned' = [cleaned EXCEPT ![run] = @ + 1]
    BY <1>1 DEF Accounted
  <2>2. run \in Run => cleaned[run] + 1 \in Nat
    BY <2>1
  <2> QED
    BY <2>1, <2>2
<1>18. \A n \in Name : fiber'[n] # NoFiber => fiber'[n].gen <= gen'
  BY <1>1 DEF Accounted
<1> QED
  BY <1>1, <1>14, <1>15, <1>16, <1>17, <1>18 DEF Accounted

LEMMA AccountsUnmountReturns ==
  ASSUME Bracketed, Bracketed', Accounted, UnmountReturns
  PROVE  Accounted'
<1>1. /\ stack # <<>> /\ Stacked /\ Top.at = "unmount" /\ DOMAIN Top.todo = {}
      /\ stack' = Below /\ UNCHANGED <<fiber, gen>> /\ UNCHANGED runs
  BY DEF UnmountReturns, At, Bracketed
<1>2. /\ \A k : k \in DOMAIN stack' <=> k \in DOMAIN stack /\ k # Len(stack)
      /\ \A k \in DOMAIN stack' : stack'[k] = stack[k]
      /\ Top = stack[Len(stack)]
  BY <1>1, LastReturns
<1>3. CallsKeep
  <2>1. \A k : EffectAt(k)' <=> EffectAt(k)
    BY <1>1, <1>2 DEF EffectAt
  <2>2. \A k : EffectAt(k) => stack'[k] = stack[k]
    BY <1>1, <1>2 DEF EffectAt
  <2>3. \A r, k, i : PendingAt(r, k, i)' <=> PendingAt(r, k, i)
    BY <1>1, <1>2 DEF PendingAt
  <2> QED
    BY <2>1, <2>2, <2>3 DEF CallsKeep
<1>4. FibersKeep
  BY <1>1, SlotsStay
<1>5. Nested'
  BY <1>1, ReturnsNested DEF Accounted
<1> QED
  BY <1>1, <1>3, <1>4, <1>5, AccountsKeep

LEMMA AccountedInit == Init => Accounted
<1> SUFFICES ASSUME Init
             PROVE  Accounted
  OBVIOUS
<1>1. /\ fiber = [n \in Name |-> NoFiber] /\ stack = <<>> /\ begun = {}
      /\ cleaned = [r \in Run |-> 0]
  BY DEF Init
<1>2. Nested /\ \A k : ~EffectAt(k)
  BY <1>1 DEF Nested, EffectAt
<1>3. \A r, k, i : ~PendingAt(r, k, i)
  BY <1>1 DEF PendingAt
<1>4. \A r \in Run, n \in Name, i \in Nat : CleanupAt(n, i) # r
  BY <1>1, HooksAssumption DEF CleanupAt
<1>5. \A r \in Run : Once(r) /\ Balanced(r)
  <2> SUFFICES ASSUME NEW r \in Run
               PROVE  Once(r) /\ Balanced(r)
    OBVIOUS
  <2>1. ~Holds(r) /\ ~Waits(r)
    BY <1>3, <1>4 DEF Holds, Waits
  <2> QED
    BY <1>1, <1>3, <1>4, <2>1 DEF Once, Balanced
<1> QED
  BY <1>1, <1>2, <1>5 DEF Accounted

LEMMA AccountedNext == Bracketed /\ Accounted /\ [Next]_vars => Accounted'
<1> SUFFICES ASSUME Bracketed, Accounted, [Next]_vars
             PROVE  Accounted'
  OBVIOUS
<1>0. Bracketed'
  BY BracketedNext
<1>1. CASE RenderStep
  BY <1>0, <1>1, AccountsRender DEF RenderStep
<1>2. CASE RenderChild
  BY <1>0, <1>2, AccountsRenderChild
<1>3. CASE EndRender
  BY <1>0, <1>3, AccountsEndRender
<1>4. CASE HookStep
  <2>1. CASE UseState \/ UseMemo \/ UseRef
    BY <1>0, <2>1, AccountsHooks
  <2>2. CASE KindChanged
    BY <1>0, <2>2, AccountsKindChanged
  <2>3. ASSUME NEW d \in Dep, UseEffect(d)
        PROVE  Accounted'
    BY <1>0, <2>3, AccountsUseEffect
  <2>4. ASSUME NEW r \in Run, EffectReturns(r)
        PROVE  Accounted'
    BY <1>0, <2>4, AccountsEffectReturns
  <2> QED
    BY <1>4, <2>1, <2>2, <2>3, <2>4 DEF HookStep
<1>5. CASE CodeStep
  BY <1>0, <1>5, AccountsSetState, AccountsUnmount, AccountsCodePanics DEF CodeStep
<1>6. CASE RunCleanup
  BY <1>0, <1>6, AccountsRunCleanup
<1>7. CASE UnmountReturns
  BY <1>0, <1>7, AccountsUnmountReturns
<1>8. CASE UNCHANGED vars
  <2>1. FibersKeep
    BY <1>8, SlotsStay DEF vars
  <2>2. CallsKeep /\ Nested'
    BY <1>8 DEF vars, CallsKeep, EffectAt, PendingAt, Accounted, Nested
  <2> QED
    BY <1>0, <1>8, <2>1, <2>2, AccountsKeep DEF vars, runs
<1> QED
  BY <1>1, <1>2, <1>3, <1>4, <1>5, <1>6, <1>7, <1>8 DEF Next

(***************************************************************************)
(* When nothing runs, each effect run is held by one mounted slot and not   *)
(* cleaned up, or has been cleaned up once (UseEffect, Unmount); runs that a *)
(* panic or an Unmount met in the middle are excused.                       *)
(***************************************************************************)
THEOREM CleanupAlwaysOnce == Spec => []CleanupExact
<1>1. Init => Bracketed /\ Accounted
  BY BracketedInit, AccountedInit
<1>2. Bracketed /\ Accounted /\ [Next]_vars => Bracketed' /\ Accounted'
  BY BracketedNext, AccountedNext
<1>3. Bracketed /\ Accounted => CleanupExact
  <2> SUFFICES ASSUME Bracketed, Accounted, stack = <<>>, NEW r \in begun \ excused
               PROVE  cleaned[r] = IF \E n \in Name : fiber[n] # NoFiber /\ r \in RunsOf(Cleanups(fiber[n]))
                                   THEN 0 ELSE 1
    BY DEF CleanupExact
  <2>1. CASE r \in Run
    <3>1. ~Waits(r) /\ ~Again(r) /\ Balanced(r)
      BY <2>1 DEF Waits, Again, PendingAt, EffectAt, Accounted
    <3>2. Holds(r) <=> \E n \in Name : fiber[n] # NoFiber /\ r \in RunsOf(Cleanups(fiber[n]))
      <4> SUFFICES ASSUME NEW n \in Name
                   PROVE  (\E i \in Nat : CleanupAt(n, i) = r)
                            <=> fiber[n] # NoFiber /\ r \in RunsOf(Cleanups(fiber[n]))
        BY DEF Holds
      <4>1. CASE fiber[n] = NoFiber
        BY <2>1, <4>1, HooksAssumption DEF CleanupAt
      <4>2. CASE fiber[n] # NoFiber
        <5>1. fiber[n] \in Fiber
          BY <4>2 DEF Bracketed, Mounted
        <5>2. \A i : (i \in DOMAIN Cleanups(fiber[n]) /\ Cleanups(fiber[n])[i] = r)
                       <=> (i \in Nat /\ CleanupAt(n, i) = r)
          BY <2>1, <4>2, <5>1, CleanupsOf DEF CleanupAt
        <5> QED
          BY <4>2, <5>2 DEF RunsOf
      <4> QED
        BY <4>1, <4>2
    <3> QED
      BY <3>1, <3>2 DEF Balanced
  <2>2. begun \subseteq Run
    BY DEF Accounted
  <2> QED
    BY <2>1, <2>2
<1> QED
  BY <1>1, <1>2, <1>3, PTL DEF Spec

-----------------------------------------------------------------------------
(***************************************************************************)
(* Slots.  A component keeps the rules of hooks if all that its render may  *)
(* do begins with the same number of hooks and goes on with children.  Then *)
(* what is claimed in its fiber is claimed by its own render, in its order, *)
(* and never more than there are hooks.                                     *)
(***************************************************************************)

\* n hooks, and then children.
Begins(body, n) == n <= Len(body) /\ \A i \in DOMAIN body : body[i] \in Kind <=> i <= n

Regular == {c \in Comp : \E n \in Nat : \A body \in Bodies[c] : Begins(body, n)}
Size(c) == CHOOSE n \in Nat : \A body \in Bodies[c] : Begins(body, n)

KindAt(n, i) == SlotOf(fiber[n], i).kind

\* The first i slots of c are those of the body's hooks; some body's are all there.
Filled(c, body, i) == \A j \in 1..i : KindAt(c, j) = body[j]
Full(c) == fiber[c] # NoFiber /\ \E body \in Bodies[c] : Filled(c, body, Size(c))

RenderAt(k) == k \in DOMAIN stack /\ stack[k].at = "render"
LastRender(k) == \A l : RenderAt(l) => l <= k

\* The fiber of a render is the one it began in.
Rendering(k) == fiber[stack[k].c] # NoFiber /\ fiber[stack[k].c].gen = stack[k].gen

\* A render that has called all its hooks, and the one that is calling them.
Over(k) == Full(stack[k].c) /\ \A i \in DOMAIN stack[k].body : stack[k].body[i] \notin Kind

Amid(k) ==
  LET c == stack[k].c
      i == fiber[c].cursor IN
  /\ LastRender(k) /\ current = c /\ i <= Size(c)
  /\ \E body \in Bodies[c] :
       /\ Filled(c, body, i)
       /\ Len(stack[k].body) = Len(body) - i
       /\ \A j \in DOMAIN stack[k].body : stack[k].body[j] = body[i + j]

Fitting ==
  /\ \A c \in Regular : fiber[c] # NoFiber => Len(fiber[c].slots) <= Size(c)
  /\ \A h \in handles : h.id \in Regular => h.idx <= Size(h.id)

Placed ==
  /\ \A k : RenderAt(k) => stack[k].gen <= gen
  /\ \A k : RenderAt(k) /\ stack[k].c \in Regular /\ Rendering(k) => Over(k) \/ Amid(k)
  /\ current \in Regular =>
       \E k : RenderAt(k) /\ LastRender(k) /\ stack[k].c = current /\ Rendering(k)

\* The slot that an effect's call will write is still an effect's.
Marked == \A k : EffectAt(k) /\ StillMounted(k) => KindAt(stack[k].id, stack[k].idx) = "effect"

Owned == Fitting /\ Placed /\ Marked /\ \A c \in rendered \cap Regular : Full(c)

LEMMA SizeFits ==
  ASSUME NEW c \in Regular
  PROVE  /\ c \in Comp /\ c \in Name /\ Size(c) \in Nat
         /\ \A body \in Bodies[c] : Begins(body, Size(c)) /\ body \in Seq(Kind \cup Comp)
<1>1. c \in Comp /\ \E n \in Nat : \A body \in Bodies[c] : Begins(body, n)
  BY DEF Regular
<1>2. Size(c) \in Nat /\ \A body \in Bodies[c] : Begins(body, Size(c))
  BY <1>1 DEF Size
<1>3. \A body \in Bodies[c] : body \in Seq(Kind \cup Comp)
  BY <1>1, HooksAssumption
<1> QED
  BY <1>1, <1>2, <1>3 DEF Name

\* The hooks of a body, up to its component's number.
LEMMA HooksFirst ==
  ASSUME NEW c \in Regular, NEW body \in Bodies[c], NEW i \in 1..Size(c)
  PROVE  i \in DOMAIN body /\ body[i] \in Kind /\ body[i] # ""
<1>1. Size(c) \in Nat /\ Begins(body, Size(c)) /\ body \in Seq(Kind \cup Comp)
  BY SizeFits
<1>2. DOMAIN body = 1..Len(body) /\ Len(body) \in Nat
  BY <1>1
<1>3. i \in DOMAIN body /\ i <= Size(c)
  BY <1>1, <1>2 DEF Begins
<1>4. body[i] \in Kind
  BY <1>1, <1>3 DEF Begins
<1> QED
  BY <1>3, <1>4 DEF Kind

(***************************************************************************)
(* What a step does to fibers: some are unmounted, those that are made are  *)
(* younger, and in the others no slot changes its kind once it has one.     *)
(***************************************************************************)
FibersLast ==
  /\ gen' \in Nat /\ gen <= gen'
  /\ \A n \in Name : fiber[n] = NoFiber /\ fiber'[n] # NoFiber => gen < fiber'[n].gen
  /\ \A n \in Name : fiber[n] # NoFiber /\ fiber'[n] # NoFiber =>
       /\ fiber'[n].gen = fiber[n].gen
       /\ \A i \in Nat : KindAt(n, i) # "" => KindAt(n, i)' = KindAt(n, i)

LEMMA FilledLasts ==
  ASSUME FibersLast, NEW c \in Regular, fiber[c] # NoFiber, fiber'[c] # NoFiber,
         NEW body \in Bodies[c], NEW i \in Nat, i <= Size(c), Filled(c, body, i)
  PROVE  Filled(c, body, i)'
<1> SUFFICES ASSUME NEW j \in 1..i
             PROVE  KindAt(c, j)' = body[j]
  BY DEF Filled
<1>1. c \in Name /\ Size(c) \in Nat
  BY SizeFits
<1>2. j \in 1..Size(c) /\ j \in Nat
  BY <1>1
<1>3. KindAt(c, j) = body[j] /\ body[j] # ""
  BY <1>2, HooksFirst DEF Filled
<1> QED
  BY <1>1, <1>2, <1>3 DEF FibersLast

LEMMA FullLasts ==
  ASSUME FibersLast, NEW c \in Regular, Full(c), fiber'[c] # NoFiber
  PROVE  Full(c)'
<1>1. PICK body \in Bodies[c] : Filled(c, body, Size(c))
  BY DEF Full
<1>2. Size(c) \in Nat /\ Size(c) <= Size(c)
  BY SizeFits
<1>3. Filled(c, body, Size(c))'
  BY <1>1, <1>2, FilledLasts DEF Full
<1> QED
  BY <1>3 DEF Full

\* A fiber that a render began in is not one that was made since.
LEMMA RenderingBefore ==
  ASSUME Bracketed, FibersLast, NEW k, RenderAt(k), stack[k].gen <= gen,
         NEW l, stack'[l].c = stack[k].c, stack'[l].gen = stack[k].gen, Rendering(l)'
  PROVE  Rendering(k)
<1>1. stack[k].c \in Name /\ stack[k].gen \in Nat /\ gen \in Nat
  BY DEF Bracketed, Mounted, Stacked, Calls, Entered, RenderAt, Name
<1>2. fiber'[stack[k].c] # NoFiber /\ fiber'[stack[k].c].gen = stack[k].gen
  BY DEF Rendering
<1>3. fiber[stack[k].c] # NoFiber
  <2> SUFFICES ASSUME fiber[stack[k].c] = NoFiber
               PROVE  FALSE
    OBVIOUS
  <2>1. gen < stack[k].gen
    BY <1>1, <1>2 DEF FibersLast
  <2> QED
    BY <1>1, <2>1
<1> QED
  BY <1>1, <1>2, <1>3 DEF FibersLast, Rendering

\* A render whose hooks are called stays that.
LEMMA OverLasts ==
  ASSUME FibersLast, NEW k, NEW c \in Regular, stack[k].c = c, Over(k),
         NEW l, stack'[l].c = c, Rendering(l)',
         \A i \in DOMAIN stack'[l].body : stack'[l].body[i] \notin Kind
  PROVE  Over(l)'
<1>1. Full(c) /\ fiber'[c] # NoFiber
  BY DEF Over, Rendering
<1>2. Full(c)'
  BY <1>1, FullLasts
<1> QED
  BY <1>2 DEF Over, Full, Filled, KindAt

(***************************************************************************)
(* Steps that no render takes.                                              *)
(***************************************************************************)
SameRenders ==
  /\ \A k : RenderAt(k)' <=> RenderAt(k)
  /\ \A k : RenderAt(k) => stack'[k] = stack[k]

\* Nothing is claimed: cursors stay, and who is current does unless it is unmounted.
NothingClaimed ==
  /\ \A n \in Name : fiber[n] # NoFiber /\ fiber'[n] # NoFiber => fiber'[n].cursor = fiber[n].cursor
  /\ \A c \in Regular : fiber'[c] # NoFiber => Len(fiber'[c].slots) <= Size(c)
  /\ handles' = handles
  /\ current' = current \/ (current' = Nobody /\ fiber'[current] = NoFiber)
  /\ \A c \in rendered' \cap Regular : c \in rendered /\ fiber'[c] # NoFiber

\* A render that has called the first n of its hooks.
LEMMA AmidNext ==
  ASSUME NEW k, NEW c, NEW n, NEW body \in Bodies[c], stack'[k].c = c, fiber'[c].cursor = n,
         LastRender(k)', current' = c, n <= Size(c),
         \A j \in 1..n : SlotOf(fiber'[c], j).kind = body[j],
         Len(stack'[k].body) = Len(body) - n,
         \A j \in DOMAIN stack'[k].body : stack'[k].body[j] = body[n + j]
  PROVE  Amid(k)'
<1>1. /\ body \in Bodies[stack'[k].c]
      /\ \A j \in 1..fiber'[stack'[k].c].cursor : SlotOf(fiber'[stack'[k].c], j).kind = body[j]
      /\ Len(stack'[k].body) = Len(body) - fiber'[stack'[k].c].cursor
      /\ \A j \in DOMAIN stack'[k].body : stack'[k].body[j] = body[fiber'[stack'[k].c].cursor + j]
  OBVIOUS
<1>2. current' = stack'[k].c /\ fiber'[stack'[k].c].cursor <= Size(stack'[k].c)
  OBVIOUS
<1> QED
  BY <1>1, <1>2 DEF Amid, Filled, KindAt

\* The render that is calling its hooks goes on with them.
LEMMA AmidLasts ==
  ASSUME FibersLast, NothingClaimed, SameRenders, NEW k, RenderAt(k), NEW c \in Regular, stack[k].c = c,
         Amid(k), Rendering(k), Rendering(k)', fiber[c].cursor \in Nat
  PROVE  Amid(k)'
<1>1. fiber[c] # NoFiber /\ fiber'[c] # NoFiber /\ stack'[k] = stack[k] /\ c \in Name
  BY SizeFits DEF Rendering, SameRenders
<1>2. LastRender(k) /\ current = c /\ fiber[c].cursor <= Size(c)
  BY DEF Amid
<1>3. current' = c /\ fiber'[c].cursor = fiber[c].cursor
  BY <1>1, <1>2 DEF NothingClaimed
<1>4. LastRender(k)'
  BY <1>2 DEF LastRender, SameRenders
<1> DEFINE n == fiber[c].cursor
<1>5. PICK body \in Bodies[c] :
        /\ Filled(c, body, n)
        /\ Len(stack[k].body) = Len(body) - n
        /\ \A j \in DOMAIN stack[k].body : stack[k].body[j] = body[n + j]
  BY DEF Amid
<1>6. \A j \in 1..n : SlotOf(fiber'[c], j).kind = body[j]
  <2> HIDE DEF n
  <2>1. n \in Nat /\ n <= Size(c)
    BY <1>2 DEF n
  <2>2. \A j \in 1..n : KindAt(c, j) = body[j]
    BY <1>5 DEF Filled
  <2> SUFFICES ASSUME NEW j \in 1..n
               PROVE  SlotOf(fiber'[c], j).kind = body[j]
    OBVIOUS
  <2>3. j \in 1..Size(c) /\ j \in Nat
    BY <2>1, SizeFits
  <2>4. KindAt(c, j) # ""
    BY <2>2, <2>3, HooksFirst
  <2> QED
    BY <1>1, <2>2, <2>3, <2>4 DEF FibersLast, KindAt
<1>7. /\ stack'[k].c = c /\ n <= Size(c)
      /\ \A j \in 1..n : SlotOf(fiber'[c], j).kind = body[j]
      /\ Len(stack'[k].body) = Len(body) - n
      /\ \A j \in DOMAIN stack'[k].body : stack'[k].body[j] = body[n + j]
  BY <1>1, <1>2, <1>5, <1>6
<1> HIDE DEF n
<1>8. fiber'[c].cursor = n
  BY <1>3 DEF n
<1> QED
  BY <1>3, <1>4, <1>7, <1>8, AmidNext

\* What renders and who is current stay in place.
LEMMA PlacedLasts ==
  ASSUME Bracketed, Bracketed', Owned, FibersLast, NothingClaimed, SameRenders
  PROVE  Placed'
<1>1. \A k : RenderAt(k)' => stack'[k].gen <= gen'
  <2> SUFFICES ASSUME NEW k, RenderAt(k)'
               PROVE  stack'[k].gen <= gen'
    OBVIOUS
  <2>1. RenderAt(k) /\ stack'[k] = stack[k] /\ stack[k].gen <= gen
    BY DEF SameRenders, Owned, Placed
  <2>2. stack[k].gen \in Nat /\ gen \in Nat /\ gen' \in Nat /\ gen <= gen'
    BY <2>1 DEF Bracketed, Mounted, Stacked, Calls, Entered, RenderAt, FibersLast
  <2> QED
    BY <2>1, <2>2
<1>2. ASSUME NEW k, RenderAt(k)', stack'[k].c \in Regular, Rendering(k)'
      PROVE  Over(k)' \/ Amid(k)'
  <2>1. RenderAt(k) /\ stack'[k] = stack[k] /\ stack[k].gen <= gen
    BY <1>2 DEF SameRenders, Owned, Placed
  <2>2. Rendering(k)
    BY <1>2, <2>1, RenderingBefore
  <2>3. PICK c \in Regular : stack[k].c = c
    BY <1>2, <2>1
  <2>4. fiber[c].cursor \in Nat
    BY <2>2, <2>3, SizeFits DEF Rendering, Bracketed, Mounted, Fiber
  <2>5. CASE Over(k)
    <3>1. \A i \in DOMAIN stack'[k].body : stack'[k].body[i] \notin Kind
      BY <2>1, <2>5 DEF Over
    <3>2. stack'[k].c = c
      BY <2>1, <2>3
    <3> QED
      BY <1>2, <2>3, <2>5, <3>1, <3>2, OverLasts
  <2>6. CASE Amid(k)
    BY <1>2, <2>1, <2>2, <2>3, <2>4, <2>6, AmidLasts
  <2> QED
    BY <1>2, <2>1, <2>2, <2>5, <2>6 DEF Owned, Placed
<1>3. ASSUME current' \in Regular
      PROVE  \E k : RenderAt(k)' /\ LastRender(k)' /\ stack'[k].c = current' /\ Rendering(k)'
  <2>1. current' # Nobody
    BY <1>3, HooksAssumption DEF Regular
  <2>2. current' = current
    BY <2>1 DEF NothingClaimed
  <2>3. PICK k : RenderAt(k) /\ LastRender(k) /\ stack[k].c = current /\ Rendering(k)
    BY <1>3, <2>2 DEF Owned, Placed
  <2>4. RenderAt(k)' /\ stack'[k] = stack[k] /\ LastRender(k)'
    BY <2>3 DEF SameRenders, LastRender
  <2>5. fiber'[current] # NoFiber /\ fiber[current] # NoFiber /\ current \in Name
    BY <2>1, <2>2 DEF Bracketed, Calm, Mounted
  <2>6. Rendering(k)'
    BY <2>3, <2>4, <2>5 DEF Rendering, FibersLast
  <2> QED
    BY <2>2, <2>3, <2>4, <2>6
<1> QED
  BY <1>1, <1>2, <1>3 DEF Placed

\* An effect's call stays with its slot.
LEMMA MarkLasts ==
  ASSUME Bracketed, Accounted, Marked, FibersLast, NEW k, EffectAt(k), stack'[k] = stack[k], StillMounted(k)'
  PROVE  KindAt(stack[k].id, stack[k].idx)' = "effect"
<1>1. stack[k].id \in Name /\ stack[k].gen \in Nat /\ stack[k].idx \in Nat
  BY EffectCall
<1>2. gen \in Nat /\ stack[k].gen <= gen
  BY DEF Accounted, Attached, Bracketed, Mounted
<1>3. fiber'[stack[k].id] # NoFiber /\ fiber'[stack[k].id].gen = stack[k].gen
  BY DEF StillMounted
<1>4. fiber[stack[k].id] # NoFiber
  <2> SUFFICES ASSUME fiber[stack[k].id] = NoFiber
               PROVE  FALSE
    OBVIOUS
  <2>1. gen < stack[k].gen
    BY <1>1, <1>3 DEF FibersLast
  <2> QED
    BY <1>1, <1>2, <2>1
<1>5. StillMounted(k)
  BY <1>1, <1>3, <1>4 DEF StillMounted, FibersLast
<1>6. KindAt(stack[k].id, stack[k].idx) = "effect"
  BY <1>5 DEF Marked
<1>7. SlotOf(fiber'[stack[k].id], stack[k].idx).kind = "effect"
  BY <1>1, <1>3, <1>4, <1>6 DEF FibersLast, KindAt
<1> QED
  BY <1>7 DEF KindAt

LEMMA OwnedLasts ==
  ASSUME Bracketed, Bracketed', Accounted, Owned, FibersLast, NothingClaimed, SameRenders,
         \A k : EffectAt(k)' => EffectAt(k) /\ stack'[k] = stack[k]
  PROVE  Owned'
<1>1. Placed'
  BY PlacedLasts
<1>2. Fitting'
  BY DEF Owned, Fitting, NothingClaimed
<1>3. Marked'
  BY MarkLasts DEF Owned, Marked
<1>4. \A c \in rendered' \cap Regular : Full(c)'
  BY FullLasts DEF NothingClaimed, Owned
<1> QED
  BY <1>1, <1>2, <1>3, <1>4 DEF Owned

\* One fiber is written, made if there was none.
LEMMA WrittenAt ==
  ASSUME Bracketed, NEW n \in Name, NEW g \in Fiber, fiber' = [fiber EXCEPT ![n] = g], gen' = GenWith(n),
         g.gen = Got(n).gen
  PROVE  /\ fiber'[n] = g /\ g # NoFiber /\ \A m \in Name \ {n} : fiber'[m] = fiber[m]
         /\ gen' \in Nat /\ gen <= gen'
         /\ fiber[n] = NoFiber => gen < g.gen
         /\ fiber[n] # NoFiber => g.gen = fiber[n].gen
<1>1. /\ fiber \in [Name -> Fiber \cup {NoFiber}] /\ gen \in Nat
      /\ fiber'[n] = g /\ g # NoFiber /\ \A m \in Name \ {n} : fiber'[m] = fiber[m]
  BY NoFiberAssumption DEF Bracketed, Mounted
<1>2. gen' = IF fiber[n] = NoFiber THEN gen + 1 ELSE gen
  BY DEF GenWith
<1>3. g.gen = IF fiber[n] = NoFiber THEN gen + 1 ELSE fiber[n].gen
  BY GotSlots
<1> QED
  BY <1>1, <1>2, <1>3

LEMMA WrittenLasts ==
  ASSUME Bracketed, NEW n \in Name, NEW g \in Fiber, fiber' = [fiber EXCEPT ![n] = g], gen' = GenWith(n),
         g.gen = Got(n).gen,
         \A i \in Nat : SlotOf(Got(n), i).kind # "" => SlotOf(g, i).kind = SlotOf(Got(n), i).kind
  PROVE  /\ FibersLast
         /\ fiber'[n] = g /\ g # NoFiber /\ \A m \in Name \ {n} : fiber'[m] = fiber[m]
<1>1. /\ fiber'[n] = g /\ g # NoFiber /\ \A m \in Name \ {n} : fiber'[m] = fiber[m]
      /\ gen' \in Nat /\ gen <= gen'
      /\ fiber[n] = NoFiber => gen < g.gen
      /\ fiber[n] # NoFiber => g.gen = fiber[n].gen
  BY WrittenAt
<1>2. \A m \in Name : fiber[m] = NoFiber /\ fiber'[m] # NoFiber => gen < fiber'[m].gen
  BY <1>1
<1>3. ASSUME NEW m \in Name, fiber[m] # NoFiber, fiber'[m] # NoFiber
      PROVE  /\ fiber'[m].gen = fiber[m].gen
             /\ \A i \in Nat : KindAt(m, i) # "" => KindAt(m, i)' = KindAt(m, i)
  <2>1. CASE m = n
    <3>1. Got(m) = fiber[m]
      BY <1>3, <2>1 DEF Got
    <3> QED
      BY <1>1, <1>3, <2>1, <3>1 DEF KindAt
  <2>2. CASE m # n
    BY <1>1, <2>2 DEF KindAt
  <2> QED
    BY <2>1, <2>2
<1> QED
  BY <1>1, <1>2, <1>3 DEF FibersLast

\* Writing a slot keeps the rest of a fiber.
LEMMA SlotWritten ==
  ASSUME NEW f \in Fiber, NEW i \in Nat, NEW slot \in Slot
  PROVE  /\ Stored(f, i, slot) \in Fiber
         /\ Stored(f, i, slot).gen = f.gen /\ Stored(f, i, slot).cursor = f.cursor
         /\ Len(Stored(f, i, slot).slots) = IF i > Len(f.slots) THEN i ELSE Len(f.slots)
<1> DEFINE n == IF i > Len(f.slots) THEN i ELSE Len(f.slots)
           slots == [j \in 1..n |-> IF j = i THEN slot ELSE SlotOf(f, j)]
<1>1. n \in Nat
  BY DEF Fiber
<1>2. Stored(f, i, slot) = [f EXCEPT !.slots = slots]
  BY DEF Stored
<1>3. Stored(f, i, slot) \in Fiber
  BY FiberStored
<1>4. Len(slots) = n
  <2> HIDE DEF n
  <2> QED
    BY <1>1
<1> HIDE DEF slots
<1>5. /\ [f EXCEPT !.slots = slots].gen = f.gen /\ [f EXCEPT !.slots = slots].cursor = f.cursor
      /\ [f EXCEPT !.slots = slots].slots = slots
  BY DEF Fiber
<1> QED
  BY <1>2, <1>3, <1>4, <1>5

LEMMA OwnedSetState ==
  ASSUME Bracketed, Bracketed', Accounted, Owned, NEW h \in handles, SetState(h)
  PROVE  Owned'
<1> DEFINE n == h.id
           f == Got(n)
           j == h.idx
           old == SlotOf(f, j)
           slot == [old EXCEPT !.value = h.gen, !.initialized = TRUE]
           g == Stored(f, j, slot)
<1>1. /\ fiber' = [fiber EXCEPT ![n] = g] /\ gen' = GenWith(n)
      /\ UNCHANGED <<current, stack, handles, rendered>>
  BY DEF SetState
<1>2. n \in Name /\ j \in Nat /\ h.gen \in Nat
  BY DEF Bracketed, Mounted, Handle
<1>3. f \in Fiber
  BY <1>2, FiberGot DEF Bracketed
<1>4. slot \in Slot /\ slot.kind = old.kind
  <2>1. old \in Slot
    BY <1>2, <1>3, SlotTyped
  <2> HIDE DEF old
  <2> QED
    BY <1>2, <2>1 DEF Slot
<1>5. /\ g \in Fiber /\ g.gen = f.gen /\ g.cursor = f.cursor
      /\ Len(g.slots) = IF j > Len(f.slots) THEN j ELSE Len(f.slots)
      /\ \A i \in Nat : SlotOf(g, i).kind = SlotOf(f, i).kind
  <2>1. old = SlotOf(f, j)
    OBVIOUS
  <2> HIDE DEF f, slot, old, j
  <2>2. \A i \in Nat : SlotOf(Stored(f, j, slot), i) = IF i = j /\ j # 0 THEN slot ELSE SlotOf(f, i)
    BY <1>2, <1>3, <1>4, SlotStored
  <2>3. \A i \in Nat : SlotOf(Stored(f, j, slot), i).kind = SlotOf(f, i).kind
    BY <1>4, <2>1, <2>2
  <2> QED
    BY <1>2, <1>3, <1>4, <2>3, SlotWritten
<1>6. /\ FibersLast /\ fiber'[n] = g /\ g # NoFiber
      /\ \A m \in Name \ {n} : fiber'[m] = fiber[m]
  <2>1. f = Got(n)
    OBVIOUS
  <2> HIDE DEF f, g, n
  <2>2. g.gen = Got(n).gen /\ \A i \in Nat : SlotOf(Got(n), i).kind # "" => SlotOf(g, i).kind = SlotOf(Got(n), i).kind
    BY <1>5, <2>1
  <2> QED
    BY <1>1, <1>2, <1>5, <2>2, WrittenLasts
<1> HIDE DEF g
<1>7. fiber[n] # NoFiber => f = fiber[n]
  BY DEF Got
<1>8. n \in Regular => Len(g.slots) <= Size(n)
  <2> SUFFICES ASSUME n \in Regular
               PROVE  Len(g.slots) <= Size(n)
    OBVIOUS
  <2>1. Size(n) \in Nat /\ j <= Size(n)
    BY SizeFits DEF Owned, Fitting
  <2>2. Len(f.slots) <= Size(n)
    <3>1. CASE fiber[n] = NoFiber
      <4>1. f.slots = <<>>
        BY <3>1 DEF Got
      <4>2. Len(f.slots) = 0
        BY <4>1
      <4> QED
        BY <2>1, <4>2
    <3>2. CASE fiber[n] # NoFiber
      BY <1>7, <3>2 DEF Owned, Fitting
    <3> QED
      BY <3>1, <3>2
  <2> QED
    BY <1>5, <2>1, <2>2
<1>9. NothingClaimed
  <2>1. \A m \in Name : fiber[m] # NoFiber /\ fiber'[m] # NoFiber => fiber'[m].cursor = fiber[m].cursor
    BY <1>5, <1>6, <1>7
  <2>2. \A c \in Regular : fiber'[c] # NoFiber => Len(fiber'[c].slots) <= Size(c)
    <3> SUFFICES ASSUME NEW c \in Regular, fiber'[c] # NoFiber
                 PROVE  Len(fiber'[c].slots) <= Size(c)
      OBVIOUS
    <3>1. c \in Name
      BY SizeFits
    <3> QED
      BY <1>6, <1>8, <3>1 DEF Owned, Fitting
  <2>3. \A c \in rendered' \cap Regular : c \in rendered /\ fiber'[c] # NoFiber
    <3> SUFFICES ASSUME NEW c \in rendered, c \in Regular
                 PROVE  fiber'[c] # NoFiber
      BY <1>1
    <3>1. c \in Name /\ fiber[c] # NoFiber
      BY SizeFits DEF Owned, Full
    <3> QED
      BY <1>6, <3>1
  <2> QED
    BY <1>1, <2>1, <2>2, <2>3 DEF NothingClaimed
<1>10. SameRenders /\ \A k : EffectAt(k)' => EffectAt(k) /\ stack'[k] = stack[k]
  BY <1>1 DEF SameRenders, RenderAt, EffectAt
<1> QED
  BY <1>6, <1>9, <1>10, OwnedLasts

\* Fibers stay, and so does who is current.
LEMMA FibersStay ==
  ASSUME Bracketed, Owned, UNCHANGED <<fiber, current, gen, handles, rendered>>
  PROVE  FibersLast /\ NothingClaimed
<1>1. FibersLast
  <2>1. gen' \in Nat /\ gen <= gen' /\ fiber' = fiber
    BY DEF Bracketed, Mounted
  <2> QED
    BY <2>1 DEF FibersLast, KindAt
<1>2. \A c \in Regular : fiber[c] # NoFiber => Len(fiber[c].slots) <= Size(c)
  BY DEF Owned, Fitting
<1>3. \A c \in rendered \cap Regular : fiber[c] # NoFiber
  BY DEF Owned, Full
<1> QED
  BY <1>1, <1>2, <1>3 DEF NothingClaimed

\* The last call, which is no render, goes on or returns.
LEMMA OwnedCleanups ==
  ASSUME Bracketed, Bracketed', Accounted, Owned, RunCleanup \/ UnmountReturns
  PROVE  Owned'
<1>1. stack # <<>> /\ Stacked /\ Top.at = "unmount" /\ UNCHANGED <<fiber, current, gen, handles, rendered>>
  BY DEF RunCleanup, UnmountReturns, At, Bracketed
<1>2. /\ \A k : k \in DOMAIN stack' /\ stack'[k].at # "unmount" => k \in DOMAIN stack /\ stack'[k] = stack[k]
      /\ \A k \in DOMAIN stack : stack[k].at # "unmount" => k \in DOMAIN stack' /\ stack'[k] = stack[k]
  <2>1. CASE UnmountReturns
    <3>1. stack' = Below
      BY <2>1 DEF UnmountReturns
    <3> QED
      BY <1>1, <3>1, LastReturns
  <2>2. CASE RunCleanup
    <3>1. PICK i \in DOMAIN Top.todo :
            stack' = Append(Below, [Top EXCEPT !.todo = Left(@, i), !.ran = TRUE])
      BY <2>2 DEF RunCleanup
    <3> DEFINE call == [Top EXCEPT !.todo = Left(@, i), !.ran = TRUE]
    <3>2. Top \in [at: {"unmount"}, todo: {Top.todo}, ran: BOOLEAN]
      BY <1>1, LastCall DEF Entered
    <3>3. call \in [at: {"unmount"}, todo: {Left(Top.todo, i)}, ran: BOOLEAN]
      BY <3>2
    <3>4. call.at = "unmount" /\ stack' = Append(Below, call)
      BY <3>1, <3>3
    <3> HIDE DEF call
    <3>5. Entered(call)
      BY <3>3, <3>4 DEF Entered
    <3>6. /\ Calls(Below) /\ DOMAIN stack = 1..Len(stack)
          /\ Len(stack) \in Nat \ {0} /\ Len(Below) = Len(stack) - 1
          /\ \A k \in 1..(Len(stack) - 1) : Below[k] = stack[k]
          /\ Top = stack[Len(stack)]
      BY <1>1, LastCall
    <3>7. /\ DOMAIN stack' = 1..(Len(Below) + 1)
          /\ \A k \in 1..Len(Below) : stack'[k] = Below[k]
          /\ stack'[Len(Below) + 1] = call
      <4> DEFINE t == Append(Below, call)
      <4>1. /\ DOMAIN t = 1..(Len(Below) + 1)
            /\ \A k \in 1..Len(Below) : t[k] = Below[k]
            /\ t[Len(Below) + 1] = call
        BY <3>5, <3>6, Pushed
      <4>2. stack' = t
        BY <3>4
      <4> HIDE DEF t
      <4> QED
        BY <4>1, <4>2
    <3> DEFINE n == Len(stack)
    <3>8. /\ n \in Nat \ {0} /\ Len(Below) + 1 = n /\ Len(Below) = n - 1
          /\ DOMAIN stack = 1..n /\ DOMAIN stack' = 1..n /\ stack'[n] = call /\ stack[n] = Top
      BY <3>6, <3>7
    <3>9. \A k \in 1..(n - 1) : stack'[k] = stack[k]
      BY <3>6, <3>7, <3>8
    <3> HIDE DEF n
    <3>10. \A k \in 1..n : k = n \/ stack'[k] = stack[k]
      BY <3>8, <3>9
    <3> QED
      BY <1>1, <3>4, <3>8, <3>10
  <2> QED
    BY <2>1, <2>2
<1>3. SameRenders /\ \A k : EffectAt(k)' => EffectAt(k) /\ stack'[k] = stack[k]
  BY <1>2 DEF SameRenders, RenderAt, EffectAt
<1>4. FibersLast /\ NothingClaimed
  BY <1>1, FibersStay
<1> QED
  BY <1>3, <1>4, OwnedLasts

LEMMA OwnedUnmount ==
  ASSUME Bracketed, Bracketed', Accounted, Owned, NEW n \in Name, Unmount(n)
  PROVE  Owned'
<1> DEFINE call == [at |-> "unmount", todo |-> Cleanups(fiber[n]), ran |-> FALSE]
           last == Len(stack) + 1
<1>1. /\ fiber[n] # NoFiber /\ fiber' = [fiber EXCEPT ![n] = NoFiber]
      /\ current' = IF current = n THEN Nobody ELSE current
      /\ stack' = Append(stack, call) /\ rendered' = rendered \ {n} /\ UNCHANGED <<gen, handles>>
  BY DEF Unmount, CurrentWithout
<1>2. call.at = "unmount" /\ Entered(call)
  BY DEF Entered
<1> HIDE DEF call
<1>3. /\ Len(stack) \in Nat /\ DOMAIN stack' = 1..last
      /\ \A i \in 1..Len(stack) : stack'[i] = stack[i]
      /\ stack'[last] = call /\ DOMAIN stack = 1..Len(stack)
  BY <1>1, <1>2, Pushed DEF Bracketed, Stacked, Calls
<1>4. /\ \A k : k \in DOMAIN stack' <=> k \in DOMAIN stack \/ k = last
      /\ last \notin DOMAIN stack /\ \A k \in DOMAIN stack : stack'[k] = stack[k]
  BY <1>3
<1> HIDE DEF last
<1>5. SameRenders /\ \A k : EffectAt(k)' => EffectAt(k) /\ stack'[k] = stack[k]
  BY <1>2, <1>3, <1>4 DEF SameRenders, RenderAt, EffectAt
<1>6. fiber'[n] = NoFiber /\ \A m \in Name \ {n} : fiber'[m] = fiber[m]
  BY <1>1 DEF Bracketed, Mounted
<1>7. FibersLast
  <2>1. gen' \in Nat /\ gen <= gen'
    BY <1>1 DEF Bracketed, Mounted
  <2>2. \A m \in Name : fiber'[m] # NoFiber => fiber'[m] = fiber[m]
    BY <1>6
  <2> QED
    BY <2>1, <2>2 DEF FibersLast, KindAt
<1>8. NothingClaimed
  <2>1. \A c \in Regular : fiber'[c] # NoFiber => Len(fiber'[c].slots) <= Size(c)
    BY <1>6, SizeFits DEF Owned, Fitting
  <2>2. \A c \in rendered' \cap Regular : c \in rendered /\ fiber'[c] # NoFiber
    BY <1>1, <1>6, SizeFits DEF Owned, Full
  <2> QED
    BY <1>1, <1>6, <2>1, <2>2 DEF NothingClaimed
<1> QED
  BY <1>5, <1>7, <1>8, OwnedLasts

LEMMA OwnedEffectReturns ==
  ASSUME Bracketed, Bracketed', Accounted, Owned, NEW new \in Run, EffectReturns(new)
  PROVE  Owned'
<1> DEFINE slot == [EmptySlot EXCEPT !.kind = "effect", !.initialized = TRUE, !.deps = Top.deps, !.cleanup = new]
           at == Len(stack)
<1>1. /\ stack # <<>> /\ Stacked /\ stack' = Below /\ Top.at = "effect"
      /\ Top \in [at: {"effect"}, id: Name, gen: Nat, idx: Nat, deps: SUBSET Dep, old: Run \cup {NoRun}]
      /\ UNCHANGED <<current, gen, handles, rendered>>
  BY InsideEffect DEF EffectReturns, At
<1>2. /\ \A k : k \in DOMAIN stack' <=> k \in DOMAIN stack /\ k # at
      /\ \A k \in DOMAIN stack' : stack'[k] = stack[k]
      /\ at \in DOMAIN stack /\ Top = stack[at]
  BY <1>1, LastReturns
<1> HIDE DEF at
<1>3. SameRenders /\ \A k : EffectAt(k)' => EffectAt(k) /\ stack'[k] = stack[k]
  BY <1>1, <1>2 DEF SameRenders, RenderAt, EffectAt
<1>4. CASE ~StillMounted(at)
  <2>1. UNCHANGED fiber
    BY <1>2, <1>4 DEF EffectReturns, StillMounted
  <2> QED
    BY <1>1, <1>3, <2>1, FibersStay, OwnedLasts
<1>5. CASE StillMounted(at)
  <2> DEFINE n == Top.id
             f == fiber[n]
             j == Top.idx
             g == Stored(f, j, slot)
  <2>1. fiber' = [fiber EXCEPT ![n] = g]
    BY <1>2, <1>5 DEF EffectReturns, StillMounted
  <2>2. n \in Name /\ j \in Nat /\ f \in Fiber /\ f # NoFiber /\ SlotOf(f, j).kind = "effect"
    BY <1>1, <1>2, <1>5 DEF StillMounted, Bracketed, Mounted, EffectAt, Owned, Marked, KindAt
  <2>3. slot \in Slot /\ slot.kind = "effect"
    BY <1>1 DEF EmptySlot, Slot, Kind
  <2>4. f = Got(n) /\ gen' = GenWith(n)
    BY <1>1, <2>2 DEF Got, GenWith
  <2> HIDE DEF f, j, n, slot
  <2>5. j \in DOMAIN f.slots
    BY <2>2 DEF SlotOf, EmptySlot
  <2>6. j <= Len(f.slots) /\ Len(f.slots) \in Nat
    <3>1. f.slots \in Seq(Slot)
      BY <2>2 DEF Fiber
    <3> QED
      BY <2>5, <3>1
  <2>7. /\ g \in Fiber /\ g.gen = f.gen /\ g.cursor = f.cursor /\ Len(g.slots) = Len(f.slots)
        /\ \A i \in Nat : SlotOf(g, i).kind = SlotOf(f, i).kind
    <3>1. \A i \in Nat : SlotOf(Stored(f, j, slot), i) = IF i = j /\ j # 0 THEN slot ELSE SlotOf(f, i)
      BY <2>2, <2>3, SlotStored
    <3>2. \A i \in Nat : SlotOf(g, i).kind = SlotOf(f, i).kind
      BY <2>2, <2>3, <3>1
    <3> QED
      BY <2>2, <2>3, <2>6, <3>2, SlotWritten
  <2> HIDE DEF g
  <2>8. /\ FibersLast /\ fiber'[n] = g /\ g # NoFiber
        /\ \A m \in Name \ {n} : fiber'[m] = fiber[m]
    BY <2>1, <2>2, <2>4, <2>7, WrittenLasts
  <2>9. f = fiber[n]
    BY DEF f
  <2>10. NothingClaimed
    <3>1. \A m \in Name : fiber[m] # NoFiber /\ fiber'[m] # NoFiber => fiber'[m].cursor = fiber[m].cursor
      BY <2>7, <2>8, <2>9
    <3>2. \A c \in Regular : fiber'[c] # NoFiber => Len(fiber'[c].slots) <= Size(c)
      <4> SUFFICES ASSUME NEW c \in Regular, fiber'[c] # NoFiber
                   PROVE  Len(fiber'[c].slots) <= Size(c)
        OBVIOUS
      <4>1. c \in Name
        BY SizeFits
      <4> QED
        BY <2>2, <2>7, <2>8, <2>9, <4>1 DEF Owned, Fitting
    <3>3. \A c \in rendered' \cap Regular : c \in rendered /\ fiber'[c] # NoFiber
      BY <1>1, <2>8, SizeFits DEF Owned, Full
    <3> QED
      BY <1>1, <3>1, <3>2, <3>3 DEF NothingClaimed
  <2> QED
    BY <1>3, <2>8, <2>10, OwnedLasts
<1> QED
  BY <1>4, <1>5


(***************************************************************************)
(* The render that goes on, and what of its body is left.                   *)
(***************************************************************************)
LEMMA TopRenders ==
  ASSUME Bracketed, Owned, At("render")
  PROVE  /\ RenderAt(Len(stack)) /\ LastRender(Len(stack)) /\ Top = stack[Len(stack)]
         /\ \A k : RenderAt(k) /\ LastRender(k) => k = Len(stack)
         /\ current \in Regular => Top.c = current /\ Rendering(Len(stack))
<1>1. /\ DOMAIN stack = 1..Len(stack) /\ Len(stack) \in Nat \ {0}
      /\ Top = stack[Len(stack)] /\ Top.at = "render"
  BY InsideRender, LastCall DEF At
<1> DEFINE n == Len(stack)
<1>2. n \in Nat \ {0} /\ DOMAIN stack = 1..n /\ stack[n].at = "render"
  BY <1>1
<1> HIDE DEF n
<1>3. RenderAt(n)
  BY <1>2 DEF RenderAt
<1>4. LastRender(n)
  BY <1>2 DEF LastRender, RenderAt
<1>5. \A k : RenderAt(k) /\ LastRender(k) => k = n
  <2> SUFFICES ASSUME NEW k, RenderAt(k), LastRender(k)
               PROVE  k = n
    OBVIOUS
  <2>1. n <= k
    BY <1>3 DEF LastRender
  <2>2. k \in 1..n
    BY <1>2 DEF RenderAt
  <2> QED
    BY <1>2, <2>1, <2>2
<1>6. ASSUME current \in Regular
      PROVE  stack[n].c = current /\ Rendering(n)
  BY <1>5, <1>6 DEF Owned, Placed
<1> QED
  BY <1>1, <1>3, <1>4, <1>5, <1>6 DEF n

\* What is left of a body after the first i hooks: the next one, or nothing but children.
LEMMA BodyEnds ==
  ASSUME NEW c \in Regular, NEW b \in Bodies[c], NEW i \in Nat, i <= Size(c),
         NEW rest \in Seq(Kind \cup Comp), Len(rest) = Len(b) - i,
         \A j \in DOMAIN rest : rest[j] = b[i + j]
  PROVE  /\ rest = <<>> \/ Head(rest) \notin Kind => i = Size(c) /\ \A j \in DOMAIN rest : rest[j] \notin Kind
         /\ rest # <<>> /\ Head(rest) \in Kind =>
              /\ i + 1 <= Size(c) /\ Head(rest) = b[i + 1]
              /\ Len(Tail(rest)) = Len(b) - (i + 1)
              /\ \A j \in DOMAIN Tail(rest) : Tail(rest)[j] = b[(i + 1) + j]
<1> DEFINE n == Size(c)
<1>1. n \in Nat /\ Begins(b, n) /\ b \in Seq(Kind \cup Comp)
  BY SizeFits
<1> HIDE DEF n
<1>2. /\ Len(b) \in Nat /\ DOMAIN b = 1..Len(b) /\ n <= Len(b)
      /\ \A j \in 1..Len(b) : b[j] \in Kind <=> j <= n
  BY <1>1 DEF Begins
<1>3. Len(rest) \in Nat /\ DOMAIN rest = 1..Len(rest) /\ i <= n
  BY DEF n
<1>4. rest # <<>> =>
        /\ Len(rest) >= 1 /\ Head(rest) = rest[1] /\ Len(Tail(rest)) = Len(rest) - 1
        /\ DOMAIN Tail(rest) = 1..(Len(rest) - 1)
        /\ \A j \in 1..(Len(rest) - 1) : Tail(rest)[j] = rest[j + 1]
  OBVIOUS
<1>5. rest = <<>> => Len(rest) = 0
  OBVIOUS
<1>6. \A j \in 1..Len(rest) : i + j \in 1..Len(b) /\ rest[j] = b[i + j]
  BY <1>2, <1>3
<1>7. rest # <<>> => (Head(rest) \in Kind <=> i + 1 <= n) /\ Head(rest) = b[i + 1]
  BY <1>2, <1>3, <1>4, <1>6
<1>8. ASSUME rest = <<>> \/ Head(rest) \notin Kind
      PROVE  i = n /\ \A j \in DOMAIN rest : rest[j] \notin Kind
  <2>1. i = n
    BY <1>1, <1>2, <1>3, <1>5, <1>7, <1>8
  <2>2. \A j \in 1..Len(rest) : ~(i + j <= n)
    BY <1>1, <1>3, <2>1
  <2> QED
    BY <1>2, <1>3, <1>6, <2>1, <2>2
<1>9. ASSUME rest # <<>>, Head(rest) \in Kind
      PROVE  /\ i + 1 <= n /\ Head(rest) = b[i + 1]
             /\ Len(Tail(rest)) = Len(b) - (i + 1)
             /\ \A j \in DOMAIN Tail(rest) : Tail(rest)[j] = b[(i + 1) + j]
  <2>1. Len(Tail(rest)) = Len(b) - (i + 1)
    BY <1>2, <1>3, <1>4, <1>9
  <2>2. ASSUME NEW j \in DOMAIN Tail(rest)
        PROVE  Tail(rest)[j] = b[(i + 1) + j]
    <3>1. j \in 1..(Len(rest) - 1) /\ j + 1 \in 1..Len(rest)
      BY <1>3, <1>4, <1>9, <2>2
    <3>2. Tail(rest)[j] = rest[j + 1] /\ rest[j + 1] = b[i + (j + 1)]
      BY <1>4, <1>6, <1>9, <3>1
    <3>3. i + (j + 1) = (i + 1) + j
      BY <3>1
    <3> QED
      BY <3>2, <3>3
  <2> QED
    BY <1>7, <1>9, <2>1, <2>2
<1> QED
  BY <1>8, <1>9 DEF n

\* What Amid says, of the render that goes on.
LEMMA AmidTop ==
  ASSUME Bracketed, Owned, At("render"), NEW c \in Regular, Top.c = c, Amid(Len(stack)), Rendering(Len(stack))
  PROVE  /\ current = c /\ fiber[c] \in Fiber /\ fiber[c] # NoFiber
         /\ fiber[c].cursor \in Nat /\ fiber[c].cursor <= Size(c)
         /\ Top.body \in Seq(Kind \cup Comp)
         /\ \E body \in Bodies[c] :
              /\ Filled(c, body, fiber[c].cursor)
              /\ Len(Top.body) = Len(body) - fiber[c].cursor
              /\ \A j \in DOMAIN Top.body : Top.body[j] = body[fiber[c].cursor + j]
<1>1. Top = stack[Len(stack)] /\ Top.body \in Seq(Kind \cup Comp)
  BY TopRenders, InsideRender
<1>2. fiber[c] # NoFiber /\ fiber[c] \in Fiber
  BY <1>1, SizeFits DEF Rendering, Bracketed, Mounted
<1>3. fiber[c].cursor \in Nat
  BY <1>2 DEF Fiber
<1> QED
  BY <1>1, <1>2, <1>3 DEF Amid

\* Nothing but children is left to the render that goes on: its hooks have been called.
LEMMA HooksOver ==
  ASSUME Bracketed, Owned, At("render"), Top.c \in Regular, Rendering(Len(stack)),
         Top.body = <<>> \/ Head(Top.body) \notin Kind
  PROVE  Full(Top.c) /\ \A i \in DOMAIN Top.body : Top.body[i] \notin Kind
<1>1. RenderAt(Len(stack)) /\ Top = stack[Len(stack)]
  BY TopRenders
<1>2. CASE Over(Len(stack))
  BY <1>1, <1>2 DEF Over
<1>3. CASE Amid(Len(stack))
  <2>1. PICK c \in Regular : Top.c = c
    OBVIOUS
  <2> DEFINE n == fiber[c].cursor
             rest == Top.body
  <2>2. /\ fiber[c] # NoFiber /\ n \in Nat /\ n <= Size(c) /\ rest \in Seq(Kind \cup Comp)
        /\ \E body \in Bodies[c] :
             /\ Filled(c, body, n)
             /\ Len(rest) = Len(body) - n
             /\ \A j \in DOMAIN rest : rest[j] = body[n + j]
    BY <1>3, <2>1, AmidTop
  <2>3. PICK body \in Bodies[c] :
          /\ Filled(c, body, n)
          /\ Len(rest) = Len(body) - n
          /\ \A j \in DOMAIN rest : rest[j] = body[n + j]
    BY <2>2
  <2>4. rest = <<>> \/ Head(rest) \notin Kind
    OBVIOUS
  <2> HIDE DEF n, rest
  <2>5. n = Size(c) /\ \A j \in DOMAIN rest : rest[j] \notin Kind
    BY <2>2, <2>3, <2>4, BodyEnds
  <2>6. Full(c)
    BY <2>2, <2>3, <2>5 DEF Full
  <2> QED
    BY <2>1, <2>5, <2>6 DEF rest
<1> QED
  BY <1>1, <1>2, <1>3 DEF Owned, Placed

\* A hook of a component that keeps the rules is called by its own render.
LEMMA ClaimsOwn ==
  ASSUME Bracketed, Owned, At("render"), Top.body # <<>>, Head(Top.body) \in Kind,
         NEW c \in Regular, current = c
  PROVE  /\ fiber[c] \in Fiber /\ fiber[c] # NoFiber /\ Top.c = c /\ Rendering(Len(stack))
         /\ fiber[c].cursor \in Nat /\ fiber[c].cursor + 1 <= Size(c)
         /\ \E body \in Bodies[c] :
              /\ Filled(c, body, fiber[c].cursor)
              /\ Head(Top.body) = body[fiber[c].cursor + 1]
              /\ Len(Tail(Top.body)) = Len(body) - (fiber[c].cursor + 1)
              /\ \A j \in DOMAIN Tail(Top.body) : Tail(Top.body)[j] = body[(fiber[c].cursor + 1) + j]
<1>1. /\ RenderAt(Len(stack)) /\ Top = stack[Len(stack)] /\ Top.c = c /\ Rendering(Len(stack))
      /\ Top.body \in Seq(Kind \cup Comp)
  BY TopRenders, InsideRender
<1>2. ~Over(Len(stack))
  <2>1. Top.body[1] \in Kind /\ 1 \in DOMAIN Top.body
    BY <1>1
  <2> QED
    BY <1>1, <2>1 DEF Over
<1>3. Amid(Len(stack))
  BY <1>1, <1>2 DEF Owned, Placed
<1> DEFINE n == fiber[c].cursor
           rest == Top.body
<1>4. /\ fiber[c] \in Fiber /\ fiber[c] # NoFiber
      /\ n \in Nat /\ n <= Size(c) /\ rest \in Seq(Kind \cup Comp)
      /\ \E body \in Bodies[c] :
           /\ Filled(c, body, n)
           /\ Len(rest) = Len(body) - n
           /\ \A j \in DOMAIN rest : rest[j] = body[n + j]
  BY <1>1, <1>3, AmidTop
<1>5. PICK body \in Bodies[c] :
        /\ Filled(c, body, n)
        /\ Len(rest) = Len(body) - n
        /\ \A j \in DOMAIN rest : rest[j] = body[n + j]
  BY <1>4
<1>6. rest # <<>> /\ Head(rest) \in Kind
  OBVIOUS
<1> HIDE DEF n, rest
<1>7. /\ n + 1 <= Size(c) /\ Head(rest) = body[n + 1]
      /\ Len(Tail(rest)) = Len(body) - (n + 1)
      /\ \A j \in DOMAIN Tail(rest) : Tail(rest)[j] = body[(n + 1) + j]
  BY <1>4, <1>5, <1>6, BodyEnds
<1> QED
  BY <1>1, <1>4, <1>5, <1>7 DEF n, rest

\* The calls of `stack', of which the last has gone on in its body.
Onward(s) ==
  /\ Calls(s) /\ DOMAIN s = DOMAIN stack
  /\ \A k \in DOMAIN stack : s[k].at = stack[k].at
  /\ \A k : RenderAt(k) => s[k].c = stack[k].c /\ s[k].gen = stack[k].gen

LEMMA RestFrames ==
  ASSUME Bracketed, At("render"), Top.body # <<>>
  PROVE  /\ Onward(Rest)
         /\ \A k \in DOMAIN stack : k # Len(stack) => Rest[k] = stack[k]
         /\ Rest[Len(stack)].body = Tail(Top.body)
<1> DEFINE f == [Top EXCEPT !.body = Tail(@)]
           n == Len(stack)
<1>1. stack # <<>> /\ Stacked /\ Top \in [at: {"render"}, c: Comp, gen: Nat, body: Seq(Kind \cup Comp)]
  BY InsideRender
<1>2. Tail(Top.body) \in Seq(Kind \cup Comp)
  BY <1>1
<1>3. f \in [at: {"render"}, c: {Top.c}, gen: {Top.gen}, body: {Tail(Top.body)}]
  BY <1>1
<1>4. f.at = "render" /\ f.c = Top.c /\ f.gen = Top.gen /\ f.body = Tail(Top.body)
  BY <1>3
<1>5. f \in [at: {"render"}, c: Comp, gen: Nat, body: Seq(Kind \cup Comp)]
  BY <1>1, <1>2
<1>6. Rest = Append(Below, f)
  BY DEF Rest
<1> HIDE DEF f
<1>7. Entered(f)
  BY <1>4, <1>5 DEF Entered
<1>8. /\ n \in Nat \ {0} /\ DOMAIN stack = 1..n /\ Calls(Below) /\ Len(Below) = n - 1
      /\ \A k \in 1..(n - 1) : Below[k] = stack[k]
      /\ Top = stack[n]
  BY <1>1, LastCall
<1>9. /\ Calls(Rest) /\ DOMAIN Rest = 1..(Len(Below) + 1)
      /\ \A k \in 1..Len(Below) : Rest[k] = Below[k]
      /\ Rest[Len(Below) + 1] = f
  <2> DEFINE t == Append(Below, f)
  <2>1. /\ Calls(t) /\ DOMAIN t = 1..(Len(Below) + 1)
        /\ \A k \in 1..Len(Below) : t[k] = Below[k]
        /\ t[Len(Below) + 1] = f
    <3>1. Calls(Below)
      BY <1>8
    <3> QED
      BY <1>7, <3>1, Pushed
  <2>2. Rest = t
    BY <1>6
  <2> HIDE DEF t
  <2> QED
    BY <2>1, <2>2
<1> HIDE DEF n
<1>10. DOMAIN Rest = DOMAIN stack /\ Rest[n] = f /\ \A k \in DOMAIN stack : k # n => Rest[k] = stack[k]
  <2>1. Len(Below) + 1 = n /\ \A k \in 1..n : k # n => k \in 1..(n - 1)
    BY <1>8
  <2> QED
    BY <1>8, <1>9, <2>1
<1>11. \A k \in DOMAIN stack : Rest[k].at = stack[k].at
  BY <1>1, <1>4, <1>8, <1>10
<1>12. \A k : RenderAt(k) => Rest[k].c = stack[k].c /\ Rest[k].gen = stack[k].gen
  BY <1>4, <1>8, <1>10 DEF RenderAt
<1> QED
  BY <1>4, <1>9, <1>10, <1>11, <1>12 DEF Onward, n

(***************************************************************************)
(* Steps of renders.                                                        *)
(***************************************************************************)

\* Slots that stay, with no call left.
LEMMA OwnedPanic ==
  ASSUME Bracketed, Bracketed', Owned, NEW fs, fs \in [Name -> Fiber \cup {NoFiber}],
         \A n \in Name : /\ fs[n] = NoFiber <=> fiber[n] = NoFiber
                         /\ fiber[n] # NoFiber => fs[n].slots = fiber[n].slots,
         Panic(fs)
  PROVE  Owned'
<1>1. stack' = <<>> /\ UNCHANGED <<handles, rendered>> /\ Unwound(fs)
  BY DEF Panic
<1>2. \A n \in Name : /\ fiber'[n] = NoFiber <=> fiber[n] = NoFiber
                      /\ fiber[n] # NoFiber => fiber'[n].slots = fiber[n].slots
  <2>1. CASE fiber' = fs
    BY <2>1
  <2>2. CASE current # Nobody /\ fiber' = [fs EXCEPT ![current] = Counted(@)]
    <3>1. current \in Name /\ fs[current] \in Fiber /\ fiber[current] # NoFiber
      BY <2>2 DEF Bracketed, Mounted, Calm
    <3>2. Counted(fs[current]) \in Fiber /\ Counted(fs[current]).slots = fs[current].slots
      BY <3>1, FiberClaimed, SlotsOfClaimed
    <3>3. /\ fiber'[current] = Counted(fs[current]) /\ fiber'[current] # NoFiber
          /\ \A n \in Name \ {current} : fiber'[n] = fs[n]
      BY <2>2, <3>1, <3>2, NoFiberAssumption
    <3> QED
      BY <3>1, <3>2, <3>3
  <2> QED
    BY <1>1, <2>1, <2>2 DEF Unwound
<1>3. current' \notin Regular
  BY <1>1, HooksAssumption DEF Bracketed, Calm, Regular
<1>4. (\A k : ~RenderAt(k)') /\ (\A k : ~EffectAt(k)')
  BY <1>1 DEF RenderAt, EffectAt
<1>5. Fitting'
  BY <1>1, <1>2, SizeFits DEF Owned, Fitting
<1>6. \A c \in rendered \cap Regular : Full(c)'
  <2> SUFFICES ASSUME NEW c \in Regular, Full(c)
               PROVE  Full(c)'
    BY DEF Owned
  <2>1. fiber[c] # NoFiber /\ fiber'[c] # NoFiber /\ fiber'[c].slots = fiber[c].slots
    BY <1>2, SizeFits DEF Full
  <2>2. \A i : SlotOf(fiber'[c], i) = SlotOf(fiber[c], i)
    BY <2>1 DEF SlotOf
  <2>3. \A i : KindAt(c, i)' = KindAt(c, i)
    BY <2>2 DEF KindAt
  <2>4. \A body, i : Filled(c, body, i)' <=> Filled(c, body, i)
    BY <2>3 DEF Filled
  <2> QED
    BY <2>1, <2>4 DEF Full
<1>7. Placed' /\ Marked'
  BY <1>3, <1>4 DEF Placed, Marked
<1> QED
  BY <1>1, <1>5, <1>6, <1>7 DEF Owned

LEMMA OwnedCodePanics ==
  ASSUME Bracketed, Bracketed', Owned, CodePanics
  PROVE  Owned'
<1>1. Panic(fiber)
  BY DEF CodePanics
<1> QED
  BY <1>1, OwnedPanic DEF Bracketed, Mounted

LEMMA OwnedKindChanged ==
  ASSUME Bracketed, Bracketed', Owned, KindChanged
  PROVE  Owned'
<1> DEFINE fs == [fiber EXCEPT ![Claimant] = Claimed(@)]
<1>1. /\ Panic(fs)
      /\ SlotOf(Got(Claimant), Index(Got(Claimant))).kind # ""
  BY DEF KindChanged
<1>2. Claimant \in Name
  BY DEF Claimant, Bracketed, Mounted, Name
<1>3. fiber[Claimant] # NoFiber
  <2> SUFFICES ASSUME fiber[Claimant] = NoFiber
               PROVE  FALSE
    OBVIOUS
  <2> DEFINE g == Got(Claimant)
  <2>1. g.slots = <<>>
    BY DEF Got
  <2>2. SlotOf(g, Index(g)) = EmptySlot
    BY <2>1 DEF SlotOf
  <2>3. EmptySlot.kind = ""
    BY DEF EmptySlot
  <2>4. SlotOf(g, Index(g)).kind # ""
    BY <1>1
  <2> HIDE DEF g
  <2> QED
    BY <2>2, <2>3, <2>4
<1>4. Claimed(fiber[Claimant]) \in Fiber /\ Claimed(fiber[Claimant]).slots = fiber[Claimant].slots
  BY <1>2, <1>3, FiberClaimed, SlotsOfClaimed DEF Bracketed, Mounted
<1>5. /\ fs \in [Name -> Fiber \cup {NoFiber}] /\ fs[Claimant] = Claimed(fiber[Claimant])
      /\ \A n \in Name \ {Claimant} : fs[n] = fiber[n]
  BY <1>2, <1>4 DEF Bracketed, Mounted
<1> HIDE DEF fs
<1>6. \A n \in Name : /\ fs[n] = NoFiber <=> fiber[n] = NoFiber
                      /\ fiber[n] # NoFiber => fs[n].slots = fiber[n].slots
  BY <1>3, <1>4, <1>5, NoFiberAssumption
<1> QED
  BY <1>1, <1>5, <1>6, OwnedPanic

\* No render of `stack' has a hook left in its body, in s.
Hookless(s) ==
  \A k : RenderAt(k) /\ stack[k].c \in Regular /\ Rendering(k) =>
    Full(stack[k].c) /\ \A i \in DOMAIN s[k].body : s[k].body[i] \notin Kind

LEMMA OwnedBeginRender ==
  ASSUME Bracketed, Bracketed', Accounted, Owned, NEW c \in Comp, NEW under, BeginRender(c, under),
         Onward(under), Hookless(under), \A k : ~EffectAt(k)
  PROVE  Owned'
<1>1. PICK body \in Bodies[c] :
        /\ fiber' = [fiber EXCEPT ![c] = Rewound(Got(c))]
        /\ gen' = GenWith(c) /\ current' = c
        /\ stack' = Append(under, [at |-> "render", c |-> c, gen |-> Got(c).gen, body |-> body])
        /\ rendered' = rendered \ {c} /\ UNCHANGED handles
  BY DEF BeginRender
<1> DEFINE f == Got(c)
           g == Rewound(f)
           call == [at |-> "render", c |-> c, gen |-> f.gen, body |-> body]
           last == Len(under) + 1
<1>2. c \in Name /\ f \in Fiber
  BY FiberGot DEF Bracketed, Name
<1>3. /\ g \in Fiber /\ g.gen = f.gen /\ g.slots = f.slots /\ g.cursor = 0
      /\ \A i : SlotOf(g, i) = SlotOf(f, i)
  <2> HIDE DEF f
  <2>1. g \in Fiber /\ g.gen = f.gen /\ g.slots = f.slots /\ \A i : SlotOf(g, i) = SlotOf(f, i)
    BY <1>2, FiberClaimed, SlotsOfClaimed
  <2>2. g.cursor = 0
    BY <1>2 DEF Rewound, Fiber
  <2> QED
    BY <2>1, <2>2
<1>4. /\ FibersLast /\ fiber'[c] = g /\ g # NoFiber
      /\ \A m \in Name \ {c} : fiber'[m] = fiber[m]
  <2>1. fiber' = [fiber EXCEPT ![c] = g] /\ gen' = GenWith(c) /\ f = Got(c)
    BY <1>1
  <2> HIDE DEF f, g
  <2>2. g.gen = Got(c).gen /\ \A i \in Nat : SlotOf(Got(c), i).kind # "" => SlotOf(g, i).kind = SlotOf(Got(c), i).kind
    BY <1>3, <2>1
  <2> QED
    BY <1>2, <1>3, <2>1, <2>2, WrittenLasts
<1>5. /\ call \in [at: {"render"}, c: {c}, gen: {f.gen}, body: {body}]
      /\ body \in Seq(Kind \cup Comp) /\ f.gen \in Nat
  BY <1>2, HooksAssumption DEF Fiber
<1>6. call.at = "render" /\ call.c = c /\ call.gen = f.gen /\ call.body = body /\ Entered(call)
  <2> HIDE DEF call
  <2>1. call.at = "render" /\ call.c = c /\ call.gen = f.gen /\ call.body = body
    BY <1>5
  <2>2. call \in [at: {"render"}, c: Comp, gen: Nat, body: Seq(Kind \cup Comp)]
    BY <1>5
  <2> QED
    BY <2>1, <2>2 DEF Entered
<1>7. /\ \A k : k \in DOMAIN stack' <=> k \in DOMAIN stack \/ k = last
      /\ last \notin DOMAIN stack /\ last <= last
      /\ \A k \in DOMAIN stack : stack'[k] = under[k] /\ k <= last
      /\ stack'[last] = call
  <2>1. stack' = Append(under, call)
    BY <1>1
  <2> HIDE DEF call
  <2> DEFINE t == Append(under, call)
  <2>2. Calls(under)
    BY DEF Onward
  <2>3. /\ Len(under) \in Nat /\ DOMAIN t = 1..(Len(under) + 1)
        /\ \A i \in 1..Len(under) : t[i] = under[i]
        /\ t[Len(under) + 1] = call
    BY <1>6, <2>2, Pushed
  <2>4. stack' = t /\ DOMAIN under = 1..Len(under)
    BY <2>1, <2>2 DEF Calls
  <2> HIDE DEF t
  <2>5. DOMAIN stack = 1..Len(under)
    BY <2>4 DEF Onward
  <2> QED
    BY <2>3, <2>4, <2>5
<1> HIDE DEF call, last
<1>8. \A k : RenderAt(k)' <=> RenderAt(k) \/ k = last
  BY <1>6, <1>7 DEF RenderAt, Onward
<1>9. /\ \A k : ~(RenderAt(k) /\ k = last)
      /\ \A k : RenderAt(k) => stack'[k] = under[k] /\ stack'[k].c = stack[k].c /\ stack'[k].gen = stack[k].gen
  BY <1>7 DEF RenderAt, Onward
<1>10. Fitting'
  <2>1. c \in Regular => Len(g.slots) <= Size(c)
    <3>1. CASE fiber[c] = NoFiber
      <4>1. f.slots = <<>>
        BY <3>1 DEF Got
      <4>2. Len(g.slots) = 0
        BY <1>3, <4>1
      <4> QED
        BY <4>2, SizeFits
    <3>2. CASE fiber[c] # NoFiber
      <4>1. f = fiber[c]
        BY <3>2 DEF Got
      <4> QED
        BY <1>3, <3>2, <4>1 DEF Owned, Fitting
    <3> QED
      BY <3>1, <3>2
  <2>2. \A d \in Regular : fiber'[d] # NoFiber => Len(fiber'[d].slots) <= Size(d)
    <3> SUFFICES ASSUME NEW d \in Regular, fiber'[d] # NoFiber
                 PROVE  Len(fiber'[d].slots) <= Size(d)
      OBVIOUS
    <3>1. d \in Name
      BY SizeFits
    <3> HIDE DEF g
    <3> QED
      BY <1>4, <2>1, <3>1 DEF Owned, Fitting
  <2> QED
    BY <1>1, <2>2 DEF Owned, Fitting
<1>11. Marked'
  <2>1. \A k : ~EffectAt(k)'
    <3> SUFFICES ASSUME NEW k, EffectAt(k)'
                 PROVE  FALSE
      OBVIOUS
    <3>1. k \in DOMAIN stack
      BY <1>6, <1>7 DEF EffectAt
    <3>2. stack[k].at = "effect"
      BY <1>7, <3>1 DEF EffectAt, Onward
    <3> QED
      BY <3>1, <3>2 DEF EffectAt
  <2> QED
    BY <2>1 DEF Marked
<1>12. \A d \in rendered' \cap Regular : Full(d)'
  <2> SUFFICES ASSUME NEW d \in Regular, d \in rendered, d # c
               PROVE  Full(d)'
    BY <1>1
  <2>1. Full(d) /\ d \in Name
    BY SizeFits DEF Owned
  <2>2. fiber'[d] # NoFiber
    BY <1>4, <2>1 DEF Full
  <2> QED
    BY <1>4, <2>1, <2>2, FullLasts
<1>13. f.gen <= gen' /\ gen' \in Nat /\ gen \in Nat /\ gen <= gen'
  <2>1. gen' \in Nat /\ gen \in Nat /\ gen <= gen'
    BY <1>4 DEF FibersLast, Bracketed, Mounted
  <2>2. f.gen = IF fiber[c] = NoFiber THEN gen + 1 ELSE fiber[c].gen
    BY <1>2, GotSlots
  <2>3. gen' = IF fiber[c] = NoFiber THEN gen + 1 ELSE gen
    BY <1>1 DEF GenWith
  <2>4. fiber[c] # NoFiber => fiber[c].gen <= gen
    BY <1>2 DEF Accounted
  <2> HIDE DEF f
  <2> QED
    BY <2>1, <2>2, <2>3, <2>4
<1> HIDE DEF g
<1>14. \A k : RenderAt(k)' => stack'[k].gen <= gen'
  <2> SUFFICES ASSUME NEW k, RenderAt(k)'
               PROVE  stack'[k].gen <= gen'
    OBVIOUS
  <2>1. CASE k = last
    BY <1>6, <1>7, <1>13, <2>1
  <2>2. CASE RenderAt(k)
    <3>1. stack'[k].gen = stack[k].gen /\ stack[k].gen <= gen
      BY <1>9, <2>2 DEF Owned, Placed
    <3>2. stack[k].gen \in Nat
      BY <2>2 DEF Bracketed, Stacked, Calls, Entered, RenderAt
    <3> QED
      BY <1>13, <3>1, <3>2
  <2> QED
    BY <1>8, <2>1, <2>2
<1>15. ASSUME NEW k, RenderAt(k)', stack'[k].c \in Regular, Rendering(k)'
       PROVE  Over(k)' \/ Amid(k)'
  <2>1. CASE k = last
    <3> DEFINE n == 0
    <3>1. /\ stack'[k].c = c /\ fiber'[c].cursor = n /\ LastRender(k)' /\ current' = c
      BY <1>1, <1>3, <1>4, <1>6, <1>7, <1>8, <2>1 DEF LastRender, RenderAt
    <3>2. c \in Regular /\ Size(c) \in Nat
      BY <1>15, <3>1, SizeFits
    <3>3. stack'[k].body = body /\ Len(body) \in Nat /\ \A j \in DOMAIN body : n + j = j
      BY <1>5, <1>6, <1>7, <2>1
    <3>4. /\ Len(stack'[k].body) = Len(body) - n /\ n <= Size(c)
          /\ \A j \in DOMAIN stack'[k].body : stack'[k].body[j] = body[n + j]
          /\ \A j \in 1..n : SlotOf(fiber'[c], j).kind = body[j]
      BY <3>2, <3>3
    <3> HIDE DEF n
    <3> QED
      BY <3>1, <3>4, AmidNext
  <2>2. CASE RenderAt(k)
    <3>1. PICK d \in Regular : stack[k].c = d /\ stack'[k].c = d
      BY <1>9, <1>15, <2>2
    <3>2. Rendering(k)
      <4>1. stack[k].gen <= gen /\ stack'[k].c = stack[k].c /\ stack'[k].gen = stack[k].gen
        BY <1>9, <2>2 DEF Owned, Placed
      <4> QED
        BY <1>4, <1>15, <2>2, <4>1, RenderingBefore
    <3>3. Full(d) /\ \A i \in DOMAIN stack'[k].body : stack'[k].body[i] \notin Kind
      BY <1>9, <2>2, <3>1, <3>2 DEF Hookless
    <3>4. fiber'[d] # NoFiber
      BY <1>15, <3>1 DEF Rendering
    <3>5. Full(d)'
      BY <1>4, <3>3, <3>4, FullLasts
    <3>6. Over(k)'
      BY <3>1, <3>3, <3>5 DEF Over, Full, Filled, KindAt
    <3> QED
      BY <3>6
  <2> QED
    BY <1>8, <1>15, <2>1, <2>2
<1>16. \E k : RenderAt(k)' /\ LastRender(k)' /\ stack'[k].c = current' /\ Rendering(k)'
  <2>1. RenderAt(last)' /\ LastRender(last)'
    BY <1>7, <1>8 DEF LastRender, RenderAt
  <2>2. stack'[last].c = current' /\ Rendering(last)'
    BY <1>1, <1>3, <1>4, <1>6, <1>7 DEF Rendering
  <2> QED
    BY <2>1, <2>2
<1>17. Placed'
  BY <1>14, <1>15, <1>16 DEF Placed
<1> QED
  BY <1>10, <1>11, <1>12, <1>17 DEF Owned

LEMMA OwnedRender ==
  ASSUME Bracketed, Bracketed', Accounted, Owned, NEW c \in Comp, Render(c)
  PROVE  Owned'
<1>1. BeginRender(c, <<>>) /\ stack = <<>>
  BY DEF Render
<1>2. Onward(<<>>) /\ Hookless(<<>>) /\ \A k : ~EffectAt(k)
  BY <1>1 DEF Onward, Calls, RunsOf, Hookless, RenderAt, EffectAt
<1> QED
  BY <1>1, <1>2, OwnedBeginRender

LEMMA OwnedRenderChild ==
  ASSUME Bracketed, Bracketed', Accounted, Owned, RenderChild
  PROVE  Owned'
<1>1. At("render") /\ Top.body # <<>> /\ Head(Top.body) \in Comp /\ BeginRender(Head(Top.body), Rest)
  BY DEF RenderChild, Doing
<1>2. Onward(Rest) /\ \A k : ~EffectAt(k)
  BY <1>1, NoEffects, RestFrames
<1>3. Hookless(Rest)
  <2> SUFFICES ASSUME NEW k, RenderAt(k), stack[k].c \in Regular, Rendering(k)
               PROVE  Full(stack[k].c) /\ \A i \in DOMAIN Rest[k].body : Rest[k].body[i] \notin Kind
    BY DEF Hookless
  <2>1. Top = stack[Len(stack)] /\ Top.body \in Seq(Kind \cup Comp)
    BY <1>1, TopRenders, InsideRender
  <2>2. CASE k = Len(stack)
    <3>1. Top.c = stack[k].c /\ Top.c \in Regular /\ Rendering(Len(stack)) /\ Head(Top.body) \notin Kind
      BY <1>1, <2>1, <2>2, HooksAssumption
    <3>2. Full(Top.c) /\ \A i \in DOMAIN Top.body : Top.body[i] \notin Kind
      BY <1>1, <3>1, HooksOver
    <3> DEFINE rest == Top.body
    <3>3. Rest[k].body = Tail(rest) /\ rest \in Seq(Kind \cup Comp) /\ rest # <<>>
      BY <1>1, <2>1, <2>2, RestFrames
    <3>4. \A i \in DOMAIN rest : rest[i] \notin Kind
      BY <3>2
    <3> HIDE DEF rest
    <3>5. \A i \in DOMAIN Tail(rest) : i + 1 \in DOMAIN rest /\ Tail(rest)[i] = rest[i + 1]
      BY <3>3
    <3> QED
      BY <3>1, <3>2, <3>3, <3>4, <3>5
  <2>3. CASE k # Len(stack)
    <3>1. Rest[k] = stack[k]
      BY <1>1, <2>3, RestFrames DEF RenderAt
    <3>2. ~Amid(k)
      BY <1>1, <2>3, TopRenders DEF Amid
    <3>3. Over(k)
      BY <3>2 DEF Owned, Placed
    <3> QED
      BY <3>1, <3>3 DEF Over
  <2> QED
    BY <2>2, <2>3
<1> QED
  BY <1>1, <1>2, <1>3, OwnedBeginRender

LEMMA OwnedEndRender ==
  ASSUME Bracketed, Bracketed', Accounted, Owned, EndRender
  PROVE  Owned'
<1>1. /\ At("render") /\ stack # <<>> /\ Stacked /\ Top.body = <<>>
      /\ \A k : ~EffectAt(k)
  BY InsideRender, NoEffects DEF EndRender
<1>2. CASE current # Nobody /\ fiber[current].expectedHooks \notin {-1, fiber[current].cursor}
  <2>1. Panic(fiber)
    BY <1>2 DEF EndRender
  <2> QED
    BY <2>1, OwnedPanic DEF Bracketed, Mounted
<1>3. CASE ~(current # Nobody /\ fiber[current].expectedHooks \notin {-1, fiber[current].cursor})
  <2>1. /\ fiber' = IF current = Nobody THEN fiber
                    ELSE [fiber EXCEPT ![current].expectedHooks = fiber[current].cursor]
        /\ current' = Nobody /\ stack' = Below /\ UNCHANGED <<gen, handles>>
        /\ rendered' = IF fiber[Top.c] # NoFiber /\ fiber[Top.c].gen = Top.gen
                         THEN rendered \cup {Top.c} ELSE rendered
    BY <1>3 DEF EndRender
  <2>2. \A n \in Name : /\ fiber'[n] = NoFiber <=> fiber[n] = NoFiber
                        /\ fiber[n] # NoFiber =>
                             fiber'[n].slots = fiber[n].slots /\ fiber'[n].gen = fiber[n].gen
    <3>1. CASE current = Nobody
      BY <2>1, <3>1
    <3>2. CASE current # Nobody
      <4>1. current \in Name /\ fiber[current] \in Fiber
        BY <3>2 DEF Bracketed, Mounted, Calm
      <4> DEFINE g == [fiber[current] EXCEPT !.expectedHooks = fiber[current].cursor]
      <4>2. g \in Fiber /\ g.slots = fiber[current].slots /\ g.gen = fiber[current].gen
        BY <4>1 DEF Fiber
      <4>3. fiber' = [fiber EXCEPT ![current] = g]
        BY <2>1, <3>2
      <4> HIDE DEF g
      <4>4. fiber'[current] = g /\ g # NoFiber /\ \A n \in Name \ {current} : fiber'[n] = fiber[n]
        BY <4>1, <4>2, <4>3, NoFiberAssumption DEF Bracketed, Mounted
      <4>5. fiber[current] # NoFiber
        BY <4>1, NoFiberAssumption
      <4> QED
        BY <4>2, <4>4, <4>5
    <3> QED
      BY <3>1, <3>2
  <2>3. FibersLast
    <3>1. gen' \in Nat /\ gen <= gen'
      BY <2>1 DEF Bracketed, Mounted
    <3> QED
      BY <2>2, <3>1 DEF FibersLast, KindAt, SlotOf
  <2>4. /\ \A k : k \in DOMAIN stack' <=> k \in DOMAIN stack /\ k # Len(stack)
        /\ \A k \in DOMAIN stack' : stack'[k] = stack[k]
        /\ Top = stack[Len(stack)]
    BY <1>1, <2>1, LastReturns
  <2>5. Fitting'
    BY <2>1, <2>2, SizeFits DEF Owned, Fitting
  <2>6. Marked'
    BY <1>1, <2>4 DEF Marked, EffectAt
  <2>7. \A k : RenderAt(k)' => RenderAt(k) /\ k # Len(stack) /\ stack'[k] = stack[k]
    BY <2>4 DEF RenderAt
  <2>8. \A k : RenderAt(k)' => stack'[k].gen <= gen'
    BY <2>1, <2>7 DEF Owned, Placed
  <2>9. ASSUME NEW k, RenderAt(k)', stack'[k].c \in Regular, Rendering(k)'
        PROVE  Over(k)'
    <3>1. RenderAt(k) /\ k # Len(stack) /\ stack'[k] = stack[k] /\ stack[k].gen <= gen
      BY <2>7, <2>9 DEF Owned, Placed
    <3>2. Rendering(k)
      BY <2>3, <2>9, <3>1, RenderingBefore
    <3>3. ~Amid(k)
      BY <1>1, <3>1, TopRenders DEF Amid
    <3>4. Over(k)
      BY <2>9, <3>1, <3>2, <3>3 DEF Owned, Placed
    <3>5. PICK c \in Regular : stack[k].c = c /\ stack'[k].c = c
      BY <2>9, <3>1
    <3>6. \A i \in DOMAIN stack'[k].body : stack'[k].body[i] \notin Kind
      BY <3>1, <3>4 DEF Over
    <3> QED
      BY <2>3, <2>9, <3>4, <3>5, <3>6, OverLasts
  <2>10. current' \notin Regular
    BY <2>1, HooksAssumption DEF Regular
  <2>11. Placed'
    BY <2>8, <2>9, <2>10 DEF Placed
  <2>12. ASSUME NEW c \in rendered' \cap Regular
         PROVE  Full(c)'
    <3>1. Full(c)
      <4>1. CASE c \in rendered
        BY <2>12, <4>1 DEF Owned
      <4>2. CASE c \notin rendered
        <5>1. c = Top.c /\ Rendering(Len(stack))
          BY <2>1, <2>4, <2>12, <4>2 DEF Rendering
        <5> QED
          BY <1>1, <2>12, <5>1, HooksOver
      <4> QED
        BY <4>1, <4>2
    <3>2. fiber'[c] # NoFiber
      BY <2>2, <2>12, <3>1, SizeFits DEF Full
    <3> QED
      BY <2>3, <2>12, <3>1, <3>2, FullLasts
  <2> QED
    BY <2>5, <2>6, <2>11, <2>12 DEF Owned
<1> QED
  BY <1>2, <1>3

(***************************************************************************)
(* A hook claims the next slot.                                             *)
(***************************************************************************)

\* The fiber of the claim, with its slot written.
LEMMA ClaimWrites ==
  ASSUME Bracketed, NEW kind \in Kind, Claims(kind), NEW slot \in Slot, Claim(slot), slot.kind = kind
  PROVE  LET f == Got(Claimant)
             g == Stored(Claimed(f), Index(f), slot)
         IN /\ Claimant \in Name /\ f \in Fiber /\ Index(f) = f.cursor + 1 /\ f.cursor \in Nat
            /\ FibersLast /\ fiber'[Claimant] = g /\ g # NoFiber /\ current' = Claimant
            /\ \A m \in Name \ {Claimant} : fiber'[m] = fiber[m]
            /\ g.gen = f.gen /\ g.cursor = f.cursor + 1
            /\ SlotOf(g, f.cursor + 1).kind = kind
            /\ \A i \in Nat : SlotOf(f, i).kind # "" => SlotOf(g, i).kind = SlotOf(f, i).kind
            /\ Len(g.slots) = IF Index(f) > Len(f.slots) THEN Index(f) ELSE Len(f.slots)
<1> DEFINE f == Got(Claimant)
           h == Claimed(f)
           j == Index(f)
           g == Stored(h, j, slot)
<1>1. Claimant \in Name /\ f \in Fiber
  BY FiberGot DEF Claimant, Bracketed, Mounted, Name
<1>2. j = f.cursor + 1 /\ f.cursor \in Nat /\ j \in Nat /\ j # 0
  BY <1>1 DEF Index, Fiber
<1>3. /\ h \in Fiber /\ h.gen = f.gen /\ h.slots = f.slots /\ h.cursor = f.cursor + 1
      /\ \A i : SlotOf(h, i) = SlotOf(f, i)
  <2> HIDE DEF f
  <2>1. h \in Fiber /\ h.gen = f.gen /\ h.slots = f.slots /\ \A i : SlotOf(h, i) = SlotOf(f, i)
    BY <1>1, FiberClaimed, SlotsOfClaimed
  <2>2. h.cursor = f.cursor + 1
    BY <1>1 DEF Claimed, Fiber
  <2> QED
    BY <2>1, <2>2
<1>4. SlotOf(f, j).kind \in {"", kind}
  BY DEF Claims
<1>5. fiber' = [fiber EXCEPT ![Claimant] = g] /\ gen' = GenWith(Claimant) /\ current' = Claimant
  BY DEF Claim
<1>6. f = Got(Claimant)
  OBVIOUS
<1> HIDE DEF f, h, j
<1>7. /\ g \in Fiber /\ g.gen = f.gen /\ g.cursor = f.cursor + 1
      /\ Len(g.slots) = IF j > Len(f.slots) THEN j ELSE Len(f.slots)
  <2>1. h \in Fiber /\ j \in Nat
    BY <1>2, <1>3
  <2>2. /\ Stored(h, j, slot) \in Fiber
        /\ Stored(h, j, slot).gen = h.gen /\ Stored(h, j, slot).cursor = h.cursor
        /\ Len(Stored(h, j, slot).slots) = IF j > Len(h.slots) THEN j ELSE Len(h.slots)
    BY <2>1, SlotWritten
  <2>3. g = Stored(h, j, slot)
    OBVIOUS
  <2> HIDE DEF g
  <2> QED
    BY <1>3, <2>2, <2>3
<1>8. \A i \in Nat : SlotOf(g, i) = IF i = j THEN slot ELSE SlotOf(f, i)
  <2>1. \A i \in Nat : SlotOf(g, i) = IF i = j /\ j # 0 THEN slot ELSE SlotOf(h, i)
    BY <1>2, <1>3, SlotStored
  <2> HIDE DEF g
  <2> QED
    BY <1>2, <1>3, <2>1
<1> HIDE DEF g
<1>9. /\ SlotOf(g, j).kind = kind
      /\ \A i \in Nat : SlotOf(f, i).kind # "" => SlotOf(g, i).kind = SlotOf(f, i).kind
  BY <1>2, <1>4, <1>8
<1>10. /\ FibersLast /\ fiber'[Claimant] = g /\ g # NoFiber
       /\ \A m \in Name \ {Claimant} : fiber'[m] = fiber[m]
  <2>1. g.gen = Got(Claimant).gen
    BY <1>6, <1>7
  <2>2. \A i \in Nat : SlotOf(Got(Claimant), i).kind # "" => SlotOf(g, i).kind = SlotOf(Got(Claimant), i).kind
    BY <1>6, <1>9
  <2> QED
    BY <1>1, <1>5, <1>7, <2>1, <2>2, WrittenLasts
<1>11. /\ Claimant \in Name /\ f \in Fiber /\ j = f.cursor + 1 /\ f.cursor \in Nat
       /\ FibersLast /\ fiber'[Claimant] = g /\ g # NoFiber /\ current' = Claimant
       /\ \A m \in Name \ {Claimant} : fiber'[m] = fiber[m]
       /\ g.gen = f.gen /\ g.cursor = f.cursor + 1
       /\ SlotOf(g, f.cursor + 1).kind = kind
       /\ \A i \in Nat : SlotOf(f, i).kind # "" => SlotOf(g, i).kind = SlotOf(f, i).kind
       /\ Len(g.slots) = IF j > Len(f.slots) THEN j ELSE Len(f.slots)
  BY <1>1, <1>2, <1>5, <1>7, <1>9, <1>10
<1> QED
  BY <1>11 DEF f, g, h, j

\* The calls that a hook of that kind leaves: its render goes on, and an effect's is entered.
Hooked(kind) ==
  /\ \A k : RenderAt(k)' <=> RenderAt(k)
  /\ \A k : RenderAt(k) => stack'[k] = Rest[k]
  /\ \A k : EffectAt(k)' =>
       kind = "effect" /\ stack'[k].id = Claimant /\ stack'[k].idx = Index(Got(Claimant))
  /\ \A h \in handles' : h \in handles \/ (h.id = Claimant /\ h.idx = Index(Got(Claimant)))
  /\ rendered' = rendered

LEMMA OwnedClaim ==
  ASSUME Bracketed, Bracketed', Owned, NEW kind \in Kind, Claims(kind), NEW slot \in Slot, Claim(slot),
         slot.kind = kind, Hooked(kind)
  PROVE  Owned'
<1> DEFINE n == Claimant
           f == Got(n)
           g == Stored(Claimed(f), Index(f), slot)
           i == f.cursor
<1>1. At("render") /\ Top.body # <<>> /\ Head(Top.body) = kind
  BY DEF Claims, Doing
<1>2. /\ n \in Name /\ f \in Fiber /\ Index(f) = i + 1 /\ i \in Nat
      /\ FibersLast /\ fiber'[n] = g /\ g # NoFiber /\ current' = n
      /\ \A m \in Name \ {n} : fiber'[m] = fiber[m]
      /\ g.gen = f.gen /\ g.cursor = i + 1
      /\ SlotOf(g, i + 1).kind = kind
      /\ \A l \in Nat : SlotOf(f, l).kind # "" => SlotOf(g, l).kind = SlotOf(f, l).kind
      /\ Len(g.slots) = IF Index(f) > Len(f.slots) THEN Index(f) ELSE Len(f.slots)
  BY ClaimWrites
<1>3. /\ Onward(Rest) /\ \A k \in DOMAIN stack : k # Len(stack) => Rest[k] = stack[k]
      /\ Rest[Len(stack)].body = Tail(Top.body)
  BY <1>1, RestFrames
<1>4. /\ RenderAt(Len(stack)) /\ LastRender(Len(stack)) /\ Top = stack[Len(stack)]
      /\ \A k : RenderAt(k) /\ LastRender(k) => k = Len(stack)
  BY <1>1, TopRenders
<1>5. n \in Regular => current = n
  BY HooksAssumption DEF Claimant, Regular
<1>6. fiber[n] # NoFiber => f = fiber[n]
  BY DEF Got
<1>7. \A h \in handles' : h \in handles \/ (h.id = n /\ h.idx = i + 1)
  BY <1>2 DEF Hooked
<1>8. \A k : EffectAt(k)' => kind = "effect" /\ stack'[k].id = n /\ stack'[k].idx = i + 1
  BY <1>2 DEF Hooked
<1>9. i = f.cursor
  OBVIOUS
<1> HIDE DEF n, f, g, i
<1>10. ASSUME n \in Regular
       PROVE  /\ f = fiber[n] /\ fiber[n] # NoFiber /\ Top.c = n /\ Rendering(Len(stack)) /\ i + 1 <= Size(n)
              /\ \E body \in Bodies[n] :
                   /\ Filled(n, body, i)
                   /\ Head(Top.body) = body[i + 1]
                   /\ Len(Tail(Top.body)) = Len(body) - (i + 1)
                   /\ \A l \in DOMAIN Tail(Top.body) : Tail(Top.body)[l] = body[(i + 1) + l]
  <2>1. /\ fiber[n] # NoFiber /\ Top.c = n /\ Rendering(Len(stack)) /\ fiber[n].cursor + 1 <= Size(n)
        /\ \E body \in Bodies[n] :
             /\ Filled(n, body, fiber[n].cursor)
             /\ Head(Top.body) = body[fiber[n].cursor + 1]
             /\ Len(Tail(Top.body)) = Len(body) - (fiber[n].cursor + 1)
             /\ \A l \in DOMAIN Tail(Top.body) : Tail(Top.body)[l] = body[(fiber[n].cursor + 1) + l]
    BY <1>1, <1>5, <1>10, ClaimsOwn
  <2>2. f = fiber[n] /\ i = fiber[n].cursor
    BY <1>6, <1>9, <2>1
  <2> QED
    BY <2>1, <2>2
<1>11. Fitting'
  <2>1. n \in Regular => Len(g.slots) <= Size(n)
    <3> SUFFICES ASSUME n \in Regular
                 PROVE  Len(g.slots) <= Size(n)
      OBVIOUS
    <3>1. i + 1 <= Size(n) /\ Len(f.slots) <= Size(n)
      BY <1>10 DEF Owned, Fitting
    <3> QED
      BY <1>2, <3>1
  <2>2. \A d \in Regular : fiber'[d] # NoFiber => Len(fiber'[d].slots) <= Size(d)
    <3> SUFFICES ASSUME NEW d \in Regular, fiber'[d] # NoFiber
                 PROVE  Len(fiber'[d].slots) <= Size(d)
      OBVIOUS
    <3>1. d \in Name
      BY SizeFits
    <3> QED
      BY <1>2, <2>1, <3>1 DEF Owned, Fitting
  <2>3. \A h \in handles' : h.id \in Regular => h.idx <= Size(h.id)
    <3> SUFFICES ASSUME NEW h \in handles', h.id \in Regular
                 PROVE  h.idx <= Size(h.id)
      OBVIOUS
    <3>1. CASE h \in handles
      BY <3>1 DEF Owned, Fitting
    <3>2. CASE h.id = n /\ h.idx = i + 1
      BY <1>10, <3>2
    <3> QED
      BY <1>7, <3>1, <3>2
  <2> QED
    BY <2>2, <2>3 DEF Fitting
<1>12. Marked'
  <2> SUFFICES ASSUME NEW k, EffectAt(k)'
               PROVE  SlotOf(fiber'[stack'[k].id], stack'[k].idx).kind = "effect"
    BY DEF Marked, KindAt
  <2> QED
    BY <1>2, <1>8
<1>13. \A c \in rendered' \cap Regular : Full(c)'
  <2> SUFFICES ASSUME NEW c \in rendered, c \in Regular
               PROVE  Full(c)'
    BY DEF Hooked
  <2>1. Full(c) /\ c \in Name
    BY SizeFits DEF Owned
  <2>2. fiber'[c] # NoFiber
    BY <1>2, <2>1 DEF Full
  <2> QED
    BY <1>2, <2>1, <2>2, FullLasts
<1>14. \A k : RenderAt(k)' => RenderAt(k) /\ stack'[k] = Rest[k] /\ Rest[k].c = stack[k].c /\ Rest[k].gen = stack[k].gen
  BY <1>3 DEF Hooked, Onward
<1>15. \A k : RenderAt(k)' => stack'[k].gen <= gen'
  <2> SUFFICES ASSUME NEW k, RenderAt(k)'
               PROVE  stack'[k].gen <= gen'
    OBVIOUS
  <2>1. RenderAt(k) /\ stack'[k].gen = stack[k].gen /\ stack[k].gen <= gen
    BY <1>14 DEF Owned, Placed
  <2>2. stack[k].gen \in Nat /\ gen \in Nat /\ gen' \in Nat /\ gen <= gen'
    BY <1>2, <2>1 DEF Bracketed, Mounted, Stacked, Calls, Entered, RenderAt, FibersLast
  <2> QED
    BY <2>1, <2>2
<1>16. ASSUME NEW k, RenderAt(k)', stack'[k].c \in Regular, Rendering(k)'
       PROVE  Over(k)' \/ Amid(k)'
  <2>1. RenderAt(k) /\ stack'[k] = Rest[k] /\ stack[k].gen <= gen
    BY <1>14, <1>16 DEF Owned, Placed
  <2>2. stack'[k].c = stack[k].c /\ stack'[k].gen = stack[k].gen
    BY <1>14, <1>16
  <2>3. Rendering(k)
    BY <1>2, <1>16, <2>1, <2>2, RenderingBefore
  <2>4. PICK c \in Regular : stack[k].c = c /\ stack'[k].c = c
    BY <1>16, <2>2
  <2>5. CASE Over(k)
    <3>1. k # Len(stack)
      <4>1. Top.body \in Seq(Kind \cup Comp)
        BY <1>1, InsideRender
      <4>2. Top.body[1] \in Kind /\ 1 \in DOMAIN Top.body
        BY <1>1, <4>1
      <4> QED
        BY <1>4, <2>5, <4>2 DEF Over
    <3>2. stack'[k] = stack[k]
      BY <1>3, <2>1, <3>1 DEF RenderAt
    <3>3. \A l \in DOMAIN stack'[k].body : stack'[k].body[l] \notin Kind
      BY <2>5, <3>2 DEF Over
    <3> QED
      BY <1>2, <1>16, <2>4, <2>5, <3>3, OverLasts
  <2>6. CASE Amid(k)
    <3>1. k = Len(stack) /\ current = c
      BY <1>4, <2>1, <2>4, <2>6 DEF Amid
    <3>2. n = c
      BY <2>4, <3>1, HooksAssumption DEF n, Claimant, Regular
    <3>3. PICK body \in Bodies[c] :
            /\ Filled(c, body, i)
            /\ Head(Top.body) = body[i + 1]
            /\ Len(Tail(Top.body)) = Len(body) - (i + 1)
            /\ \A l \in DOMAIN Tail(Top.body) : Tail(Top.body)[l] = body[(i + 1) + l]
      BY <1>10, <3>2
    <3>4. i + 1 <= Size(c) /\ f = fiber[c] /\ Size(c) \in Nat
      BY <1>10, <3>2, SizeFits
    <3>5. stack'[k].body = Tail(Top.body)
      BY <1>3, <2>1, <3>1
    <3>6. \A l \in 1..(i + 1) : SlotOf(fiber'[c], l).kind = body[l]
      <4> SUFFICES ASSUME NEW l \in 1..(i + 1)
                   PROVE  SlotOf(fiber'[c], l).kind = body[l]
        OBVIOUS
      <4>1. CASE l = i + 1
        BY <1>1, <1>2, <3>2, <3>3, <4>1
      <4>2. CASE l # i + 1
        <5>1. l \in 1..i /\ l \in 1..Size(c) /\ l \in Nat
          <6>1. i \in Nat /\ Size(c) \in Nat /\ i + 1 <= Size(c)
            BY <1>2, <3>4
          <6> QED
            BY <4>2, <6>1
        <5>2. SlotOf(f, l).kind = body[l] /\ body[l] # ""
          BY <3>3, <3>4, <5>1, HooksFirst DEF Filled, KindAt
        <5> QED
          BY <1>2, <3>2, <5>1, <5>2
      <4> QED
        BY <4>1, <4>2
    <3>7. LastRender(k)'
      BY <1>4, <3>1 DEF LastRender, Hooked
    <3> DEFINE m == i + 1
    <3>8. /\ fiber'[c].cursor = m /\ current' = c /\ m <= Size(c)
          /\ \A l \in 1..m : SlotOf(fiber'[c], l).kind = body[l]
          /\ Len(stack'[k].body) = Len(body) - m
          /\ \A l \in DOMAIN stack'[k].body : stack'[k].body[l] = body[m + l]
      BY <1>2, <3>2, <3>3, <3>4, <3>5, <3>6
    <3> HIDE DEF m
    <3> QED
      BY <2>4, <3>7, <3>8, AmidNext
  <2> QED
    BY <2>1, <2>3, <2>4, <2>5, <2>6 DEF Owned, Placed
<1>17. ASSUME current' \in Regular
       PROVE  \E k : RenderAt(k)' /\ LastRender(k)' /\ stack'[k].c = current' /\ Rendering(k)'
  <2>1. n \in Regular /\ current' = n
    BY <1>2, <1>17
  <2>2. PICK k : k = Len(stack)
    OBVIOUS
  <2>3. /\ stack[k].c = n /\ Rendering(k) /\ f = fiber[n]
        /\ RenderAt(k) /\ LastRender(k)
    BY <1>4, <1>10, <2>1, <2>2
  <2>4. RenderAt(k)' /\ LastRender(k)'
    BY <2>3 DEF LastRender, Hooked
  <2>5. stack'[k].c = n /\ stack'[k].gen = stack[k].gen
    BY <1>14, <2>3, <2>4
  <2>6. fiber'[n] # NoFiber /\ fiber'[n].gen = stack[k].gen
    BY <1>2, <2>3 DEF Rendering
  <2> QED
    BY <2>1, <2>4, <2>5, <2>6 DEF Rendering
<1>18. Placed'
  BY <1>15, <1>16, <1>17 DEF Placed
<1> QED
  BY <1>11, <1>12, <1>13, <1>18 DEF Owned

LEMMA OwnedHooks ==
  ASSUME Bracketed, Bracketed', Accounted, Owned, UseState \/ UseMemo \/ UseRef
  PROVE  Owned'
<1> DEFINE f == Got(Claimant)
           j == Index(f)
           slot(kind) == [SlotOf(f, j) EXCEPT !.kind = kind, !.initialized = TRUE]
<1>1. At("render") /\ Top.body # <<>> /\ stack' = Rest /\ rendered' = rendered
  BY DEF UseState, UseMemo, UseRef, Keeps, Claims, Doing, Claim
<1>2. PICK kind \in Kind :
        /\ Claims(kind) /\ Claim(slot(kind))
        /\ handles' = handles \/ handles' = handles \cup {[id |-> Claimant, idx |-> j, gen |-> f.gen]}
  <2>1. {"state", "memo", "ref"} \subseteq Kind
    BY DEF Kind
  <2> QED
    BY <2>1 DEF UseState, UseMemo, UseRef, Keeps
<1>3. slot(kind) \in Slot /\ slot(kind).kind = kind
  <2>1. SlotOf(f, j) \in Slot /\ slot(kind) \in Slot
    BY SlotClaimed
  <2> DEFINE old == SlotOf(f, j)
  <2>2. old \in Slot /\ slot(kind) = [old EXCEPT !.kind = kind, !.initialized = TRUE]
    BY <2>1
  <2> HIDE DEF old, slot
  <2>3. slot(kind).kind = kind
    BY <2>2 DEF Slot
  <2> QED
    BY <2>1, <2>3
<1>4. (\A k : ~EffectAt(k)) /\ Onward(Rest)
  BY <1>1, NoEffects, RestFrames
<1>5. Hooked(kind)
  <2>1. \A k : RenderAt(k)' <=> RenderAt(k)
    BY <1>1, <1>4 DEF RenderAt, Onward
  <2>2. \A k : ~EffectAt(k)'
    BY <1>1, <1>4 DEF EffectAt, Onward
  <2>3. \A h \in handles' : h \in handles \/ (h.id = Claimant /\ h.idx = j)
    <3> HIDE DEF f, j
    <3> QED
      BY <1>2
  <2> QED
    BY <1>1, <2>1, <2>2, <2>3 DEF Hooked
<1> DEFINE new == slot(kind)
<1>6. new \in Slot /\ new.kind = kind /\ Claim(new)
  BY <1>2, <1>3
<1> HIDE DEF new
<1> QED
  BY <1>2, <1>5, <1>6, OwnedClaim

LEMMA OwnedUseEffect ==
  ASSUME Bracketed, Bracketed', Accounted, Owned, NEW d \in Dep, UseEffect(d)
  PROVE  Owned'
<1> DEFINE f == Got(Claimant)
           j == Index(f)
           old == SlotOf(f, j)
           new == [old EXCEPT !.kind = "effect"]
           call == [at |-> "effect", id |-> Claimant, gen |-> f.gen, idx |-> j,
                    deps |-> {d}, old |-> OldCleanup(old)]
<1>1. /\ At("render") /\ Top.body # <<>> /\ Claims("effect") /\ Claim(new)
      /\ stack' = Rest \/ stack' = Append(Rest, call)
      /\ UNCHANGED <<handles, rendered>>
  BY DEF UseEffect, Claims, Doing, Claim
<1>2. "effect" \in Kind
  BY DEF Kind
<1>3. old \in Slot /\ new \in Slot /\ Claimant \in Name /\ j \in Nat /\ f.gen \in Nat
  BY <1>2, SlotClaimed
<1>4. new.kind = "effect" /\ OldCleanup(old) \in Run \cup {NoRun}
  <2> HIDE DEF old
  <2> QED
    BY <1>3 DEF Slot, OldCleanup
<1> HIDE DEF new
<1>5. /\ call.at = "effect" /\ call.id = Claimant /\ call.idx = j /\ Entered(call)
  <2>1. call \in [at: {"effect"}, id: {Claimant}, gen: {f.gen}, idx: {j}, deps: {{d}}, old: {OldCleanup(old)}]
    OBVIOUS
  <2>2. call \in [at: {"effect"}, id: Name, gen: Nat, idx: Nat, deps: SUBSET Dep, old: Run \cup {NoRun}]
    <3> HIDE DEF f, j, old
    <3> QED
      BY <1>3, <1>4
  <2> HIDE DEF call, j
  <2>3. call.at = "effect" /\ call.id = Claimant /\ call.idx = j
    BY <2>1
  <2> QED
    BY <2>2, <2>3 DEF Entered
<1> HIDE DEF call
<1>6. (\A k : ~EffectAt(k)) /\ Onward(Rest)
  BY <1>1, NoEffects, RestFrames
<1>7. /\ \A k : RenderAt(k)' <=> RenderAt(k)
      /\ \A k : RenderAt(k) => stack'[k] = Rest[k]
      /\ \A k : EffectAt(k)' => stack'[k] = call
  <2>1. CASE stack' = Rest
    BY <1>6, <2>1 DEF RenderAt, EffectAt, Onward
  <2>2. CASE stack' = Append(Rest, call)
    <3> DEFINE t == Append(Rest, call)
    <3>1. Calls(Rest) /\ DOMAIN Rest = DOMAIN stack
      BY <1>6 DEF Onward
    <3>2. /\ Len(Rest) \in Nat /\ DOMAIN t = 1..(Len(Rest) + 1)
          /\ \A k \in 1..Len(Rest) : t[k] = Rest[k]
          /\ t[Len(Rest) + 1] = call
      BY <1>5, <3>1, Pushed
    <3>3. stack' = t /\ DOMAIN stack = 1..Len(Rest)
      BY <2>2, <3>1 DEF Calls
    <3> HIDE DEF t
    <3>4. /\ \A k : k \in DOMAIN stack' <=> k \in DOMAIN stack \/ k = Len(Rest) + 1
          /\ Len(Rest) + 1 \notin DOMAIN stack
          /\ \A k \in DOMAIN stack : stack'[k] = Rest[k]
          /\ stack'[Len(Rest) + 1] = call
      BY <3>2, <3>3
    <3> QED
      BY <1>5, <1>6, <3>4 DEF RenderAt, EffectAt, Onward
  <2> QED
    BY <1>1, <2>1, <2>2
<1>8. Hooked("effect")
  <2>1. \A k : EffectAt(k)' => stack'[k].id = Claimant /\ stack'[k].idx = j
    BY <1>5, <1>7
  <2> QED
    BY <1>1, <1>7, <2>1 DEF Hooked
<1> QED
  BY <1>1, <1>2, <1>3, <1>4, <1>8, OwnedClaim

LEMMA OwnedInit == Init => Owned
<1> SUFFICES ASSUME Init
             PROVE  Owned
  OBVIOUS
<1>1. /\ fiber = [n \in Name |-> NoFiber] /\ stack = <<>> /\ current = Nobody
      /\ handles = {} /\ rendered = {}
  BY DEF Init
<1>2. (\A k : ~RenderAt(k)) /\ (\A k : ~EffectAt(k)) /\ current \notin Regular
  BY <1>1, HooksAssumption DEF RenderAt, EffectAt, Regular
<1>3. \A c \in Regular : fiber[c] = NoFiber
  BY <1>1, SizeFits
<1> QED
  BY <1>1, <1>2, <1>3 DEF Owned, Fitting, Placed, Marked

LEMMA OwnedNext == Bracketed /\ Accounted /\ Owned /\ [Next]_vars => Owned'
<1> SUFFICES ASSUME Bracketed, Accounted, Owned, [Next]_vars
             PROVE  Owned'
  OBVIOUS
<1>0. Bracketed'
  BY BracketedNext
<1>1. CASE RenderStep
  BY <1>0, <1>1, OwnedRender DEF RenderStep
<1>2. CASE RenderChild
  BY <1>0, <1>2, OwnedRenderChild
<1>3. CASE EndRender
  BY <1>0, <1>3, OwnedEndRender
<1>4. CASE HookStep
  <2>1. CASE UseState \/ UseMemo \/ UseRef
    BY <1>0, <2>1, OwnedHooks
  <2>2. CASE KindChanged
    BY <1>0, <2>2, OwnedKindChanged
  <2>3. ASSUME NEW d \in Dep, UseEffect(d)
        PROVE  Owned'
    BY <1>0, <2>3, OwnedUseEffect
  <2>4. ASSUME NEW r \in Run, EffectReturns(r)
        PROVE  Owned'
    BY <1>0, <2>4, OwnedEffectReturns
  <2> QED
    BY <1>4, <2>1, <2>2, <2>3, <2>4 DEF HookStep
<1>5. CASE CodeStep
  BY <1>0, <1>5, OwnedSetState, OwnedUnmount, OwnedCodePanics DEF CodeStep
<1>6. CASE RunCleanup \/ UnmountReturns
  BY <1>0, <1>6, OwnedCleanups
<1>7. CASE UNCHANGED vars
  <2>1. FibersLast /\ NothingClaimed
    BY <1>7, FibersStay DEF vars
  <2>2. SameRenders /\ \A k : EffectAt(k)' => EffectAt(k) /\ stack'[k] = stack[k]
    BY <1>7 DEF vars, SameRenders, RenderAt, EffectAt
  <2> QED
    BY <1>0, <2>1, <2>2, OwnedLasts
<1> QED
  BY <1>1, <1>2, <1>3, <1>4, <1>5, <1>6, <1>7 DEF Next

(***************************************************************************)
(* The hooks of a component that keeps the rules are what its body begins   *)
(* with.                                                                    *)
(***************************************************************************)
LEMMA HooksOfRegular ==
  ASSUME NEW c \in Regular, NEW body \in Bodies[c]
  PROVE  HooksOf(body) = [i \in 1..Size(c) |-> body[i]]
<1> DEFINE n == Size(c)
           places == {i \in DOMAIN body : body[i] \in Kind}
           nth(m) == CHOOSE i \in places : Cardinality({j \in places : j <= i}) = m
<1>1. n \in Nat /\ Begins(body, n) /\ body \in Seq(Kind \cup Comp)
  BY SizeFits
<1> HIDE DEF n
<1>2. places = 1..n
  BY <1>1 DEF Begins
<1>3. \A m \in 1..n : {j \in places : j <= m} = 1..m
  BY <1>1, <1>2
<1>4. \A m \in 0..n : Cardinality(1..m) = m
  <2> SUFFICES ASSUME NEW m \in 0..n
               PROVE  Cardinality(1..m) = m
    OBVIOUS
  <2>1. m \in Int /\ 1 \in Int /\ m >= 0
    BY <1>1
  <2>2. Cardinality(1..m) = IF 1 > m THEN 0 ELSE m - 1 + 1
    BY <2>1, FS_Interval
  <2> QED
    BY <2>1, <2>2
<1>5. Cardinality(places) = n
  <2>1. n \in 0..n
    BY <1>1
  <2> HIDE DEF places
  <2> QED
    BY <1>2, <1>4, <2>1
<1>6. \A m \in 1..n : nth(m) = m
  <2> SUFFICES ASSUME NEW m \in 1..n
               PROVE  nth(m) = m
    OBVIOUS
  <2>1. ASSUME NEW i \in places
        PROVE  Cardinality({j \in places : j <= i}) = i
    <3>1. i \in 1..n /\ i \in 0..n
      BY <1>1, <1>2
    <3>2. {j \in places : j <= i} = 1..i
      BY <1>3, <3>1
    <3> HIDE DEF places
    <3> QED
      BY <1>4, <3>1, <3>2
  <2> HIDE DEF places
  <2> QED
    BY <1>2, <2>1
<1>7. HooksOf(body) = [m \in 1..Cardinality(places) |-> body[nth(m)]]
  BY DEF HooksOf
<1> HIDE DEF places, nth
<1> QED
  BY <1>5, <1>6, <1>7 DEF n

LEMMA FullHooks ==
  ASSUME Bracketed, Fitting, NEW c \in Regular, Full(c)
  PROVE  \E body \in Bodies[c] : KindsOf(fiber[c]) = HooksOf(body)
<1>1. PICK body \in Bodies[c] : Filled(c, body, Size(c))
  BY DEF Full
<1>2. /\ c \in Name /\ Size(c) \in Nat /\ fiber[c] # NoFiber /\ fiber[c] \in Fiber
      /\ Len(fiber[c].slots) <= Size(c)
  BY SizeFits DEF Full, Bracketed, Mounted, Fitting
<1> DEFINE s == fiber[c].slots
           n == Size(c)
<1>3. s \in Seq(Slot)
  BY <1>2 DEF Fiber
<1>4. \A i \in 1..n : i \in DOMAIN s /\ s[i].kind = body[i]
  <2> SUFFICES ASSUME NEW i \in 1..n
               PROVE  i \in DOMAIN s /\ s[i].kind = body[i]
    OBVIOUS
  <2>1. KindAt(c, i) = body[i] /\ body[i] # ""
    BY <1>1, HooksFirst DEF Filled
  <2>2. EmptySlot.kind = ""
    BY DEF EmptySlot
  <2> QED
    BY <2>1, <2>2 DEF KindAt, SlotOf
<1>5. n \in Nat /\ Len(s) <= n
  BY <1>2
<1> HIDE DEF s, n
<1>6. DOMAIN s = 1..n
  <2>1. DOMAIN s = 1..Len(s) /\ Len(s) \in Nat
    BY <1>3
  <2>2. n <= Len(s)
    <3> SUFFICES ASSUME n > 0
                 PROVE  n <= Len(s)
      BY <1>5, <2>1
    <3> QED
      BY <1>4, <1>5, <2>1
  <2> QED
    BY <1>5, <2>1, <2>2
<1>7. KindsOf(fiber[c]) = [i \in 1..n |-> body[i]]
  BY <1>4, <1>6 DEF KindsOf, s
<1> QED
  BY <1>7, HooksOfRegular DEF n

(***************************************************************************)
(* What other components do, a component that keeps the rules of hooks has  *)
(* the slots of its own hooks when its render has ended, in their order,    *)
(* and no other (EndRender, claimSlot).                                     *)
(***************************************************************************)
THEOREM RegularOwnsSlots ==
  Spec => [](stack = <<>> =>
               \A c \in rendered \cap Regular : \E body \in Bodies[c] : KindsOf(fiber[c]) = HooksOf(body))
<1> DEFINE Inv == stack = <<>> =>
                    \A c \in rendered \cap Regular : \E body \in Bodies[c] : KindsOf(fiber[c]) = HooksOf(body)
<1>1. Init => Bracketed /\ Accounted /\ Owned
  BY BracketedInit, AccountedInit, OwnedInit
<1>2. Bracketed /\ Accounted /\ Owned /\ [Next]_vars => Bracketed' /\ Accounted' /\ Owned'
  BY BracketedNext, AccountedNext, OwnedNext
<1>3. Bracketed /\ Owned => Inv
  BY FullHooks DEF Owned
<1> HIDE DEF Inv
<1>4. Spec => []Inv
  BY <1>1, <1>2, <1>3, PTL DEF Spec
<1> QED
  BY <1>4 DEF Inv

ComponentsRendered == rendered \subseteq Comp

LEMMA OnlyComponents == Bracketed /\ ComponentsRendered /\ [Next]_vars => ComponentsRendered'
<1> SUFFICES ASSUME Bracketed, rendered \subseteq Comp, [Next]_vars
             PROVE  rendered' \subseteq Comp
  BY DEF ComponentsRendered
<1>1. CASE EndRender
  <2>1. Top.c \in Comp
    BY <1>1, InsideRender DEF EndRender
  <2> QED
    BY <1>1, <2>1 DEF EndRender, Panic
<1>2. CASE RenderStep \/ RenderChild
  BY <1>2 DEF RenderStep, Render, RenderChild, BeginRender
<1>3. CASE HookStep
  BY <1>3 DEF HookStep, UseState, UseMemo, UseRef, Keeps, KindChanged, UseEffect, EffectReturns, Claim, Panic
<1>4. CASE CodeStep
  BY <1>4 DEF CodeStep, SetState, Unmount, CodePanics, Panic
<1>5. CASE RunCleanup \/ UnmountReturns \/ UNCHANGED vars
  BY <1>5 DEF RunCleanup, UnmountReturns, vars
<1> QED
  BY <1>1, <1>2, <1>3, <1>4, <1>5 DEF Next

(***************************************************************************)
(* If all components keep the rules of hooks, each has its own slots,       *)
(* OwnSlots (EndRender, claimSlot).                                         *)
(***************************************************************************)
THEOREM AlwaysOwnSlots ==
  ASSUME Regular = Comp
  PROVE  Spec => []OwnSlots
<1>1. Init => Bracketed /\ Accounted /\ Owned /\ ComponentsRendered
  BY BracketedInit, AccountedInit, OwnedInit DEF Init, ComponentsRendered
<1>2. Bracketed /\ Accounted /\ Owned /\ ComponentsRendered /\ [Next]_vars =>
        Bracketed' /\ Accounted' /\ Owned' /\ ComponentsRendered'
  BY BracketedNext, AccountedNext, OwnedNext, OnlyComponents
<1>3. Bracketed /\ Owned /\ ComponentsRendered => OwnSlots
  BY FullHooks DEF Owned, OwnSlots, ComponentsRendered
<1> QED
  BY <1>1, <1>2, <1>3, PTL DEF Spec

-----------------------------------------------------------------------------
(***************************************************************************)
(* Who is current.  A step either begins a render, whose fiber it makes     *)
(* current, or leaves the renders as they are and makes no other component  *)
(* current.                                                                 *)
(***************************************************************************)
Scoped == current \in Comp => \E k : RenderAt(k) /\ LastRender(k) /\ stack[k].c = current

SameNames ==
  /\ \A k : RenderAt(k)' <=> RenderAt(k)
  /\ \A k : RenderAt(k) => stack'[k].c = stack[k].c

LEMMA ScopedLasts ==
  ASSUME Scoped, SameNames, current' \in {current, Nobody, Default}
  PROVE  Scoped'
<1> SUFFICES ASSUME current' \in Comp
             PROVE  \E k : RenderAt(k)' /\ LastRender(k)' /\ stack'[k].c = current'
  BY DEF Scoped
<1>1. current' = current /\ current \in Comp
  BY HooksAssumption
<1>2. PICK k : RenderAt(k) /\ LastRender(k) /\ stack[k].c = current
  BY <1>1 DEF Scoped
<1>3. RenderAt(k)' /\ stack'[k].c = current'
  BY <1>1, <1>2 DEF SameNames
<1>4. LastRender(k)'
  BY <1>2 DEF SameNames, LastRender
<1> QED
  BY <1>3, <1>4

LEMMA ScopedBegins ==
  ASSUME NEW c \in Comp, NEW under, Calls(under), BeginRender(c, under), Bracketed
  PROVE  Scoped'
<1>1. PICK body \in Bodies[c] :
        /\ current' = c
        /\ stack' = Append(under, [at |-> "render", c |-> c, gen |-> Got(c).gen, body |-> body])
  BY DEF BeginRender
<1> DEFINE f == [at |-> "render", c |-> c, gen |-> Got(c).gen, body |-> body]
           n == Len(under) + 1
<1>2. f \in [at: {"render"}, c: Comp, gen: Nat, body: Seq(Kind \cup Comp)] /\ f.at = "render" /\ f.c = c
  <2>1. Got(c).gen \in Nat
    BY FiberGot DEF Bracketed, Name, Fiber
  <2>2. body \in Seq(Kind \cup Comp)
    BY <1>1, HooksAssumption
  <2> QED
    BY <2>1, <2>2
<1>3. stack' = Append(under, f)
  BY <1>1
<1> HIDE DEF f
<1>4. Entered(f)
  BY <1>2 DEF Entered
<1>5. n \in Nat /\ DOMAIN stack' = 1..n /\ stack'[n] = f
  BY <1>3, <1>4, Pushed
<1> HIDE DEF n
<1>6. n \in DOMAIN stack' /\ \A k \in DOMAIN stack' : k <= n
  <2>1. n # 0
    BY <1>3, <1>4, Pushed DEF n
  <2> QED
    BY <1>5, <2>1
<1>7. RenderAt(n)' /\ LastRender(n)' /\ stack'[n].c = current'
  BY <1>1, <1>2, <1>5, <1>6 DEF RenderAt, LastRender
<1> QED
  BY <1>7 DEF Scoped

LEMMA ScopedPanic ==
  ASSUME Bracketed, Scoped, NEW fs, Panic(fs)
  PROVE  Scoped'
<1>1. Unwound(fs)
  BY DEF Panic
<1>2. CASE Frames("render") = {}
  <2>1. current \notin Comp
    BY <1>2 DEF Scoped, RenderAt, Frames
  <2> QED
    BY <1>1, <1>2, <2>1 DEF Unwound, Scoped
<1>3. CASE Frames("render") # {}
  <2>1. current' = Nobody
    BY <1>1, <1>3 DEF Unwound
  <2> QED
    BY <2>1, HooksAssumption DEF Scoped
<1> QED
  BY <1>2, <1>3

\* A hook goes on in its render, and may enter an effect.
LEMMA ScopedHooks ==
  ASSUME Bracketed, Scoped, Claims("state") \/ Claims("memo") \/ Claims("ref") \/ Claims("effect"),
         current' = Claimant,
         stack' = Rest \/ \E f : f.at = "effect" /\ Entered(f) /\ stack' = Append(Rest, f)
  PROVE  Scoped'
<1>1. At("render") /\ Top.body # <<>>
  BY DEF Claims, Doing
<1>2. Onward(Rest)
  BY <1>1, RestFrames
<1>3. SameNames
  <2>1. CASE stack' = Rest
    BY <1>2, <2>1 DEF SameNames, RenderAt, Onward
  <2>2. CASE stack' # Rest
    <3>1. PICK f : f.at = "effect" /\ Entered(f) /\ stack' = Append(Rest, f)
      BY <2>2
    <3>2. Calls(Rest) /\ DOMAIN Rest = DOMAIN stack
      BY <1>2 DEF Onward
    <3>3. /\ Len(Rest) \in Nat /\ DOMAIN stack' = 1..(Len(Rest) + 1)
          /\ \A k \in 1..Len(Rest) : stack'[k] = Rest[k]
          /\ stack'[Len(Rest) + 1] = f
      BY <3>1, <3>2, Pushed
    <3>4. DOMAIN stack = 1..Len(Rest)
      BY <3>2 DEF Calls
    <3>5. /\ \A k : k \in DOMAIN stack' <=> k \in DOMAIN stack \/ k = Len(Rest) + 1
          /\ Len(Rest) + 1 \notin DOMAIN stack
          /\ \A k \in DOMAIN stack : stack'[k] = Rest[k]
      BY <3>3, <3>4
    <3> QED
      BY <1>2, <3>1, <3>3, <3>5 DEF SameNames, RenderAt, Onward
  <2> QED
    BY <2>1, <2>2
<1>4. current' \in {current, Nobody, Default}
  BY DEF Claimant
<1> QED
  BY <1>3, <1>4, ScopedLasts

LEMMA ScopedUseEffect ==
  ASSUME Bracketed, Scoped, NEW d \in Dep, UseEffect(d)
  PROVE  Scoped'
<1> DEFINE f == Got(Claimant)
           j == Index(f)
           old == SlotOf(f, j)
           call == [at |-> "effect", id |-> Claimant, gen |-> f.gen, idx |-> j,
                    deps |-> {d}, old |-> OldCleanup(old)]
<1>1. Claims("effect") /\ current' = Claimant /\ (stack' = Rest \/ stack' = Append(Rest, call))
  BY DEF UseEffect, Claim
<1>2. old \in Slot /\ Claimant \in Name /\ j \in Nat /\ f.gen \in Nat
  <2>1. "effect" \in Kind
    BY DEF Kind
  <2> QED
    BY <2>1, SlotClaimed
<1>3. OldCleanup(old) \in Run \cup {NoRun}
  <2> HIDE DEF old
  <2> QED
    BY <1>2 DEF Slot, OldCleanup
<1>4. call.at = "effect" /\ Entered(call)
  <2>1. call \in [at: {"effect"}, id: Name, gen: Nat, idx: Nat, deps: SUBSET Dep, old: Run \cup {NoRun}]
    <3> HIDE DEF f, j, old
    <3> QED
      BY <1>2, <1>3
  <2> HIDE DEF call
  <2> QED
    BY <2>1 DEF Entered
<1> HIDE DEF call
<1> QED
  BY <1>1, <1>4, ScopedHooks

\* A call that is no render is entered, goes on or returns.
LEMMA ScopedCode ==
  ASSUME Bracketed, Scoped,
         (\E h \in handles : SetState(h)) \/ (\E n \in Name : Unmount(n)) \/ RunCleanup \/ UnmountReturns
           \/ (\E r \in Run : EffectReturns(r))
  PROVE  Scoped'
<1>1. current' \in {current, Nobody, Default}
  BY DEF SetState, Unmount, CurrentWithout, RunCleanup, UnmountReturns, EffectReturns
<1>2. CASE UNCHANGED stack
  BY <1>1, <1>2, ScopedLasts DEF SameNames, RenderAt
<1>3. CASE \E n \in Name : Unmount(n)
  <2>1. PICK call : call.at = "unmount" /\ Entered(call) /\ stack' = Append(stack, call)
    BY <1>3 DEF Unmount, Entered
  <2>2. /\ Len(stack) \in Nat /\ DOMAIN stack' = 1..(Len(stack) + 1)
        /\ \A i \in 1..Len(stack) : stack'[i] = stack[i]
        /\ stack'[Len(stack) + 1] = call /\ DOMAIN stack = 1..Len(stack)
    BY <2>1, Pushed DEF Bracketed, Stacked, Calls
  <2>3. /\ \A k : k \in DOMAIN stack' <=> k \in DOMAIN stack \/ k = Len(stack) + 1
        /\ Len(stack) + 1 \notin DOMAIN stack /\ \A k \in DOMAIN stack : stack'[k] = stack[k]
    BY <2>2
  <2>4. SameNames
    BY <2>1, <2>2, <2>3 DEF SameNames, RenderAt
  <2> QED
    BY <1>1, <2>4, ScopedLasts
<1>4. CASE UnmountReturns \/ \E r \in Run : EffectReturns(r)
  <2>1. stack # <<>> /\ Stacked /\ stack' = Below /\ Top.at # "render"
    <3>1. CASE UnmountReturns
      BY <3>1 DEF UnmountReturns, At, Bracketed
    <3>2. CASE \E r \in Run : EffectReturns(r)
      BY <3>2, InsideEffect DEF EffectReturns, At
    <3> QED
      BY <1>4, <3>1, <3>2
  <2>2. /\ \A k : k \in DOMAIN stack' <=> k \in DOMAIN stack /\ k # Len(stack)
        /\ \A k \in DOMAIN stack' : stack'[k] = stack[k]
        /\ Top = stack[Len(stack)]
    BY <2>1, LastReturns
  <2>3. SameNames
    BY <2>1, <2>2 DEF SameNames, RenderAt
  <2> QED
    BY <1>1, <2>3, ScopedLasts
<1>5. CASE RunCleanup
  <2>1. stack # <<>> /\ Stacked /\ Top.at = "unmount"
    BY <1>5 DEF RunCleanup, At, Bracketed
  <2>2. PICK i \in DOMAIN Top.todo : stack' = Append(Below, [Top EXCEPT !.todo = Left(@, i), !.ran = TRUE])
    BY <1>5 DEF RunCleanup
  <2> DEFINE call == [Top EXCEPT !.todo = Left(@, i), !.ran = TRUE]
  <2>3. Top \in [at: {"unmount"}, todo: {Top.todo}, ran: BOOLEAN]
    BY <2>1, LastCall DEF Entered
  <2>4. call \in [at: {"unmount"}, todo: {Left(Top.todo, i)}, ran: BOOLEAN]
    BY <2>3
  <2>5. call.at = "unmount" /\ call.todo = Left(Top.todo, i) /\ stack' = Append(Below, call)
    BY <2>2, <2>4
  <2> HIDE DEF call
  <2>6. Entered(call)
    BY <2>4, <2>5 DEF Entered
  <2>7. /\ DOMAIN stack' = DOMAIN stack
        /\ \A k \in DOMAIN stack : stack'[k].at = stack[k].at
    BY <2>1, <2>5, <2>6, GoesOn
  <2>8. /\ Calls(Below) /\ DOMAIN stack = 1..Len(stack)
        /\ Len(stack) \in Nat \ {0} /\ Len(Below) = Len(stack) - 1
        /\ \A k \in 1..(Len(stack) - 1) : Below[k] = stack[k]
        /\ Top = stack[Len(stack)]
    BY <2>1, LastCall
  <2>9. \A k \in 1..Len(Below) : stack'[k] = Below[k]
    BY <2>5, <2>6, <2>8, Pushed
  <2> DEFINE n == Len(stack)
  <2>10. /\ n \in Nat \ {0} /\ DOMAIN stack = 1..n /\ stack[n] = Top
         /\ \A k \in 1..(n - 1) : stack'[k] = stack[k]
    BY <2>8, <2>9
  <2> HIDE DEF n
  <2>11. \A k \in DOMAIN stack : k = n \/ stack'[k] = stack[k]
    BY <2>10
  <2>12. SameNames
    BY <2>1, <2>7, <2>10, <2>11 DEF SameNames, RenderAt
  <2> QED
    BY <1>1, <2>12, ScopedLasts
<1> QED
  BY <1>2, <1>3, <1>4, <1>5 DEF SetState

LEMMA ScopedNext == Bracketed /\ Scoped /\ [Next]_vars => Scoped'
<1> SUFFICES ASSUME Bracketed, Scoped, [Next]_vars
             PROVE  Scoped'
  OBVIOUS
<1>1. CASE RenderStep
  <2>1. Calls(<<>>)
    BY DEF Calls, RunsOf
  <2> QED
    BY <1>1, <2>1, ScopedBegins DEF RenderStep, Render
<1>2. CASE RenderChild
  <2>1. At("render") /\ Top.body # <<>> /\ Head(Top.body) \in Comp /\ BeginRender(Head(Top.body), Rest)
    BY <1>2 DEF RenderChild, Doing
  <2>2. Calls(Rest)
    BY <2>1, RestOf
  <2> QED
    BY <2>1, <2>2, ScopedBegins
<1>3. CASE EndRender
  <2>1. CASE Panic(fiber)
    BY <2>1, ScopedPanic
  <2>2. CASE ~Panic(fiber)
    BY <1>3, <2>2, HooksAssumption DEF EndRender, Scoped
  <2> QED
    BY <2>1, <2>2
<1>4. CASE HookStep
  <2>1. CASE UseState \/ UseMemo \/ UseRef
    BY <2>1, ScopedHooks DEF UseState, UseMemo, UseRef, Keeps, Claim
  <2>2. CASE KindChanged
    BY <2>2, ScopedPanic DEF KindChanged
  <2> QED
    BY <1>4, <2>1, <2>2, ScopedUseEffect, ScopedCode DEF HookStep
<1>5. CASE CodeStep
  BY <1>5, ScopedCode, ScopedPanic DEF CodeStep, CodePanics
<1>6. CASE RunCleanup \/ UnmountReturns
  BY <1>6, ScopedCode
<1>7. CASE UNCHANGED vars
  BY <1>7, ScopedLasts DEF vars, SameNames, RenderAt
<1> QED
  BY <1>1, <1>2, <1>3, <1>4, <1>5, <1>6, <1>7 DEF Next

(***************************************************************************)
(* No hook claims a slot of another component, or of an unmounted one, but  *)
(* the default fiber's: the current fiber is mounted and is the innermost   *)
(* render's, or the default one, and when nothing runs none is, whatever    *)
(* effects, cleanups and panics do in the depth of a render (BeginRender,   *)
(* EndRender, claimSlot, Unmount).                                          *)
(***************************************************************************)
THEOREM AlwaysCurrent == Spec => []CurrentExact
<1>1. Init => Bracketed /\ Scoped
  BY BracketedInit, HooksAssumption DEF Init, Scoped
<1>2. Bracketed /\ Scoped /\ [Next]_vars => Bracketed' /\ Scoped'
  BY BracketedNext, ScopedNext
<1>3. Bracketed /\ Scoped => CurrentExact
  BY DEF Bracketed, Calm, Scoped, CurrentExact, InRender, RenderAt, LastRender
<1> QED
  BY <1>1, <1>2, <1>3, PTL DEF Spec

=============================================================================
