------------------------------- MODULE Hooks -------------------------------
(***************************************************************************)
(* pkg/hooks: the fibers of components, on the browser's event loop.        *)
(* `stack' holds what has been entered and not left: renders (ui.Component  *)
(* brackets them by BeginRender and a deferred EndRender), calls of         *)
(* UseEffect and Unmount.  Effect functions, cleanups and event handlers    *)
(* may set states, unmount any component, and panic.                        *)
(***************************************************************************)
EXTENDS Integers, Sequences, FiniteSets

CONSTANTS
  Comp,        \* component names, which are fiber ids
  Default,     \* "default"
  Bodies,      \* what a component's render may do: sequences of hooks and children
  Dep,         \* dependency lists
  Run, NoRun,  \* runs of effect functions, each with its cleanup
  NoFiber, Nobody,
  MaxRenders, MaxCalls   \* bounds: renders at top level; setter and Unmount calls

Kind == {"state", "effect", "memo", "ref"}   \* a reducer is a state, a callback a memo

ASSUME HooksAssumption ==
  /\ Default \notin Comp /\ Nobody \notin Comp \cup {Default} /\ NoRun \notin Run
  /\ \A c \in Comp : Bodies[c] \subseteq Seq(Kind \cup Comp)
  /\ Comp \cap Kind = {}

VARIABLES
  fiber,     \* runtimeState.fibers
  current,   \* runtimeState.current, always a fiber of the map
  stack, gen, renders, calls,
  handles,   \* the State values handed out
  rendered,  \* history: components whose last render ended, and that are mounted
  begun, cleaned,   \* history: effect runs that returned a cleanup, calls of each cleanup
  excused    \* history: runs that a panic or Unmount met inside a call of UseEffect or Unmount

vars == <<fiber, current, stack, gen, renders, calls, handles, rendered, begun, cleaned, excused>>
runs == <<begun, cleaned, excused>>

Name == Comp \cup {Default}
Slot == [kind: Kind \cup {""}, initialized: BOOLEAN, value: Nat, deps: SUBSET Dep, cleanup: Run \cup {NoRun}]
Handle == [id: Name, idx: Nat, gen: Nat]   \* State.fiberID and idx; the mount it comes from
Fiber == [gen: Nat, cursor: Nat, expectedHooks: Nat \cup {-1}, slots: Seq(Slot)]

ASSUME NoFiberAssumption == NoFiber \notin Fiber

EmptySlot == [kind |-> "", initialized |-> FALSE, value |-> 0, deps |-> {}, cleanup |-> NoRun]

Init ==
  /\ fiber = [n \in Name |-> NoFiber]
  /\ current = Nobody /\ stack = <<>>
  /\ gen = 0 /\ renders = 0 /\ calls = 0
  /\ handles = {} /\ rendered = {} /\ begun = {} /\ excused = {}
  /\ cleaned = [r \in Run |-> 0]

Top == stack[Len(stack)]
Below == SubSeq(stack, 1, Len(stack) - 1)
At(kind) == stack # <<>> /\ Top.at = kind
RunsOf(seq) == {seq[i] : i \in DOMAIN seq}
Frames(kind) == {stack[i] : i \in {j \in DOMAIN stack : stack[j].at = kind}}

\* getFiberLocked: the fiber of that name, made if there is none.
Got(n) == IF fiber[n] = NoFiber
            THEN [gen |-> gen + 1, cursor |-> 0, expectedHooks |-> -1, slots |-> <<>>]
            ELSE fiber[n]
GenWith(n) == IF fiber[n] = NoFiber THEN gen + 1 ELSE gen

SlotOf(f, i) == IF i \in DOMAIN f.slots THEN f.slots[i] ELSE EmptySlot
Stored(f, i, slot) ==
  [f EXCEPT !.slots = [j \in 1..(IF i > Len(@) THEN i ELSE Len(@)) |-> IF j = i THEN slot ELSE SlotOf(f, j)]]

(***************************************************************************)
(* Rendering: from the top, or a child from its parent's render function.   *)
(***************************************************************************)
\* Wrong: the slots are counted on from the last render (OwnSlots).
NotRewound(f) == f

Rewound(f) == [f EXCEPT !.cursor = 0]

BeginRender(c, under) ==
  \E body \in Bodies[c] :
    /\ fiber' = [fiber EXCEPT ![c] = Rewound(Got(c))]
    /\ gen' = GenWith(c)
    /\ current' = c
    /\ stack' = Append(under, [at |-> "render", c |-> c, gen |-> Got(c).gen, body |-> body])
    /\ rendered' = rendered \ {c}
    /\ UNCHANGED <<calls, handles, runs>>

Render(c) ==
  /\ stack = <<>> /\ renders < MaxRenders
  /\ renders' = renders + 1
  /\ BeginRender(c, <<>>)

Rest == Append(Below, [Top EXCEPT !.body = Tail(@)])
Doing(kinds) == At("render") /\ Top.body # <<>> /\ Head(Top.body) \in kinds

RenderChild ==
  /\ Doing(Comp)
  /\ BeginRender(Head(Top.body), Rest)
  /\ UNCHANGED renders

\* A panic leaves every call; the innermost deferred EndRender finds a current
\* fiber and counts its hooks, the outer ones find none.
Counted(f) == IF f.expectedHooks >= 0 THEN f ELSE [f EXCEPT !.expectedHooks = f.cursor]
\* Wrong: a panic skips EndRender (CurrentExact).
UnwoundNobodyEnds(fs) == fiber' = fs /\ UNCHANGED current

Unwound(fs) ==
  IF Frames("render") = {} \/ current = Nobody
    THEN fiber' = fs /\ UNCHANGED current
    ELSE fiber' = [fs EXCEPT ![current] = Counted(@)] /\ current' = Nobody

Panic(fs) ==
  /\ Unwound(fs)
  /\ stack' = <<>>
  /\ excused' = excused \cup {f.old : f \in Frames("effect")} \cup UNION {RunsOf(f.todo) : f \in Frames("unmount")}
  /\ UNCHANGED <<renders, calls, handles, rendered, begun, cleaned>>

EndRender ==
  /\ At("render") /\ Top.body = <<>>
  /\ LET f == fiber[current]
         ends == fiber[Top.c] # NoFiber /\ fiber[Top.c].gen = Top.gen
     IN IF current # Nobody /\ f.expectedHooks \notin {-1, f.cursor}
          THEN UNCHANGED gen /\ Panic(fiber)
          ELSE /\ fiber' = IF current = Nobody THEN fiber ELSE [fiber EXCEPT ![current].expectedHooks = f.cursor]
               /\ current' = Nobody
               /\ stack' = Below
               /\ rendered' = IF ends THEN rendered \cup {Top.c} ELSE rendered
               /\ UNCHANGED <<gen, renders, calls, handles, runs>>

(***************************************************************************)
(* claimSlot, by the fiber that is current; with none, by the default one.  *)
(***************************************************************************)
Claimant == IF current = Nobody THEN Default ELSE current
Index(f) == f.cursor + 1
Claimed(f) == [f EXCEPT !.cursor = @ + 1]

Claims(kind) ==
  /\ Doing({kind})
  /\ SlotOf(Got(Claimant), Index(Got(Claimant))).kind \in {"", kind}

KindChanged ==
  /\ Doing(Kind)
  /\ SlotOf(Got(Claimant), Index(Got(Claimant))).kind \notin {"", Head(Top.body)}
  /\ Panic([fiber EXCEPT ![Claimant] = Claimed(@)])
  /\ UNCHANGED gen

Claim(slot) ==
  LET f == Got(Claimant) IN
  /\ fiber' = [fiber EXCEPT ![Claimant] = Stored(Claimed(f), Index(f), slot)]
  /\ gen' = GenWith(Claimant)
  /\ current' = Claimant
  /\ UNCHANGED <<renders, calls, rendered>>

UseState ==
  LET f == Got(Claimant) IN
  /\ Claims("state")
  /\ Claim([SlotOf(f, Index(f)) EXCEPT !.kind = "state", !.initialized = TRUE])
  /\ handles' = handles \cup {[id |-> Claimant, idx |-> Index(f), gen |-> f.gen]}
  /\ stack' = Rest
  /\ UNCHANGED runs

\* An initialized slot of these is kept, or, of a memo, filled with another value.
Keeps(kind) ==
  LET f == Got(Claimant) IN
  /\ Claims(kind)
  /\ Claim([SlotOf(f, Index(f)) EXCEPT !.kind = kind, !.initialized = TRUE])
  /\ stack' = Rest
  /\ UNCHANGED <<handles, runs>>

UseMemo == Keeps("memo")
UseRef == Keeps("ref")

\* Wrong: an effect that runs anew drops its old cleanup (CleanupExact).
OldCleanupForgotten(slot) == NoRun

OldCleanup(slot) == slot.cleanup

\* UseEffect calls the old cleanup and the function at once, inside the render.
UseEffect(d) ==
  LET f == Got(Claimant)
      slot == SlotOf(f, Index(f))
      old == OldCleanup(slot)
  IN
  /\ Claims("effect")
  /\ Claim([slot EXCEPT !.kind = "effect"])
  /\ IF slot.initialized /\ slot.deps = {d}
       THEN stack' = Rest /\ UNCHANGED runs
       ELSE /\ stack' = Append(Rest, [at |-> "effect", id |-> Claimant, gen |-> f.gen, idx |-> Index(f),
                                      deps |-> {d}, old |-> old])
            /\ cleaned' = IF old = NoRun THEN cleaned ELSE [cleaned EXCEPT ![old] = @ + 1]
            /\ UNCHANGED <<begun, excused>>
  /\ UNCHANGED handles

\* The function has returned a cleanup.  If the fiber was unmounted meanwhile, its slot is too.
EffectReturns(r) ==
  LET mounted == fiber[Top.id] # NoFiber /\ fiber[Top.id].gen = Top.gen IN
  /\ At("effect")
  /\ r \notin begun
  /\ begun' = begun \cup {r}
  /\ fiber' = IF ~mounted THEN fiber
              ELSE [fiber EXCEPT ![Top.id] = Stored(@, Top.idx,
                     [EmptySlot EXCEPT !.kind = "effect", !.initialized = TRUE, !.deps = Top.deps, !.cleanup = r])]
  /\ excused' = IF mounted THEN excused ELSE excused \cup {r}
  /\ stack' = Below
  /\ UNCHANGED <<current, gen, renders, calls, handles, rendered, cleaned>>

(***************************************************************************)
(* What handlers, effect functions and cleanups do.                         *)
(***************************************************************************)
InCode == At("effect") \/ (At("unmount") /\ Top.ran)
Code == (stack = <<>> \/ InCode) /\ calls < MaxCalls /\ calls' = calls + 1

CodePanics == InCode /\ Panic(fiber) /\ UNCHANGED gen

\* State.Set and Update (and dispatch): writes the fiber of that name, made if there is none.
SetState(h) ==
  LET f == Got(h.id) IN
  /\ Code
  /\ fiber' = [fiber EXCEPT ![h.id] =
                 Stored(f, h.idx, [SlotOf(f, h.idx) EXCEPT !.value = h.gen, !.initialized = TRUE])]
  /\ gen' = GenWith(h.id)
  /\ UNCHANGED <<current, stack, renders, handles, rendered, runs>>

\* The cleanups in the slots of a fiber, by slot, and those left when one has been called.
Cleanups(f) ==
  [i \in {j \in DOMAIN f.slots : f.slots[j].cleanup # NoRun} |-> f.slots[i].cleanup]
Left(todo, i) == [j \in DOMAIN todo \ {i} |-> todo[j]]

CurrentWithout(n) == IF current = n THEN Nobody ELSE current

Unmount(n) ==
  /\ Code
  /\ fiber[n] # NoFiber
  /\ fiber' = [fiber EXCEPT ![n] = NoFiber]
  /\ current' = CurrentWithout(n)
  /\ stack' = Append(stack, [at |-> "unmount", todo |-> Cleanups(fiber[n]), ran |-> FALSE])
  /\ rendered' = rendered \ {n}
  /\ excused' = excused \cup ({f.old : f \in Frames("effect")} \cap RunsOf(Cleanups(fiber[n])))
  /\ UNCHANGED <<gen, renders, handles, begun, cleaned>>

RunCleanup ==
  /\ At("unmount")
  /\ \E i \in DOMAIN Top.todo :
       /\ \A j \in DOMAIN Top.todo : i <= j
       /\ cleaned' = [cleaned EXCEPT ![Top.todo[i]] = @ + 1]
       /\ stack' = Append(Below, [Top EXCEPT !.todo = Left(@, i), !.ran = TRUE])
  /\ UNCHANGED <<fiber, current, gen, renders, calls, handles, rendered, begun, excused>>

UnmountReturns ==
  /\ At("unmount") /\ DOMAIN Top.todo = {}
  /\ stack' = Below
  /\ UNCHANGED <<fiber, current, gen, renders, calls, handles, rendered, runs>>

RenderStep == \E c \in Comp : Render(c)
HookStep ==
  \/ UseState \/ UseMemo \/ UseRef \/ KindChanged
  \/ \E d \in Dep : UseEffect(d)
  \/ \E r \in Run : EffectReturns(r)
CodeStep ==
  \/ \E h \in handles : SetState(h)
  \/ \E n \in Name : Unmount(n)
  \/ CodePanics

Next == RenderStep \/ RenderChild \/ EndRender \/ HookStep \/ CodeStep \/ RunCleanup \/ UnmountReturns

Spec == Init /\ [][Next]_vars

-----------------------------------------------------------------------------
\* Types of fibers, slots, handles and histories.
TypeOK ==
  /\ fiber \in [Name -> Fiber \cup {NoFiber}]
  /\ current \in Name \cup {Nobody}
  /\ handles \subseteq Handle
  /\ rendered \subseteq Comp /\ begun \subseteq Run /\ excused \subseteq Run \cup {NoRun}
  /\ cleaned \in [Run -> Nat]

\* The hooks of a body, in their order.
HooksOf(body) ==
  LET places == {i \in DOMAIN body : body[i] \in Kind}
      nth(n) == CHOOSE i \in places : Cardinality({j \in places : j <= i}) = n
  IN [n \in 1..Cardinality(places) |-> body[nth(n)]]
KindsOf(f) == [i \in DOMAIN f.slots |-> f.slots[i].kind]

\* However renders nest, fail and are unmounted from inside, and whatever setters
\* outlive a mount: a component whose render has ended has the slots of its own hooks, in
\* their order, and no other.
OwnSlots ==
  stack = <<>> =>
    \A c \in rendered : \E body \in Bodies[c] : KindsOf(fiber[c]) = HooksOf(body)

\* When nothing runs, every effect run is either held by the slot of a mounted fiber,
\* its cleanup not yet called, or was cleaned up exactly once: nothing is
\* leaked or undone twice, but for the runs that are excused.
CleanupExact ==
  stack = <<>> =>
    \A r \in begun \ excused :
      cleaned[r] = IF \E n \in Name : fiber[n] # NoFiber /\ r \in RunsOf(Cleanups(fiber[n])) THEN 0 ELSE 1

\* The render that c is in: the last begun of those that have not ended.
InRender(c) ==
  \E i \in DOMAIN stack :
    /\ stack[i].at = "render" /\ stack[i].c = c
    /\ \A j \in DOMAIN stack : stack[j].at = "render" => j <= i

\* A hook is never attributed to another component: the current fiber is mounted, and it is
\* that of the innermost render, or the default one, to which hooks go when a child's
\* EndRender or an Unmount has left none.  When nothing runs none is current, also after a
\* panic in the depth of a render.
CurrentExact ==
  /\ current # Nobody => fiber[current] # NoFiber
  /\ current \in Comp => InRender(current)
  /\ stack = <<>> => current = Nobody

\* Broken by the code, see the README.  A mounted component's state was set by this
\* mount's handles only; a setter that outlives its mount makes a fiber for the next.
OwnState ==
  stack = <<>> => \A c \in rendered : \A i \in DOMAIN fiber[c].slots :
    fiber[c].slots[i].value \in {0, fiber[c].gen}

\* Broken by the code, see the README.  The expected number of hooks is one that some
\* body of the component has; a panic inside a first render records the hooks so far.
CountsReal ==
  \A c \in Comp : fiber[c] # NoFiber =>
    fiber[c].expectedHooks \in {-1} \cup {Len(HooksOf(body)) : body \in Bodies[c]}

\* Broken by the code, see the README.  No cleanup is called twice, no mounted effect lost.
CleanupAlwaysExact == CleanupExact /\ (stack = <<>> => excused = {})

=============================================================================
