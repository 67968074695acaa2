------------------------------ MODULE Signals ------------------------------
(***************************************************************************)
(* pkg/reactive: signals and effects.  Everything runs on the browser's    *)
(* event loop, so the interleavings are those of re-entrant calls: `stack' *)
(* holds the calls of Set and of effect.run that have not returned.  The   *)
(* function of an effect may read, set, create and dispose as it likes.    *)
(***************************************************************************)
EXTENDS Naturals, Sequences

CONSTANTS
  Signal, Effect, Value, NoEffect, Unread,
  Incomparable,   \* the signals made by NewSignalFunc without an equal
  BodyLength      \* bound: calls made by one run of an effect's function

ASSUME SignalsAssumption ==
  /\ NoEffect \notin Effect
  /\ Unread \notin Value
  /\ Incomparable \subseteq Signal
  /\ BodyLength \in Nat

VARIABLES
  value,      \* Signal.value
  subs,       \* Signal.subs
  effect,     \* the effects, made or not
  current,    \* the effect that reads are attributed to
  stack,      \* calls under way, innermost last
  saw,        \* history: what the last run of an effect read
  excused     \* history: effects that read a signal set by their own run, or cut off by a panic

vars == <<value, subs, effect, current, stack, saw, excused>>

EffectRecord ==
  [made: BOOLEAN, handed: BOOLEAN,   \* Effect has been called, and has returned dispose
   deps: SUBSET Signal, disposed: BOOLEAN, running: BOOLEAN]

\* A call of Set with the subscribers left to run, or of run with the calls left to its fn.
SetFrame == [kind: {"set"}, todo: SUBSET Effect]
RunFrame == [kind: {"run"}, e: Effect, prev: Effect \cup {NoEffect}, first: BOOLEAN, left: 0..BodyLength]

Blank == [s \in Signal |-> Unread]

Init ==
  /\ value \in [Signal -> Value]
  /\ subs = [s \in Signal |-> {}]
  /\ effect = [e \in Effect |-> [made |-> FALSE, handed |-> FALSE, deps |-> {},
                                 disposed |-> FALSE, running |-> FALSE]]
  /\ current = NoEffect
  /\ stack = <<>>
  /\ saw = [e \in Effect |-> Blank]
  /\ excused = {}

Top == stack[Len(stack)]
Below == SubSeq(stack, 1, Len(stack) - 1)
InBody == stack # <<>> /\ Top.kind = "run" /\ Top.left > 0

\* Program text runs in an event handler, when nothing else does, or in an effect.
Program == stack = <<>> \/ InBody
Charged == IF InBody THEN Append(Below, [Top EXCEPT !.left = @ - 1]) ELSE stack
OnStack == {stack[i].e : i \in {j \in DOMAIN stack : stack[j].kind = "run"}}

\* Wrong: subscriptions of the last run are kept (Symmetric).
UnsubscribedNever(e) == subs

\* unsubscribe, from every dependency.
Unsubscribed(e) == [s \in Signal |-> IF s \in effect[e].deps THEN subs[s] \ {e} ELSE subs[s]]

(***************************************************************************)
(* Get in an effect.  (Outside of one it changes nothing, like Peek.)       *)
(***************************************************************************)
Tracks == current # NoEffect /\ ~effect[current].disposed

Get(s) ==
  /\ InBody
  /\ IF Tracks
       THEN /\ subs' = [subs EXCEPT ![s] = @ \cup {current}]
            /\ effect' = [effect EXCEPT ![current].deps = @ \cup {s}]
       ELSE UNCHANGED <<subs, effect>>
  /\ saw' = [saw EXCEPT ![Top.e][s] = value[s]]
  /\ stack' = Charged
  /\ UNCHANGED <<value, current, excused>>

(***************************************************************************)
(* Set, and Update: the subscribers are copied, then run in any order.      *)
(***************************************************************************)
\* Wrong: effects that set run nobody (StaleIsOwed).
ListenersOutside(s) == IF current = NoEffect THEN subs[s] ELSE {}

Listeners(s) == {e \in subs[s] : ~effect[e].disposed}

Set(s, v) ==
  /\ Program
  /\ s \in Incomparable \/ v # value[s]   \* else Set returns at once
  /\ value' = [value EXCEPT ![s] = v]
  /\ stack' = Append(Charged, [kind |-> "set", todo |-> Listeners(s)])
  /\ excused' = excused \cup {e \in OnStack : saw[e][s] # Unread}
  /\ UNCHANGED <<subs, effect, current, saw>>

SetReturns ==
  /\ stack # <<>> /\ Top.kind = "set" /\ Top.todo = {}
  /\ stack' = Below
  /\ UNCHANGED <<value, subs, effect, current, saw, excused>>

(***************************************************************************)
(* effect.run up to the call of fn, on top of the calls in `under'.         *)
(***************************************************************************)
Enter(e, under, first) ==
  /\ subs' = Unsubscribed(e)
  /\ effect' = [effect EXCEPT ![e].made = TRUE, ![e].running = TRUE, ![e].deps = {}]
  /\ current' = e
  /\ stack' = Append(under, [kind |-> "run", e |-> e, prev |-> current, first |-> first, left |-> BodyLength])
  /\ saw' = [saw EXCEPT ![e] = Blank]
  /\ excused' = excused \ {e}
  /\ UNCHANGED value

NewEffect(e) ==
  /\ Program
  /\ ~effect[e].made
  /\ Enter(e, Charged, TRUE)

RunNext(e) ==
  /\ stack # <<>> /\ Top.kind = "set" /\ e \in Top.todo
  /\ LET under == Append(Below, [Top EXCEPT !.todo = @ \ {e}])
     IN IF effect[e].disposed \/ effect[e].running
          THEN /\ stack' = under
               /\ UNCHANGED <<value, subs, effect, current, saw, excused>>
          ELSE Enter(e, under, FALSE)

\* Wrong: a nested run leaves no current effect (ReadsTracked).
RestoredNone(frame) == NoEffect

\* The deferred function of run; the outermost call of Effect then returns dispose.
Restored(frame) == frame.prev

Return ==
  /\ stack # <<>> /\ Top.kind = "run"
  /\ effect' = [effect EXCEPT ![Top.e].running = FALSE, ![Top.e].handed = @ \/ Top.first]
  /\ current' = Restored(Top)
  /\ stack' = Below
  /\ UNCHANGED <<value, subs, saw, excused>>

\* Wrong: only the innermost effect stops running (Settled).
UnwoundTop == [effect EXCEPT ![Top.e].running = FALSE]

\* fn panics: every call under way ends, only its deferred function runs.
Unwound == [e \in Effect |-> IF e \in OnStack THEN [effect[e] EXCEPT !.running = FALSE] ELSE effect[e]]

Panic ==
  /\ stack # <<>> /\ Top.kind = "run"
  /\ effect' = Unwound
  /\ \E i \in DOMAIN stack :
       /\ stack[i].kind = "run" /\ \A j \in 1..(i - 1) : stack[j].kind # "run"
       /\ current' = Restored(stack[i])
  /\ stack' = <<>>
  /\ excused' = excused \cup UNION {stack[i].todo : i \in {j \in DOMAIN stack : stack[j].kind = "set"}}
  /\ UNCHANGED <<value, subs, saw>>

(***************************************************************************)
(* The DisposeFunc that Effect returned, called by anyone at any time.      *)
(***************************************************************************)
Dispose(e) ==
  /\ Program
  /\ effect[e].handed /\ ~effect[e].disposed
  /\ subs' = Unsubscribed(e)
  /\ effect' = [effect EXCEPT ![e].disposed = TRUE, ![e].deps = {}]
  /\ stack' = Charged
  /\ UNCHANGED <<value, current, saw, excused>>

Next ==
  \/ \E s \in Signal : Get(s)
  \/ \E s \in Signal, v \in Value : Set(s, v)
  \/ SetReturns
  \/ \E e \in Effect : NewEffect(e) \/ RunNext(e) \/ Dispose(e)
  \/ Return
  \/ Panic

Spec == Init /\ [][Next]_vars

-----------------------------------------------------------------------------
\* Types of signals, effects and the calls under way.
TypeOK ==
  /\ value \in [Signal -> Value]
  /\ subs \in [Signal -> SUBSET Effect]
  /\ effect \in [Effect -> EffectRecord]
  /\ current \in Effect \cup {NoEffect}
  /\ stack \in Seq(SetFrame \cup RunFrame)
  /\ saw \in [Effect -> [Signal -> Value \cup {Unread}]]
  /\ excused \subseteq Effect

\* Signal.subs and effect.deps say the same, also while effects dispose of or
\* re-run each other, and a disposed effect is nobody's subscriber: it can be
\* collected and is never run by a later Set.
Symmetric ==
  \A e \in Effect, s \in Signal :
    /\ e \in subs[s] <=> s \in effect[e].deps
    /\ effect[e].disposed => e \notin subs[s]

\* Reads are attributed to the effect whose function makes them, whatever ran
\* nested in it: a living effect depends on exactly what its last run has read.
ReadsTracked ==
  \A e \in Effect : ~effect[e].disposed => effect[e].deps = {s \in Signal : saw[e][s] # Unread}

\* A living effect that has read a value which is no longer current is still to be
\* run by a Set under way; with none under way, all have seen the last values.
\* Excused: an effect that set what it had read (run refuses to re-enter it), and
\* the effects that a panic kept from running.
StaleIsOwed ==
  \A e \in Effect \ excused, s \in Signal :
    ~effect[e].disposed /\ saw[e][s] \notin {Unread, value[s]} =>
      \E i \in DOMAIN stack : stack[i].kind = "set" /\ e \in stack[i].todo

\* When all calls have returned, or panicked, no effect is left marked running (it
\* would never run again) or current (it would catch the reads of event handlers).
Settled == stack = <<>> => current = NoEffect /\ \A e \in Effect : ~effect[e].running

=============================================================================
