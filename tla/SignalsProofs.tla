--------------------------- MODULE SignalsProofs ---------------------------
(***************************************************************************)
(* For any number of signals and effects, and bodies of any length.  The    *)
(* subscriptions of signals and the dependencies of effects agree (Linked,  *)
(* for which nothing about the stack is needed); calls nest, so that        *)
(* `current' is the effect whose body runs and nothing is left running      *)
(* (Shape); reads are therefore attributed to their reader (Attributed),    *)
(* and a Set owes its living readers a run (Told).                          *)
(***************************************************************************)
EXTENDS Signals, SequenceTheorems, TLAPS


\* The two sides of the relation are tables.
Sides ==
  /\ subs = [s \in Signal |-> subs[s]]
  /\ effect \in [Effect -> EffectRecord]

Linked == Sides /\ Symmetric

LEMMA LinkedInit == Init => Linked
  BY DEF Init, Linked, Sides, Symmetric, EffectRecord

\* An effect that unsubscribes is nobody's subscriber; the others are as they were.
LEMMA UnsubscribedFrom ==
  ASSUME Linked, NEW e \in Effect
  PROVE  /\ Unsubscribed(e) = [s \in Signal |-> Unsubscribed(e)[s]]
         /\ \A s \in Signal, d \in Effect :
              d \in Unsubscribed(e)[s] <=> d # e /\ d \in subs[s]
  BY DEF Linked, Sides, Symmetric, Unsubscribed

LEMMA LinkedGet ==
  ASSUME Linked, NEW s \in Signal, Get(s)
  PROVE  Linked'
<1>1. CASE Tracks /\ current \in Effect
  <2>1. subs' = [subs EXCEPT ![s] = @ \cup {current}]
    BY <1>1 DEF Get
  <2>2. effect' = [effect EXCEPT ![current].deps = @ \cup {s}]
    BY <1>1 DEF Get
  <2>3. Sides'
    BY <1>1, <2>1, <2>2 DEF Linked, Sides, EffectRecord
  <2>4. Symmetric'
    BY <1>1, <2>1, <2>2 DEF Linked, Sides, Symmetric, EffectRecord, Tracks
  <2> QED
    BY <2>3, <2>4 DEF Linked
<1>2. CASE Tracks /\ current \notin Effect
  <2>1. subs' = [subs EXCEPT ![s] = @ \cup {current}]
    BY <1>2 DEF Get
  <2>2. effect' = [effect EXCEPT ![current].deps = @ \cup {s}]
    BY <1>2 DEF Get
  <2>3. effect' = effect
    BY <1>2, <2>2 DEF Linked, Sides
  <2> QED
    BY <1>2, <2>1, <2>3 DEF Linked, Sides, Symmetric
<1>3. CASE ~Tracks
  BY <1>3 DEF Get, Linked, Sides, Symmetric
<1> QED
  BY <1>1, <1>2, <1>3

LEMMA LinkedEnter ==
  ASSUME Linked, NEW e \in Effect, NEW under, NEW first, Enter(e, under, first)
  PROVE  Linked'
<1>1. /\ subs' = Unsubscribed(e)
      /\ effect' = [effect EXCEPT ![e].made = TRUE, ![e].running = TRUE, ![e].deps = {}]
  BY DEF Enter
<1>2. Sides'
  <2>1. subs' = [s \in Signal |-> subs'[s]]
    BY <1>1, UnsubscribedFrom
  <2>2. effect' \in [Effect -> EffectRecord]
    BY <1>1 DEF Linked, Sides, EffectRecord
  <2> QED
    BY <2>1, <2>2 DEF Sides
<1>3. Symmetric'
  BY <1>1, UnsubscribedFrom DEF Linked, Sides, Symmetric, EffectRecord
<1> QED
  BY <1>2, <1>3 DEF Linked

LEMMA LinkedDispose ==
  ASSUME Linked, NEW e \in Effect, Dispose(e)
  PROVE  Linked'
<1>1. /\ subs' = Unsubscribed(e)
      /\ effect' = [effect EXCEPT ![e].disposed = TRUE, ![e].deps = {}]
  BY DEF Dispose
<1>2. Sides'
  <2>1. subs' = [s \in Signal |-> subs'[s]]
    BY <1>1, UnsubscribedFrom
  <2>2. effect' \in [Effect -> EffectRecord]
    BY <1>1 DEF Linked, Sides, EffectRecord
  <2> QED
    BY <2>1, <2>2 DEF Sides
<1>3. Symmetric'
  BY <1>1, UnsubscribedFrom DEF Linked, Sides, Symmetric, EffectRecord
<1> QED
  BY <1>2, <1>3 DEF Linked

\* Calls that return, or end by a panic, change only which effects run.
LEMMA LinkedEnds ==
  ASSUME Linked, Return \/ Panic
  PROVE  Linked'
<1>1. subs' = subs
  BY DEF Return, Panic
<1>2. CASE Return
  <2>1. effect' = [effect EXCEPT ![Top.e].running = FALSE, ![Top.e].handed = @ \/ Top.first]
    BY <1>2 DEF Return
  <2>2. CASE Top.e \in Effect
    <3>1. effect' \in [Effect -> EffectRecord]
      BY <2>1, <2>2 DEF Linked, Sides, EffectRecord
    <3>2. \A e \in Effect : effect'[e].deps = effect[e].deps /\ effect'[e].disposed = effect[e].disposed
      BY <2>1, <2>2 DEF Linked, Sides, EffectRecord
    <3> QED
      BY <1>1, <3>1, <3>2 DEF Linked, Sides, Symmetric
  <2>3. CASE Top.e \notin Effect
    <3>1. effect' = effect
      BY <2>1, <2>3 DEF Linked, Sides
    <3> QED
      BY <1>1, <3>1 DEF Linked, Sides, Symmetric
  <2> QED
    BY <2>2, <2>3
<1>3. CASE Panic
  <2>1. effect' = Unwound
    BY <1>3 DEF Panic
  <2>2. effect' \in [Effect -> EffectRecord]
    BY <2>1 DEF Unwound, Linked, Sides, EffectRecord
  <2>3. \A e \in Effect : effect'[e].deps = effect[e].deps /\ effect'[e].disposed = effect[e].disposed
    BY <2>1 DEF Unwound, Linked, Sides, EffectRecord
  <2> QED
    BY <1>1, <2>2, <2>3 DEF Linked, Sides, Symmetric
<1> QED
  BY <1>2, <1>3

LEMMA LinkedNext ==
  ASSUME Linked, [Next]_vars
  PROVE  Linked'
<1>1. CASE \E s \in Signal : Get(s)
  BY <1>1, LinkedGet
<1>2. CASE (\E s \in Signal, v \in Value : Set(s, v)) \/ SetReturns
  BY <1>2 DEF Set, SetReturns, Linked, Sides, Symmetric
<1>3. CASE \E e \in Effect : NewEffect(e)
  BY <1>3, LinkedEnter DEF NewEffect
<1>4. CASE \E e \in Effect : RunNext(e)
  <2>1. PICK e \in Effect : RunNext(e)
    BY <1>4
  <2>2. CASE effect[e].disposed \/ effect[e].running
    BY <2>1, <2>2 DEF RunNext, Linked, Sides, Symmetric
  <2>3. CASE ~(effect[e].disposed \/ effect[e].running)
    BY <2>1, <2>3, LinkedEnter DEF RunNext
  <2> QED
    BY <2>2, <2>3
<1>5. CASE \E e \in Effect : Dispose(e)
  BY <1>5, LinkedDispose
<1>6. CASE Return \/ Panic
  BY <1>6, LinkedEnds
<1>7. CASE UNCHANGED vars
  BY <1>7 DEF vars, Linked, Sides, Symmetric
<1> QED
  BY <1>1, <1>2, <1>3, <1>4, <1>5, <1>6, <1>7 DEF Next

(***************************************************************************)
(* Signal.subs and effect.deps always agree, and a disposed effect is       *)
(* nobody's subscriber, however effects run, set, dispose and panic in      *)
(* each other (Get, unsubscribe, run and the DisposeFunc of signal.go).     *)
(***************************************************************************)
THEOREM AlwaysSymmetric == Spec => []Symmetric
<1>1. Linked => Symmetric
  BY DEF Linked
<1> QED
  BY LinkedInit, LinkedNext, <1>1, PTL DEF Spec

-----------------------------------------------------------------------------

(***************************************************************************)
(* The stack of calls.  A Set is called by the body of a run or by nobody,  *)
(* so the run that a frame S[i] was pushed by is one or two frames below.   *)
(***************************************************************************)
Frame == SetFrame \cup RunFrame

RunAt(S, i) == S[i].kind = "run"

\* The effect that was current when the frame at i was pushed.
RunBelow(S, i) ==
  IF i = 1 THEN NoEffect
  ELSE IF RunAt(S, i - 1) THEN S[i - 1].e
  ELSE IF i = 2 THEN NoEffect ELSE S[i - 2].e

Holds(S, e) == \E i \in 1..Len(S) : RunAt(S, i) /\ S[i].e = e

\* Frames nest as calls do, and no effect runs in its own run.
Nests(S) ==
  /\ \A i \in 2..Len(S) : ~RunAt(S, i) => RunAt(S, i - 1)
  /\ \A i \in 1..Len(S) : RunAt(S, i) => S[i].prev = RunBelow(S, i)
  /\ \A i, j \in 1..Len(S) : RunAt(S, i) /\ RunAt(S, j) /\ S[i].e = S[j].e => i = j

Nested ==
  /\ Nests(stack)
  /\ current = RunBelow(stack, Len(stack) + 1)
  /\ \A e \in Effect : effect[e].running <=> Holds(stack, e)

\* What a call does to its own frame on the way, the frames stay the same calls.
Alike(S, T) ==
  /\ Len(T) = Len(S)
  /\ \A i \in 1..Len(S) :
       /\ T[i].kind = S[i].kind
       /\ RunAt(S, i) => T[i].e = S[i].e /\ T[i].prev = S[i].prev

LEMMA FrameKinds ==
  ASSUME NEW f \in Frame
  PROVE  /\ f.kind = "run" => f \in RunFrame
         /\ f.kind # "run" => f \in SetFrame /\ f.kind = "set"
  BY DEF Frame, SetFrame, RunFrame

LEMMA AlikeNests ==
  ASSUME NEW S \in Seq(Frame), NEW T \in Seq(Frame), Alike(S, T), Nests(S)
  PROVE  /\ Nests(T)
         /\ RunBelow(T, Len(T) + 1) = RunBelow(S, Len(S) + 1)
         /\ \A e \in Effect : Holds(T, e) <=> Holds(S, e)
<1>1. \A i \in 1..Len(S) : RunAt(T, i) <=> RunAt(S, i)
  BY DEF Alike, RunAt
<1>2. Len(T) = Len(S) /\ Len(S) \in Nat
  BY DEF Alike
<1>3. \A i \in 1..(Len(S) + 1) : RunBelow(T, i) = RunBelow(S, i)
  <2> SUFFICES ASSUME NEW i \in 1..(Len(S) + 1)
               PROVE  RunBelow(T, i) = RunBelow(S, i)
    OBVIOUS
  <2>1. CASE i = 1
    BY <2>1 DEF RunBelow
  <2>2. CASE i > 1 /\ RunAt(S, i - 1)
    <3>1. i - 1 \in 1..Len(S)
      BY <1>2, <2>2
    <3>2. RunAt(T, i - 1) /\ T[i - 1].e = S[i - 1].e
      BY <1>1, <2>2, <3>1 DEF Alike
    <3> QED
      BY <2>2, <3>2 DEF RunBelow
  <2>3. CASE i > 1 /\ ~RunAt(S, i - 1)
    <3>1. i - 1 \in 1..Len(S)
      BY <1>2, <2>3
    <3>2. ~RunAt(T, i - 1)
      BY <1>1, <2>3, <3>1
    <3>3. CASE i = 2
      BY <2>3, <3>2, <3>3 DEF RunBelow
    <3>4. CASE i # 2
      <4>1. i - 1 \in 2..Len(S) /\ i - 2 \in 1..Len(S) /\ (i - 1) - 1 = i - 2
        BY <1>2, <2>3, <3>1, <3>4
      <4>2. RunAt(S, i - 2)
        BY <2>3, <4>1 DEF Nests
      <4>3. T[i - 2].e = S[i - 2].e
        BY <4>1, <4>2 DEF Alike
      <4> QED
        BY <2>3, <3>2, <3>4, <4>3 DEF RunBelow
    <3> QED
      BY <3>3, <3>4
  <2> QED
    BY <2>1, <2>2, <2>3
<1>4. \A i \in 2..Len(T) : ~RunAt(T, i) => RunAt(T, i - 1)
  <2> SUFFICES ASSUME NEW i \in 2..Len(T), ~RunAt(T, i)
               PROVE  RunAt(T, i - 1)
    OBVIOUS
  <2>1. i \in 1..Len(S) /\ i - 1 \in 1..Len(S) /\ i \in 2..Len(S)
    BY <1>2
  <2> QED
    BY <1>1, <2>1 DEF Nests
<1>5. \A i \in 1..Len(T) : RunAt(T, i) => T[i].prev = RunBelow(T, i)
  <2> SUFFICES ASSUME NEW i \in 1..Len(T), RunAt(T, i)
               PROVE  T[i].prev = RunBelow(T, i)
    OBVIOUS
  <2>1. i \in 1..Len(S) /\ i \in 1..(Len(S) + 1)
    BY <1>2
  <2>2. RunAt(S, i) /\ T[i].prev = S[i].prev
    BY <1>1, <2>1 DEF Alike
  <2>3. S[i].prev = RunBelow(S, i)
    BY <2>1, <2>2 DEF Nests
  <2> QED
    BY <1>3, <2>1, <2>2, <2>3
<1>6. \A i, j \in 1..Len(T) : RunAt(T, i) /\ RunAt(T, j) /\ T[i].e = T[j].e => i = j
  BY <1>1, <1>2 DEF Alike, Nests
<1>7. \A e \in Effect : Holds(T, e) <=> Holds(S, e)
  BY <1>1, <1>2 DEF Alike, Holds
<1>8. Len(S) + 1 \in 1..(Len(S) + 1)
  BY <1>2
<1> QED
  BY <1>2, <1>3, <1>4, <1>5, <1>6, <1>7, <1>8 DEF Nests

\* Pushing a call leaves the frames below it and what was pushed by whom.
LEMMA BelowPushed ==
  ASSUME NEW S \in Seq(Frame), NEW f \in Frame
  PROVE  /\ Append(S, f) \in Seq(Frame)
         /\ Len(Append(S, f)) = Len(S) + 1 /\ Len(S) \in Nat
         /\ Append(S, f)[Len(S) + 1] = f
         /\ \A i \in 1..Len(S) : Append(S, f)[i] = S[i]
         /\ \A i \in 1..(Len(S) + 1) : RunBelow(Append(S, f), i) = RunBelow(S, i)
<1> DEFINE T == Append(S, f)
<1>1. /\ T \in Seq(Frame)
      /\ Len(T) = Len(S) + 1 /\ Len(S) \in Nat
      /\ T[Len(S) + 1] = f
      /\ \A i \in 1..Len(S) : T[i] = S[i]
  OBVIOUS
<1> HIDE DEF T
<1>2. ASSUME NEW i \in 1..(Len(S) + 1)
      PROVE  RunBelow(T, i) = RunBelow(S, i)
  <2>1. CASE i = 1
    BY <2>1 DEF RunBelow
  <2>2. CASE i = 2
    <3>1. T[1] = S[1]
      BY <1>1, <2>2
    <3> QED
      BY <2>2, <3>1 DEF RunBelow, RunAt
  <2>3. CASE i > 2
    <3>1. T[i - 1] = S[i - 1] /\ T[i - 2] = S[i - 2]
      BY <1>1, <2>3
    <3> QED
      BY <2>3, <3>1 DEF RunBelow, RunAt
  <2> QED
    BY <1>1, <2>1, <2>2, <2>3
<1> QED
  BY <1>1, <1>2 DEF T

LEMMA PushRun ==
  ASSUME NEW S \in Seq(Frame), Nests(S), NEW f \in RunFrame,
         f.prev = RunBelow(S, Len(S) + 1), ~Holds(S, f.e)
  PROVE  /\ Nests(Append(S, f))
         /\ RunBelow(Append(S, f), Len(Append(S, f)) + 1) = f.e
         /\ \A e \in Effect : Holds(Append(S, f), e) <=> e = f.e \/ Holds(S, e)
<1> DEFINE T == Append(S, f)
<1>1. f \in Frame /\ f.kind = "run"
  BY DEF Frame, RunFrame
<1>2. /\ T \in Seq(Frame)
      /\ Len(T) = Len(S) + 1 /\ Len(S) \in Nat
      /\ T[Len(S) + 1] = f
      /\ \A i \in 1..Len(S) : T[i] = S[i]
      /\ \A i \in 1..(Len(S) + 1) : RunBelow(T, i) = RunBelow(S, i)
  BY <1>1, BelowPushed
<1> HIDE DEF T
<1>3. \A i \in 2..Len(T) : ~RunAt(T, i) => RunAt(T, i - 1)
  BY <1>1, <1>2 DEF Nests, RunAt
<1>4. \A i \in 1..Len(T) : RunAt(T, i) => T[i].prev = RunBelow(T, i)
  BY <1>1, <1>2 DEF Nests, RunAt
<1>5. \A i, j \in 1..Len(T) : RunAt(T, i) /\ RunAt(T, j) /\ T[i].e = T[j].e => i = j
  BY <1>1, <1>2 DEF Nests, RunAt, Holds
<1>6. RunBelow(T, Len(T) + 1) = f.e
  BY <1>1, <1>2 DEF RunBelow, RunAt
<1>7. \A e \in Effect : Holds(T, e) <=> e = f.e \/ Holds(S, e)
  BY <1>1, <1>2 DEF Holds, RunAt
<1> QED
  BY <1>3, <1>4, <1>5, <1>6, <1>7 DEF Nests, T

LEMMA PushSet ==
  ASSUME NEW S \in Seq(Frame), Nests(S), NEW f \in SetFrame,
         S = <<>> \/ RunAt(S, Len(S))
  PROVE  /\ Nests(Append(S, f))
         /\ RunBelow(Append(S, f), Len(Append(S, f)) + 1) = RunBelow(S, Len(S) + 1)
         /\ \A e \in Effect : Holds(Append(S, f), e) <=> Holds(S, e)
<1> DEFINE T == Append(S, f)
<1>1. f \in Frame /\ f.kind # "run"
  BY DEF Frame, SetFrame
<1>2. /\ T \in Seq(Frame)
      /\ Len(T) = Len(S) + 1 /\ Len(S) \in Nat
      /\ T[Len(S) + 1] = f
      /\ \A i \in 1..Len(S) : T[i] = S[i]
      /\ \A i \in 1..(Len(S) + 1) : RunBelow(T, i) = RunBelow(S, i)
  BY <1>1, BelowPushed
<1>0. Len(S) = 0 \/ (Len(S) > 0 /\ RunAt(S, Len(S)))
  OBVIOUS
<1> HIDE DEF T
<1>3. \A i \in 2..Len(T) : ~RunAt(T, i) => RunAt(T, i - 1)
  BY <1>0, <1>1, <1>2 DEF Nests, RunAt
<1>4. \A i \in 1..Len(T) : RunAt(T, i) => T[i].prev = RunBelow(T, i)
  BY <1>1, <1>2 DEF Nests, RunAt
<1>5. \A i, j \in 1..Len(T) : RunAt(T, i) /\ RunAt(T, j) /\ T[i].e = T[j].e => i = j
  BY <1>1, <1>2 DEF Nests, RunAt
<1>6. RunBelow(T, Len(T) + 1) = RunBelow(S, Len(S) + 1)
  <2>1. CASE Len(S) = 0
    BY <1>1, <1>2, <2>1 DEF RunBelow, RunAt
  <2>2. CASE Len(S) > 0 /\ RunAt(S, Len(S))
    <3>1. RunBelow(S, Len(S) + 1) = S[Len(S)].e
      BY <1>2, <2>2 DEF RunBelow
    <3>2. T[Len(S)] = S[Len(S)]
      BY <1>2, <2>2
    <3>3. RunBelow(T, Len(T) + 1) = T[Len(S)].e
      BY <1>1, <1>2, <2>2 DEF RunBelow, RunAt
    <3> QED
      BY <3>1, <3>2, <3>3
  <2> QED
    BY <1>0, <2>1, <2>2
<1>7. \A e \in Effect : Holds(T, e) <=> Holds(S, e)
  BY <1>1, <1>2 DEF Holds, RunAt
<1> QED
  BY <1>3, <1>4, <1>5, <1>6, <1>7 DEF Nests, T

\* The stack without its last frame.
LEMMA FrontFrames ==
  ASSUME NEW S \in Seq(Frame), S # <<>>
  PROVE  LET T == SubSeq(S, 1, Len(S) - 1)
         IN  /\ T \in Seq(Frame) /\ S[Len(S)] \in Frame
             /\ Len(T) = Len(S) - 1 /\ Len(S) \in Nat \ {0}
             /\ \A i \in 1..(Len(S) - 1) : T[i] = S[i]
<1>1. Len(S) \in Nat /\ Len(S) > 0 /\ \A i \in 1..(Len(S) - 1) : S[i] \in Frame
  OBVIOUS
<1>2. S[Len(S)] \in Frame
  BY <1>1
<1> DEFINE T == SubSeq(S, 1, Len(S) - 1)
<1>3. 1 \in Int /\ Len(S) - 1 \in Int
  BY <1>1
<1>4. /\ T \in Seq(Frame)
      /\ Len(T) = IF 1 <= Len(S) - 1 THEN Len(S) - 1 - 1 + 1 ELSE 0
      /\ \A i \in 1..(Len(S) - 1 - 1 + 1) : T[i] = S[1 + i - 1]
  BY <1>1, <1>3, SubSeqProperties
<1> HIDE DEF T
<1>5. Len(T) = Len(S) - 1
  <2>1. Len(T) \in Nat
    BY <1>4
  <2>2. CASE Len(S) = 1
    BY <1>4, <2>1, <2>2
  <2>3. CASE Len(S) > 1
    BY <1>1, <1>4, <2>1, <2>3
  <2>4. Len(S) = 1 \/ Len(S) > 1
    <3>1. \A n \in Nat : n > 0 => n = 1 \/ n > 1
      OBVIOUS
    <3> QED
      BY <1>1, <3>1
  <2> QED
    BY <2>2, <2>3, <2>4
<1>6. \A i \in 1..(Len(S) - 1) : T[i] = S[i]
  BY <1>1, <1>4
<1> QED
  BY <1>1, <1>2, <1>4, <1>5, <1>6 DEF T

\* A call returns to what was current when it was made.
LEMMA PopTop ==
  ASSUME NEW S \in Seq(Frame), Nests(S), S # <<>>
  PROVE  LET T == SubSeq(S, 1, Len(S) - 1)
             f == S[Len(S)]
         IN  /\ T \in Seq(Frame) /\ f \in Frame
             /\ Len(T) = Len(S) - 1 /\ Len(S) \in Nat \ {0}
             /\ \A i \in 1..(Len(S) - 1) : T[i] = S[i]
             /\ Nests(T)
             /\ RunAt(S, Len(S)) => /\ RunBelow(T, Len(T) + 1) = f.prev
                                    /\ RunBelow(S, Len(S) + 1) = f.e
                                    /\ \A e \in Effect : Holds(T, e) <=> e # f.e /\ Holds(S, e)
             /\ ~RunAt(S, Len(S)) => /\ RunBelow(T, Len(T) + 1) = RunBelow(S, Len(S) + 1)
                                     /\ \A e \in Effect : Holds(T, e) <=> Holds(S, e)
<1> DEFINE T == SubSeq(S, 1, Len(S) - 1)
           f == S[Len(S)]
<1>1. /\ T \in Seq(Frame) /\ f \in Frame
      /\ Len(T) = Len(S) - 1 /\ Len(S) \in Nat \ {0}
      /\ \A i \in 1..(Len(S) - 1) : T[i] = S[i]
  BY FrontFrames
<1>2. S = Append(T, f)
  OBVIOUS
<1>3. \A i \in 1..(Len(T) + 1) : RunBelow(S, i) = RunBelow(T, i)
  <2> HIDE DEF T, f
  <2> QED
    BY <1>1, <1>2, BelowPushed
<1> HIDE DEF T
<1>4. Nests(T)
  <2>1. \A i \in 2..Len(T) : ~RunAt(T, i) => RunAt(T, i - 1)
    BY <1>1 DEF Nests, RunAt
  <2>2. \A i \in 1..Len(T) : RunAt(T, i) => T[i].prev = RunBelow(T, i)
    BY <1>1, <1>3 DEF Nests, RunAt
  <2>3. \A i, j \in 1..Len(T) : RunAt(T, i) /\ RunAt(T, j) /\ T[i].e = T[j].e => i = j
    BY <1>1 DEF Nests, RunAt
  <2> QED
    BY <2>1, <2>2, <2>3 DEF Nests
<1>5. ASSUME RunAt(S, Len(S))
      PROVE  /\ RunBelow(T, Len(T) + 1) = f.prev
             /\ RunBelow(S, Len(S) + 1) = f.e
             /\ \A e \in Effect : Holds(T, e) <=> e # f.e /\ Holds(S, e)
  <2>1. RunBelow(T, Len(T) + 1) = f.prev
    BY <1>1, <1>3, <1>5 DEF Nests
  <2>2. RunBelow(S, Len(S) + 1) = f.e
    BY <1>1, <1>5 DEF RunBelow
  <2>3. \A e \in Effect : Holds(T, e) <=> e # f.e /\ Holds(S, e)
    BY <1>1, <1>5 DEF Nests, Holds, RunAt
  <2> QED
    BY <2>1, <2>2, <2>3
<1>6. ASSUME ~RunAt(S, Len(S))
      PROVE  /\ RunBelow(T, Len(T) + 1) = RunBelow(S, Len(S) + 1)
             /\ \A e \in Effect : Holds(T, e) <=> Holds(S, e)
  <2>1. RunBelow(T, Len(T) + 1) = RunBelow(S, Len(S) + 1)
    <3>1. CASE Len(S) = 1
      BY <1>1, <1>6, <3>1 DEF RunBelow
    <3>2. CASE Len(S) > 1
      <4>1. RunAt(S, Len(S) - 1) /\ T[Len(S) - 1] = S[Len(S) - 1]
        BY <1>1, <1>6, <3>2 DEF Nests
      <4>2. RunBelow(S, Len(S) + 1) = S[Len(S) - 1].e
        BY <1>1, <1>6, <3>2 DEF RunBelow
      <4>3. RunBelow(T, Len(T) + 1) = T[Len(S) - 1].e
        BY <1>1, <3>2, <4>1 DEF RunBelow, RunAt
      <4> QED
        BY <4>1, <4>2, <4>3
    <3> QED
      BY <1>1, <3>1, <3>2
  <2>2. \A e \in Effect : Holds(T, e) <=> Holds(S, e)
    BY <1>1, <1>6 DEF Holds, RunAt
  <2> QED
    BY <2>1, <2>2
<1> QED
  BY <1>1, <1>4, <1>5, <1>6 DEF T

\* A call made by a body is charged to the body; the other frames are as they were.
LEMMA ChargedStack ==
  ASSUME TypeOK
  PROVE  /\ Charged \in Seq(Frame)
         /\ Alike(stack, Charged)
         /\ \A i \in 1..Len(stack) : ~RunAt(stack, i) => Charged[i] = stack[i]
<1>0. stack \in Seq(Frame)
  BY DEF TypeOK, Frame
<1>1. CASE ~InBody
  BY <1>0, <1>1 DEF Charged, Alike, RunAt
<1>2. CASE InBody
  <2>1. /\ Below \in Seq(Frame) /\ Top \in Frame
        /\ Len(Below) = Len(stack) - 1 /\ Len(stack) \in Nat \ {0}
        /\ \A i \in 1..(Len(stack) - 1) : Below[i] = stack[i]
    BY <1>0, <1>2, FrontFrames DEF InBody, Below, Top
  <2> DEFINE f == [Top EXCEPT !.left = @ - 1]
  <2>2. Top \in RunFrame /\ Top.left > 0 /\ Top.kind = "run"
    BY <1>2, <2>1, FrameKinds DEF InBody
  <2>3. f \in RunFrame /\ f.kind = "run" /\ f.e = Top.e /\ f.prev = Top.prev
    BY <2>2, SignalsAssumption DEF RunFrame
  <2>4. f \in Frame
    BY <2>3 DEF Frame
  <2>5. Charged = Append(Below, f)
    BY <1>2 DEF Charged
  <2> HIDE DEF f
  <2>6. /\ Charged \in Seq(Frame) /\ Len(Charged) = Len(stack)
        /\ Charged[Len(stack)] = f
        /\ \A i \in 1..(Len(stack) - 1) : Charged[i] = stack[i]
    BY <2>1, <2>4, <2>5
  <2>7. \A i \in 1..Len(stack) : i = Len(stack) \/ i \in 1..(Len(stack) - 1)
    BY <2>1
  <2>8. stack[Len(stack)] = Top
    BY DEF Top
  <2> QED
    BY <2>2, <2>3, <2>6, <2>7, <2>8 DEF Alike, RunAt
<1> QED
  BY <1>1, <1>2

\* A Set that has run one of its subscribers, or passed it over, is the same call.
LEMMA TodoStack ==
  ASSUME TypeOK, stack # <<>>, Top.kind = "set", NEW e \in Effect
  PROVE  LET under == Append(Below, [Top EXCEPT !.todo = @ \ {e}])
         IN  /\ under \in Seq(Frame)
             /\ Alike(stack, under)
             /\ \A i \in 1..Len(stack) :
                  stack[i].kind = "set" =>
                    under[i].todo = IF i = Len(stack) THEN stack[i].todo \ {e} ELSE stack[i].todo
<1> DEFINE f == [Top EXCEPT !.todo = @ \ {e}]
           under == Append(Below, f)
<1>0. stack \in Seq(Frame)
  BY DEF TypeOK, Frame
<1>1. /\ Below \in Seq(Frame) /\ Top \in Frame
      /\ Len(Below) = Len(stack) - 1 /\ Len(stack) \in Nat \ {0}
      /\ \A i \in 1..(Len(stack) - 1) : Below[i] = stack[i]
  BY <1>0, FrontFrames DEF Below, Top
<1>5. Top \in SetFrame
  BY <1>1, FrameKinds
<1>6. f \in SetFrame /\ f.kind = "set" /\ f.todo = Top.todo \ {e}
  BY <1>5 DEF SetFrame
<1>7. f \in Frame
  BY <1>6 DEF Frame
<1> HIDE DEF f
<1>8. under \in Seq(Frame) /\ Len(under) = Len(stack)
  BY <1>1, <1>7
<1>9. under[Len(stack)] = f
  BY <1>1, <1>7
<1>10. \A i \in 1..(Len(stack) - 1) : under[i] = stack[i]
  BY <1>1, <1>7
<1>11. \A i \in 1..Len(stack) : i = Len(stack) \/ i \in 1..(Len(stack) - 1)
  BY <1>1
<1>12. stack[Len(stack)] = Top
  BY DEF Top
<1> HIDE DEF under
<1>13. Alike(stack, under)
  BY <1>5, <1>6, <1>8, <1>9, <1>10, <1>11, <1>12 DEF Alike, RunAt, SetFrame
<1>14. \A i \in 1..Len(stack) :
         stack[i].kind = "set" =>
           under[i].todo = IF i = Len(stack) THEN stack[i].todo \ {e} ELSE stack[i].todo
  BY <1>1, <1>6, <1>9, <1>10, <1>11, <1>12
<1> QED
  BY <1>8, <1>13, <1>14 DEF under, f

\* The effects on the stack are those the stack holds, and those marked running.
LEMMA OnStackHeld ==
  ASSUME TypeOK, Nested
  PROVE  \A e \in Effect : (e \in OnStack <=> Holds(stack, e)) /\ (e \in OnStack <=> effect[e].running)
<1>1. DOMAIN stack = 1..Len(stack)
  BY DEF TypeOK
<1>2. \A e \in Effect : e \in OnStack <=> Holds(stack, e)
  BY <1>1 DEF OnStack, Holds, RunAt
<1> QED
  BY <1>2 DEF Nested

\* The body that runs is that of the current effect.
LEMMA BodyRuns ==
  ASSUME TypeOK, Nested, InBody
  PROVE  Top.e \in Effect /\ Top \in RunFrame /\ current = Top.e
<1>1. Len(stack) \in Nat \ {0} /\ stack[Len(stack)] \in Frame
  BY DEF TypeOK, Frame, InBody
<1>2. RunAt(stack, Len(stack))
  BY DEF InBody, Top, RunAt
<1>3. Top \in RunFrame
  BY <1>1, <1>2, FrameKinds DEF Top, RunAt
<1>4. RunBelow(stack, Len(stack) + 1) = Top.e
  BY <1>1, <1>2 DEF RunBelow, Top
<1> QED
  BY <1>3, <1>4 DEF Nested, RunFrame

-----------------------------------------------------------------------------
LEMMA TypeInit == Init => TypeOK
  BY DEF Init, TypeOK, EffectRecord, Blank

LEMMA TypeGet ==
  ASSUME TypeOK, Nested, NEW s \in Signal, Get(s)
  PROVE  TypeOK'
<1>1. Top.e \in Effect /\ current = Top.e
  BY BodyRuns DEF Get
<1>2. subs' \in [Signal -> SUBSET Effect]
  BY <1>1 DEF Get, TypeOK
<1>3. effect' \in [Effect -> EffectRecord]
  <2>1. effect' = effect \/ effect' = [effect EXCEPT ![current].deps = @ \cup {s}]
    BY DEF Get
  <2>2. effect \in [Effect -> EffectRecord]
    BY DEF TypeOK
  <2> QED
    BY <1>1, <2>1, <2>2 DEF EffectRecord
<1>4. saw' \in [Effect -> [Signal -> Value \cup {Unread}]]
  BY <1>1 DEF Get, TypeOK
<1>5. stack' \in Seq(SetFrame \cup RunFrame)
  BY ChargedStack DEF Get, Frame
<1> QED
  BY <1>2, <1>3, <1>4, <1>5 DEF Get, TypeOK

LEMMA TypeSet ==
  ASSUME TypeOK, Nested, NEW s \in Signal, NEW v \in Value, Set(s, v)
  PROVE  TypeOK'
<1>1. value' \in [Signal -> Value]
  BY DEF Set, TypeOK
<1>2. [kind |-> "set", todo |-> Listeners(s)] \in SetFrame
  BY DEF Listeners, SetFrame, TypeOK
<1>3. stack' \in Seq(SetFrame \cup RunFrame)
  BY <1>2, ChargedStack DEF Set, Frame
<1>4. excused' \subseteq Effect
  <2>1. OnStack \subseteq Effect
    BY DEF TypeOK, OnStack, RunFrame, SetFrame
  <2> QED
    BY <2>1 DEF Set, TypeOK
<1> QED
  BY <1>1, <1>3, <1>4 DEF Set, TypeOK

LEMMA TypeEnter ==
  ASSUME TypeOK, NEW e \in Effect, NEW under \in Seq(Frame), NEW first \in BOOLEAN,
         Enter(e, under, first)
  PROVE  TypeOK'
<1>1. subs' \in [Signal -> SUBSET Effect]
  BY DEF Enter, Unsubscribed, TypeOK
<1>2. effect' \in [Effect -> EffectRecord]
  <2>1. effect' = [effect EXCEPT ![e].made = TRUE, ![e].running = TRUE, ![e].deps = {}]
    BY DEF Enter
  <2>2. effect \in [Effect -> EffectRecord]
    BY DEF TypeOK
  <2> QED
    BY <2>1, <2>2 DEF EffectRecord
<1>3. [kind |-> "run", e |-> e, prev |-> current, first |-> first, left |-> BodyLength] \in RunFrame
  BY SignalsAssumption DEF RunFrame, TypeOK
<1>4. stack' \in Seq(SetFrame \cup RunFrame)
  BY <1>3 DEF Enter, Frame
<1>5. saw' \in [Effect -> [Signal -> Value \cup {Unread}]]
  BY DEF Enter, TypeOK, Blank
<1> QED
  BY <1>1, <1>2, <1>4, <1>5 DEF Enter, TypeOK

LEMMA TypeEnds ==
  ASSUME TypeOK, Return \/ Panic \/ SetReturns
  PROVE  TypeOK'
<1>1. Below \in Seq(SetFrame \cup RunFrame) /\ Top \in Frame
  BY DEF Below, Top, TypeOK, Return, Panic, SetReturns, Frame
<1>2. CASE Return
  <2>1. Top \in RunFrame
    BY <1>1, <1>2, FrameKinds DEF Return
  <2>2. Top.e \in Effect
    BY <2>1 DEF RunFrame
  <2>4. Top.prev \in Effect \cup {NoEffect}
    BY <2>1 DEF RunFrame
  <2>3. effect' \in [Effect -> EffectRecord]
    <3>1. effect' = [effect EXCEPT ![Top.e].running = FALSE, ![Top.e].handed = @ \/ Top.first]
      BY <1>2 DEF Return
    <3>2. effect \in [Effect -> EffectRecord]
      BY DEF TypeOK
    <3> QED
      BY <2>2, <3>1, <3>2 DEF EffectRecord
  <2> QED
    BY <1>1, <1>2, <2>3, <2>4 DEF Return, Restored, TypeOK
<1>3. CASE Panic
  <2>1. effect' \in [Effect -> EffectRecord]
    BY <1>3 DEF Panic, Unwound, TypeOK, EffectRecord
  <2>2. current' \in Effect \cup {NoEffect}
    <3>1. PICK i \in DOMAIN stack : stack[i].kind = "run" /\ current' = Restored(stack[i])
      BY <1>3 DEF Panic
    <3>2. stack[i] \in RunFrame
      BY <3>1, FrameKinds DEF TypeOK, Frame
    <3> QED
      BY <3>1, <3>2 DEF Restored, RunFrame
  <2>3. excused' \subseteq Effect
    <3>1. \A i \in {j \in DOMAIN stack : stack[j].kind = "set"} : stack[i].todo \subseteq Effect
      BY FrameKinds DEF TypeOK, Frame, SetFrame, RunFrame
    <3> QED
      BY <1>3, <3>1 DEF Panic, TypeOK
  <2> QED
    BY <1>3, <2>1, <2>2, <2>3 DEF Panic, TypeOK
<1>4. CASE SetReturns
  BY <1>1, <1>4 DEF SetReturns, TypeOK
<1> QED
  BY <1>2, <1>3, <1>4

LEMMA TypeDispose ==
  ASSUME TypeOK, NEW e \in Effect, Dispose(e)
  PROVE  TypeOK'
<1>1. subs' \in [Signal -> SUBSET Effect]
  BY DEF Dispose, Unsubscribed, TypeOK
<1>2. effect' \in [Effect -> EffectRecord]
  BY DEF Dispose, TypeOK, EffectRecord
<1>3. stack' \in Seq(SetFrame \cup RunFrame)
  BY ChargedStack DEF Dispose, Frame
<1> QED
  BY <1>1, <1>2, <1>3 DEF Dispose, TypeOK

-----------------------------------------------------------------------------
LEMMA NestedInit == Init => Nested
  BY DEF Init, Nested, Nests, RunBelow, Holds

\* Steps that push and pop nothing.
LEMMA NestedAlike ==
  ASSUME TypeOK, Nested, stack' \in Seq(Frame), Alike(stack, stack'), current' = current,
         \A e \in Effect : effect'[e].running = effect[e].running
  PROVE  Nested'
<1>1. stack \in Seq(Frame)
  BY DEF TypeOK, Frame
<1>2. /\ Nests(stack')
      /\ RunBelow(stack', Len(stack') + 1) = RunBelow(stack, Len(stack) + 1)
      /\ \A e \in Effect : Holds(stack', e) <=> Holds(stack, e)
  BY <1>1, AlikeNests DEF Nested
<1> QED
  BY <1>2 DEF Nested

\* What Charged or the passing over of a subscriber leaves of the stack.
LEMMA NestedUnder ==
  ASSUME TypeOK, Nested, NEW S \in Seq(Frame), Alike(stack, S)
  PROVE  /\ Nests(S)
         /\ current = RunBelow(S, Len(S) + 1)
         /\ \A e \in Effect : effect[e].running <=> Holds(S, e)
<1>1. stack \in Seq(Frame)
  BY DEF TypeOK, Frame
<1>2. /\ Nests(S)
      /\ RunBelow(S, Len(S) + 1) = RunBelow(stack, Len(stack) + 1)
      /\ \A e \in Effect : Holds(S, e) <=> Holds(stack, e)
  BY <1>1, AlikeNests DEF Nested
<1> QED
  BY <1>2 DEF Nested

LEMMA NestedSet ==
  ASSUME TypeOK, Nested, NEW s \in Signal, NEW v \in Value, Set(s, v)
  PROVE  Nested'
<1> DEFINE f == [kind |-> "set", todo |-> Listeners(s)]
<1>1. f \in SetFrame
  BY DEF Listeners, SetFrame, TypeOK
<1>2. stack' = Append(Charged, f) /\ current' = current /\ effect' = effect
  BY DEF Set
<1>3. /\ Charged \in Seq(Frame) /\ Nests(Charged)
      /\ current = RunBelow(Charged, Len(Charged) + 1)
      /\ \A e \in Effect : effect[e].running <=> Holds(Charged, e)
  BY ChargedStack, NestedUnder
<1>4. Charged = <<>> \/ RunAt(Charged, Len(Charged))
  <2>1. CASE stack = <<>>
    BY <2>1 DEF Charged, InBody
  <2>2. CASE InBody
    <3>1. Len(stack) \in Nat /\ Len(stack) > 0
      BY <2>2 DEF TypeOK, InBody
    <3>2. Len(stack) \in 1..Len(stack)
      BY <3>1
    <3>3. RunAt(stack, Len(stack))
      BY <2>2 DEF InBody, Top, RunAt
    <3> QED
      BY <3>2, <3>3, ChargedStack DEF Alike, RunAt
  <2> QED
    BY <2>1, <2>2 DEF Set, Program
<1> HIDE DEF f
<1>5. /\ Nests(stack')
      /\ RunBelow(stack', Len(stack') + 1) = RunBelow(Charged, Len(Charged) + 1)
      /\ \A e \in Effect : Holds(stack', e) <=> Holds(Charged, e)
  BY <1>1, <1>2, <1>3, <1>4, PushSet
<1> QED
  BY <1>2, <1>3, <1>5 DEF Nested

LEMMA NestedEnter ==
  ASSUME TypeOK, Nested, NEW e \in Effect, ~effect[e].running,
         NEW under \in Seq(Frame), Alike(stack, under), NEW first \in BOOLEAN,
         Enter(e, under, first)
  PROVE  Nested'
<1> DEFINE f == [kind |-> "run", e |-> e, prev |-> current, first |-> first, left |-> BodyLength]
<1>1. f \in RunFrame /\ f.e = e /\ f.prev = current
  BY SignalsAssumption DEF RunFrame, TypeOK
<1>2. stack' = Append(under, f) /\ current' = e
  BY DEF Enter
<1>3. \A d \in Effect : effect'[d].running <=> d = e \/ effect[d].running
  <2>1. effect' = [effect EXCEPT ![e].made = TRUE, ![e].running = TRUE, ![e].deps = {}]
    BY DEF Enter
  <2>2. effect \in [Effect -> EffectRecord]
    BY DEF TypeOK
  <2> QED
    BY <2>1, <2>2 DEF EffectRecord
<1>4. /\ Nests(under)
      /\ current = RunBelow(under, Len(under) + 1)
      /\ \A d \in Effect : effect[d].running <=> Holds(under, d)
  BY NestedUnder
<1> HIDE DEF f
<1>5. /\ Nests(stack')
      /\ RunBelow(stack', Len(stack') + 1) = f.e
      /\ \A d \in Effect : Holds(stack', d) <=> d = f.e \/ Holds(under, d)
  BY <1>1, <1>2, <1>4, PushRun
<1> QED
  BY <1>1, <1>2, <1>3, <1>4, <1>5 DEF Nested

LEMMA NestedReturn ==
  ASSUME TypeOK, Nested, Return
  PROVE  Nested'
<1>0. stack \in Seq(Frame) /\ stack # <<>> /\ RunAt(stack, Len(stack))
  BY DEF TypeOK, Frame, Return, Top, RunAt
<1>1. /\ Top \in Frame
      /\ Nests(Below)
      /\ RunBelow(Below, Len(Below) + 1) = Top.prev
      /\ \A e \in Effect : Holds(Below, e) <=> e # Top.e /\ Holds(stack, e)
  BY <1>0, PopTop DEF Nested, Top, Below
<1>2. stack' = Below /\ current' = Top.prev
  BY DEF Return, Restored
<1>3. Top.e \in Effect
  BY <1>1, FrameKinds DEF Return, RunFrame
<1>4. \A e \in Effect : effect'[e].running <=> e # Top.e /\ effect[e].running
  <2>1. effect' = [effect EXCEPT ![Top.e].running = FALSE, ![Top.e].handed = @ \/ Top.first]
    BY DEF Return
  <2>2. effect \in [Effect -> EffectRecord]
    BY DEF TypeOK
  <2> QED
    BY <1>3, <2>1, <2>2 DEF EffectRecord
<1> QED
  BY <1>1, <1>2, <1>4 DEF Nested

LEMMA NestedSetReturns ==
  ASSUME TypeOK, Nested, SetReturns
  PROVE  Nested'
<1>0. stack \in Seq(Frame) /\ stack # <<>> /\ ~RunAt(stack, Len(stack))
  BY DEF TypeOK, Frame, SetReturns, Top, RunAt
<1>1. /\ Nests(Below)
      /\ RunBelow(Below, Len(Below) + 1) = RunBelow(stack, Len(stack) + 1)
      /\ \A e \in Effect : Holds(Below, e) <=> Holds(stack, e)
  BY <1>0, PopTop DEF Nested, Below
<1> QED
  BY <1>1 DEF Nested, SetReturns

\* A panic: the deferred function of the outermost run is the last one to set current.
LEMMA NestedPanic ==
  ASSUME TypeOK, Nested, Panic
  PROVE  Nested'
<1>1. stack \in Seq(Frame) /\ DOMAIN stack = 1..Len(stack) /\ Len(stack) \in Nat
  BY DEF TypeOK, Frame
<1>2. current' = NoEffect
  <2>1. PICK i \in 1..Len(stack) :
          /\ stack[i].kind = "run" /\ \A j \in 1..(i - 1) : stack[j].kind # "run"
          /\ current' = Restored(stack[i])
    BY <1>1 DEF Panic
  <2>2. current' = RunBelow(stack, i)
    BY <2>1 DEF Restored, Nested, Nests, RunAt
  <2>3. CASE i = 1
    BY <2>2, <2>3 DEF RunBelow
  <2>4. CASE i = 2
    <3>1. ~RunAt(stack, 1)
      BY <2>1, <2>4 DEF RunAt
    <3> QED
      BY <2>2, <2>4, <3>1 DEF RunBelow
  <2>5. CASE i > 2
    <3>1. i - 1 \in 2..Len(stack) /\ i - 1 \in 1..(i - 1) /\ (i - 1) - 1 \in 1..(i - 1)
      BY <1>1, <2>1, <2>5
    <3>2. ~RunAt(stack, i - 1) /\ ~RunAt(stack, (i - 1) - 1)
      BY <2>1, <3>1 DEF RunAt
    <3> QED
      BY <3>1, <3>2 DEF Nested, Nests
  <2> QED
    BY <1>1, <2>1, <2>3, <2>4, <2>5
<1>3. \A e \in Effect : ~effect'[e].running
  <2>1. effect' = [e \in Effect |-> IF e \in OnStack THEN [effect[e] EXCEPT !.running = FALSE] ELSE effect[e]]
    BY DEF Panic, Unwound
  <2>2. effect \in [Effect -> EffectRecord]
    BY DEF TypeOK
  <2> QED
    BY <2>1, <2>2, OnStackHeld DEF EffectRecord
<1>4. stack' = <<>>
  BY DEF Panic
<1> QED
  BY <1>2, <1>3, <1>4 DEF Nested, Nests, RunBelow, Holds

\* Only effects that have been made run.
Shape ==
  /\ TypeOK
  /\ Nested
  /\ \A e \in Effect : effect[e].running => effect[e].made

\* What the next subscriber of a Set does: it is passed over, or it runs.
LEMMA RunNextCases ==
  ASSUME TypeOK, NEW e \in Effect, RunNext(e)
  PROVE  \E under \in Seq(Frame) :
           /\ Alike(stack, under)
           /\ \A i \in 1..Len(stack) :
                stack[i].kind = "set" =>
                  under[i].todo = IF i = Len(stack) THEN stack[i].todo \ {e} ELSE stack[i].todo
           /\ \/ /\ effect[e].disposed \/ effect[e].running
                 /\ stack' = under
                 /\ UNCHANGED <<value, subs, effect, current, saw, excused>>
              \/ /\ ~effect[e].disposed /\ ~effect[e].running
                 /\ Enter(e, under, FALSE)
<1> DEFINE under == Append(Below, [Top EXCEPT !.todo = @ \ {e}])
<1>1. /\ under \in Seq(Frame)
      /\ Alike(stack, under)
      /\ \A i \in 1..Len(stack) :
           stack[i].kind = "set" =>
             under[i].todo = IF i = Len(stack) THEN stack[i].todo \ {e} ELSE stack[i].todo
  BY TodoStack DEF RunNext
<1>2. \/ /\ effect[e].disposed \/ effect[e].running
         /\ stack' = under
         /\ UNCHANGED <<value, subs, effect, current, saw, excused>>
      \/ /\ ~effect[e].disposed /\ ~effect[e].running
         /\ Enter(e, under, FALSE)
  BY DEF RunNext
<1> HIDE DEF under
<1> QED
  BY <1>1, <1>2

\* Which effects a step makes, starts and ends; nothing else of them matters to Shape.
LEMMA EffectsRunning ==
  ASSUME TypeOK, [Next]_vars
  PROVE  \A d \in Effect :
           /\ effect[d].made => effect'[d].made
           /\ effect'[d].running => effect[d].running \/ effect'[d].made
<1>0. effect \in [Effect -> EffectRecord]
  BY DEF TypeOK
<1>1. ASSUME NEW e \in Effect, NEW under, NEW first, Enter(e, under, first)
      PROVE  \A d \in Effect :
               /\ effect[d].made => effect'[d].made
               /\ effect'[d].running => effect[d].running \/ effect'[d].made
  <2>1. effect' = [effect EXCEPT ![e].made = TRUE, ![e].running = TRUE, ![e].deps = {}]
    BY <1>1 DEF Enter
  <2> QED
    BY <1>0, <2>1 DEF EffectRecord
<1>2. CASE \E s \in Signal : Get(s)
  <2>1. PICK s \in Signal : effect' = effect \/ effect' = [effect EXCEPT ![current].deps = @ \cup {s}]
    BY <1>2 DEF Get
  <2> QED
    BY <1>0, <2>1 DEF EffectRecord
<1>3. CASE \E s \in Signal, v \in Value : Set(s, v)
  BY <1>3 DEF Set
<1>4. CASE SetReturns
  BY <1>4 DEF SetReturns
<1>5. CASE \E e \in Effect : NewEffect(e)
  BY <1>1, <1>5 DEF NewEffect
<1>6. CASE \E e \in Effect : RunNext(e)
  BY <1>1, <1>6, RunNextCases
<1>7. CASE \E e \in Effect : Dispose(e)
  <2>1. PICK e \in Effect : effect' = [effect EXCEPT ![e].disposed = TRUE, ![e].deps = {}]
    BY <1>7 DEF Dispose
  <2> QED
    BY <1>0, <2>1 DEF EffectRecord
<1>8. CASE Return
  <2>1. effect' = [effect EXCEPT ![Top.e].running = FALSE, ![Top.e].handed = @ \/ Top.first]
    BY <1>8 DEF Return
  <2> QED
    BY <1>0, <2>1 DEF EffectRecord
<1>9. CASE Panic
  <2>1. effect' = [e \in Effect |-> IF e \in OnStack THEN [effect[e] EXCEPT !.running = FALSE] ELSE effect[e]]
    BY <1>9 DEF Panic, Unwound
  <2> QED
    BY <1>0, <2>1 DEF EffectRecord
<1>10. CASE UNCHANGED vars
  BY <1>10 DEF vars
<1> QED
  BY <1>2, <1>3, <1>4, <1>5, <1>6, <1>7, <1>8, <1>9, <1>10 DEF Next

LEMMA ShapeInit == Init => Shape
  BY TypeInit, NestedInit DEF Shape, Init

LEMMA ShapeNext ==
  ASSUME Shape, [Next]_vars
  PROVE  Shape'
<1>0. TypeOK /\ Nested /\ \A e \in Effect : effect[e].running => effect[e].made
  BY DEF Shape
<1>1. ASSUME NEW e \in Effect, ~effect[e].running, NEW under \in Seq(Frame), Alike(stack, under),
             NEW first \in BOOLEAN, Enter(e, under, first)
      PROVE  TypeOK' /\ Nested'
  BY <1>0, <1>1, TypeEnter, NestedEnter
<1>2. ASSUME NEW s \in Signal, Get(s)
      PROVE  TypeOK' /\ Nested'
  <2>1. TypeOK'
    BY <1>0, <1>2, TypeGet
  <2>2. stack' = Charged /\ current' = current
    BY <1>2 DEF Get
  <2>3. \A d \in Effect : effect'[d].running = effect[d].running
    <3>1. effect' = effect \/ effect' = [effect EXCEPT ![current].deps = @ \cup {s}]
      BY <1>2 DEF Get
    <3>2. effect \in [Effect -> EffectRecord]
      BY <1>0 DEF TypeOK
    <3> QED
      BY <3>1, <3>2 DEF EffectRecord
  <2>4. Nested'
    BY <1>0, <2>2, <2>3, ChargedStack, NestedAlike
  <2> QED
    BY <2>1, <2>4
<1>3. ASSUME NEW s \in Signal, NEW v \in Value, Set(s, v)
      PROVE  TypeOK' /\ Nested'
  BY <1>0, <1>3, TypeSet, NestedSet
<1>4. ASSUME SetReturns
      PROVE  TypeOK' /\ Nested'
  BY <1>0, <1>4, TypeEnds, NestedSetReturns
<1>5. ASSUME NEW e \in Effect, NewEffect(e)
      PROVE  TypeOK' /\ Nested'
  <2>1. ~effect[e].running /\ Enter(e, Charged, TRUE)
    BY <1>0, <1>5 DEF NewEffect
  <2> QED
    BY <1>0, <1>1, <2>1, ChargedStack
<1>6. ASSUME NEW e \in Effect, RunNext(e)
      PROVE  TypeOK' /\ Nested'
  <2>1. PICK under \in Seq(Frame) :
          /\ Alike(stack, under)
          /\ \/ /\ stack' = under
                /\ UNCHANGED <<value, subs, effect, current, saw, excused>>
             \/ /\ ~effect[e].disposed /\ ~effect[e].running
                /\ Enter(e, under, FALSE)
    BY <1>0, <1>6, RunNextCases
  <2>2. CASE Enter(e, under, FALSE) /\ ~effect[e].running
    BY <1>1, <2>1, <2>2
  <2>3. CASE stack' = under /\ UNCHANGED <<value, subs, effect, current, saw, excused>>
    <3>1. TypeOK'
      BY <1>0, <2>3 DEF TypeOK, Frame
    <3>2. Nested'
      BY <1>0, <2>1, <2>3, NestedAlike
    <3> QED
      BY <3>1, <3>2
  <2> QED
    BY <2>1, <2>2, <2>3
<1>7. ASSUME NEW e \in Effect, Dispose(e)
      PROVE  TypeOK' /\ Nested'
  <2>1. TypeOK'
    BY <1>0, <1>7, TypeDispose
  <2>2. stack' = Charged /\ current' = current
    BY <1>7 DEF Dispose
  <2>3. \A d \in Effect : effect'[d].running = effect[d].running
    <3>1. effect' = [effect EXCEPT ![e].disposed = TRUE, ![e].deps = {}]
      BY <1>7 DEF Dispose
    <3>2. effect \in [Effect -> EffectRecord]
      BY <1>0 DEF TypeOK
    <3> QED
      BY <3>1, <3>2 DEF EffectRecord
  <2>4. Nested'
    BY <1>0, <2>2, <2>3, ChargedStack, NestedAlike
  <2> QED
    BY <2>1, <2>4
<1>8. ASSUME Return
      PROVE  TypeOK' /\ Nested'
  BY <1>0, <1>8, TypeEnds, NestedReturn
<1>9. ASSUME Panic
      PROVE  TypeOK' /\ Nested'
  BY <1>0, <1>9, TypeEnds, NestedPanic
<1>10. ASSUME UNCHANGED vars
      PROVE  TypeOK' /\ Nested'
  BY <1>0, <1>10 DEF vars, TypeOK, Nested
<1>11. TypeOK' /\ Nested'
  BY <1>2, <1>3, <1>4, <1>5, <1>6, <1>7, <1>8, <1>9, <1>10 DEF Next
<1>12. \A e \in Effect : effect'[e].running => effect'[e].made
  BY <1>0, EffectsRunning
<1> QED
  BY <1>11, <1>12 DEF Shape

(***************************************************************************)
(* Signals, effects and the calls under way keep their types: only effects  *)
(* subscribe, and what run restores as current is an effect or nobody.      *)
(***************************************************************************)
THEOREM TypeCorrect == Spec => []TypeOK
<1>1. Shape => TypeOK
  BY DEF Shape
<1> QED
  BY ShapeInit, ShapeNext, <1>1, PTL DEF Spec

(***************************************************************************)
(* However runs nest, return and panic, once all calls are over no effect   *)
(* is marked running and none is current (the deferred function of run).    *)
(***************************************************************************)
THEOREM AlwaysSettled == Spec => []Settled
<1>1. Shape => Settled
  <2> SUFFICES ASSUME Shape, stack = <<>>
               PROVE  current = NoEffect /\ \A e \in Effect : ~effect[e].running
    BY DEF Settled
  <2>1. Len(stack) = 0
    OBVIOUS
  <2> QED
    BY <2>1 DEF Shape, Nested, RunBelow, Holds
<1> QED
  BY ShapeInit, ShapeNext, <1>1, PTL DEF Spec

-----------------------------------------------------------------------------
(***************************************************************************)
(* Reads are attributed to the effect whose body makes them: current is    *)
(* the effect of the innermost frame whenever a body runs.                 *)
(***************************************************************************)
Attributed == Shape /\ ReadsTracked

LEMMA AttributedInit == Init => Attributed
  BY ShapeInit DEF Attributed, ReadsTracked, Init, Blank

\* Steps that leave what an effect depends on, and what it has read, alone.
LEMMA ReadsUntouched ==
  ASSUME ReadsTracked, saw' = saw,
         \A e \in Effect : /\ effect'[e].disposed = effect[e].disposed
                           /\ effect'[e].deps = effect[e].deps
  PROVE  ReadsTracked'
  BY DEF ReadsTracked

LEMMA ReadsEnter ==
  ASSUME TypeOK, ReadsTracked, NEW e \in Effect, NEW under, NEW first, Enter(e, under, first)
  PROVE  ReadsTracked'
<1>1. effect' = [effect EXCEPT ![e].made = TRUE, ![e].running = TRUE, ![e].deps = {}]
  BY DEF Enter
<1>2. effect \in [Effect -> EffectRecord] /\ saw \in [Effect -> [Signal -> Value \cup {Unread}]]
  BY DEF TypeOK
<1>3. saw' = [saw EXCEPT ![e] = Blank]
  BY DEF Enter
<1>4. \A d \in Effect \ {e} : effect'[d] = effect[d] /\ saw'[d] = saw[d]
  BY <1>1, <1>2, <1>3
<1>5. effect'[e].deps = {} /\ saw'[e] = Blank
  BY <1>1, <1>2, <1>3 DEF EffectRecord
<1> QED
  BY <1>4, <1>5 DEF ReadsTracked, Blank

LEMMA AttributedNext ==
  ASSUME Attributed, [Next]_vars
  PROVE  Attributed'
<1>0. TypeOK /\ Nested /\ ReadsTracked
  BY DEF Attributed, Shape
<1>1. effect \in [Effect -> EffectRecord] /\ saw \in [Effect -> [Signal -> Value \cup {Unread}]]
      /\ value \in [Signal -> Value]
  BY <1>0 DEF TypeOK
<1>2. ASSUME NEW s \in Signal, Get(s)
      PROVE  ReadsTracked'
  <2>1. Top.e \in Effect /\ current = Top.e /\ current # NoEffect
    BY <1>0, <1>2, BodyRuns, SignalsAssumption DEF Get
  <2>2. saw' = [saw EXCEPT ![current][s] = value[s]]
    BY <1>2, <2>1 DEF Get
  <2>3. value[s] # Unread
    BY <1>1, SignalsAssumption
  <2>4. \A e \in Effect \ {current} : effect'[e] = effect[e] /\ saw'[e] = saw[e]
    <3>1. effect' = effect \/ effect' = [effect EXCEPT ![current].deps = @ \cup {s}]
      BY <1>2 DEF Get
    <3> QED
      BY <1>1, <2>1, <2>2, <3>1
  <2>5. CASE effect[current].disposed
    <3>1. effect' = effect
      BY <1>2, <2>5 DEF Get, Tracks
    <3> QED
      BY <1>0, <2>1, <2>4, <2>5, <3>1 DEF ReadsTracked
  <2>6. CASE ~effect[current].disposed
    <3>1. effect' = [effect EXCEPT ![current].deps = @ \cup {s}]
      BY <1>2, <2>1, <2>6 DEF Get, Tracks
    <3>2. effect'[current].deps = effect[current].deps \cup {s}
      BY <1>1, <2>1, <3>1 DEF EffectRecord
    <3>3. \A t \in Signal : saw'[current][t] = IF t = s THEN value[s] ELSE saw[current][t]
      BY <1>1, <2>1, <2>2
    <3>4. effect[current].deps = {t \in Signal : saw[current][t] # Unread}
      BY <1>0, <2>1, <2>6 DEF ReadsTracked
    <3>5. effect'[current].deps = {t \in Signal : saw'[current][t] # Unread}
      BY <2>3, <3>2, <3>3, <3>4
    <3> QED
      BY <1>0, <2>4, <3>5 DEF ReadsTracked
  <2> QED
    BY <2>5, <2>6
<1>3. ASSUME NEW s \in Signal, NEW v \in Value, Set(s, v)
      PROVE  ReadsTracked'
  BY <1>0, <1>3, ReadsUntouched DEF Set
<1>4. ASSUME SetReturns
      PROVE  ReadsTracked'
  BY <1>0, <1>4, ReadsUntouched DEF SetReturns
<1>5. ASSUME NEW e \in Effect, NewEffect(e)
      PROVE  ReadsTracked'
  BY <1>0, <1>5, ReadsEnter DEF NewEffect
<1>6. ASSUME NEW e \in Effect, RunNext(e)
      PROVE  ReadsTracked'
  <2>1. PICK under \in Seq(Frame) :
          UNCHANGED <<effect, saw>> \/ Enter(e, under, FALSE)
    BY <1>0, <1>6, RunNextCases
  <2>2. CASE Enter(e, under, FALSE)
    BY <1>0, <2>2, ReadsEnter
  <2>3. CASE UNCHANGED <<effect, saw>>
    BY <1>0, <2>3, ReadsUntouched
  <2> QED
    BY <2>1, <2>2, <2>3
<1>7. ASSUME NEW e \in Effect, Dispose(e)
      PROVE  ReadsTracked'
  <2>1. effect' = [effect EXCEPT ![e].disposed = TRUE, ![e].deps = {}] /\ saw' = saw
    BY <1>7 DEF Dispose
  <2>2. effect'[e].disposed /\ \A d \in Effect \ {e} : effect'[d] = effect[d]
    BY <1>1, <2>1 DEF EffectRecord
  <2> QED
    BY <1>0, <2>1, <2>2 DEF ReadsTracked
<1>8. ASSUME Return
      PROVE  ReadsTracked'
  <2>1. effect' = [effect EXCEPT ![Top.e].running = FALSE, ![Top.e].handed = @ \/ Top.first] /\ saw' = saw
    BY <1>8 DEF Return
  <2>2. \A e \in Effect : effect'[e].disposed = effect[e].disposed /\ effect'[e].deps = effect[e].deps
    BY <1>1, <2>1 DEF EffectRecord
  <2> QED
    BY <1>0, <2>1, <2>2, ReadsUntouched
<1>9. ASSUME Panic
      PROVE  ReadsTracked'
  <2>1. effect' = Unwound /\ saw' = saw
    BY <1>9 DEF Panic
  <2>2. \A e \in Effect : effect'[e].disposed = effect[e].disposed /\ effect'[e].deps = effect[e].deps
    BY <1>1, <2>1 DEF EffectRecord, Unwound
  <2> QED
    BY <1>0, <2>1, <2>2, ReadsUntouched
<1>10. ASSUME UNCHANGED vars
       PROVE  ReadsTracked'
  BY <1>0, <1>10 DEF vars, ReadsTracked
<1>11. ReadsTracked'
  BY <1>2, <1>3, <1>4, <1>5, <1>6, <1>7, <1>8, <1>9, <1>10 DEF Next
<1>12. Shape'
  BY ShapeNext DEF Attributed
<1> QED
  BY <1>11, <1>12 DEF Attributed

(***************************************************************************)
(* A living effect depends on exactly what its last run has read, whatever  *)
(* was made, run or disposed of in the middle of that run (Get, run).       *)
(***************************************************************************)
THEOREM AlwaysTracked == Spec => []ReadsTracked
<1>1. Attributed => ReadsTracked
  BY DEF Attributed
<1> QED
  BY AttributedInit, AttributedNext, <1>1, PTL DEF Spec

-----------------------------------------------------------------------------
(***************************************************************************)
(* A subscriber that a Set passes over is running already, and what it has  *)
(* read so far is current, or it had read what its own run has set.         *)
(***************************************************************************)
FreshOnStack ==
  \A e \in Effect \ excused, s \in Signal :
    effect[e].running /\ ~effect[e].disposed => saw[e][s] \in {Unread, value[s]}

Owed(S, e) == \E i \in 1..Len(S) : S[i].kind = "set" /\ e \in S[i].todo

\* StaleIsOwed, with the calls under way counted.
Owing ==
  \A e \in Effect \ excused, s \in Signal :
    ~effect[e].disposed /\ saw[e][s] \notin {Unread, value[s]} => Owed(stack, e)

Told == Attributed /\ Linked /\ FreshOnStack /\ Owing

LEMMA ToldInit == Init => Told
  BY AttributedInit, LinkedInit DEF Told, FreshOnStack, Owing, Init, Blank

LEMMA ChargedOwes ==
  ASSUME TypeOK
  PROVE  /\ \A e \in Effect : Owed(stack, e) => Owed(Charged, e)
         /\ \A f \in Frame, e \in Effect : Owed(stack, e) => Owed(Append(Charged, f), e)
<1>1. Charged \in Seq(Frame) /\ Len(Charged) = Len(stack)
  BY ChargedStack DEF Alike
<1>2. \A i \in 1..Len(stack) : stack[i].kind = "set" => Charged[i] = stack[i]
  BY ChargedStack DEF RunAt
<1>3. \A f \in Frame : /\ Len(Append(Charged, f)) = Len(stack) + 1
                       /\ \A i \in 1..Len(stack) : Append(Charged, f)[i] = Charged[i]
  BY <1>1, BelowPushed
<1>4. Len(stack) \in Nat /\ \A n \in Nat : 1..n \subseteq 1..(n + 1)
  BY DEF TypeOK
<1> QED
  BY <1>1, <1>2, <1>3, <1>4 DEF Owed

\* Steps in which nobody reads, starts or is excused, and whoever is owed stays owed.
LEMMA ToldStill ==
  ASSUME Told, value' = value, saw' = saw, excused \subseteq excused',
         \A e \in Effect : /\ effect'[e].running => effect[e].running
                           /\ effect[e].disposed => effect'[e].disposed
         ,
         \A e \in Effect \ excused' : ~effect'[e].disposed /\ Owed(stack, e) => Owed(stack', e)
  PROVE  FreshOnStack' /\ Owing'
<1>1. FreshOnStack'
  BY DEF Told, FreshOnStack
<1>2. Owing'
  BY DEF Told, Owing
<1> QED
  BY <1>1, <1>2

LEMMA ToldEnter ==
  ASSUME Told, NEW e \in Effect, NEW under \in Seq(Frame), NEW first \in BOOLEAN,
         \A d \in Effect \ {e} : Owed(stack, d) => Owed(under, d),
         Enter(e, under, first)
  PROVE  FreshOnStack' /\ Owing'
<1>0. TypeOK
  BY DEF Told, Attributed, Shape
<1>1. /\ effect' = [effect EXCEPT ![e].made = TRUE, ![e].running = TRUE, ![e].deps = {}]
      /\ saw' = [saw EXCEPT ![e] = Blank]
      /\ excused' = excused \ {e} /\ value' = value
  BY DEF Enter
<1>2. effect \in [Effect -> EffectRecord] /\ saw \in [Effect -> [Signal -> Value \cup {Unread}]]
  BY <1>0 DEF TypeOK
<1>3. \A d \in Effect \ {e} : effect'[d] = effect[d] /\ saw'[d] = saw[d]
  BY <1>1, <1>2
<1>4. \A s \in Signal : saw'[e][s] = Unread
  BY <1>1, <1>2 DEF Blank
<1>5. \A d \in Effect \ {e} : Owed(stack, d) => Owed(stack', d)
  <2> DEFINE f == [kind |-> "run", e |-> e, prev |-> current, first |-> first, left |-> BodyLength]
  <2>1. f \in Frame
    BY <1>0, SignalsAssumption DEF Frame, RunFrame, TypeOK
  <2>2. stack' = Append(under, f)
    BY DEF Enter
  <2> HIDE DEF f
  <2>3. /\ Len(stack') = Len(under) + 1 /\ Len(under) \in Nat
        /\ \A i \in 1..Len(under) : stack'[i] = under[i]
    BY <2>1, <2>2, BelowPushed
  <2>4. 1..Len(under) \subseteq 1..Len(stack')
    BY <2>3
  <2> QED
    BY <2>3, <2>4 DEF Owed
<1>6. FreshOnStack'
  BY <1>1, <1>3, <1>4 DEF Told, FreshOnStack
<1>7. Owing'
  BY <1>1, <1>3, <1>4, <1>5 DEF Told, Owing
<1> QED
  BY <1>6, <1>7

\* A Set owes every living effect that has read the signal, bar those that run.
LEMMA ToldSet ==
  ASSUME Told, NEW s \in Signal, NEW v \in Value, Set(s, v)
  PROVE  FreshOnStack' /\ Owing'
<1>0. TypeOK /\ Nested /\ ReadsTracked /\ Symmetric /\ FreshOnStack /\ Owing
  BY DEF Told, Attributed, Shape, Linked
<1>1. /\ value' = [value EXCEPT ![s] = v]
      /\ effect' = effect /\ saw' = saw
      /\ stack' = Append(Charged, [kind |-> "set", todo |-> Listeners(s)])
      /\ excused' = excused \cup {e \in OnStack : saw[e][s] # Unread}
  BY DEF Set
<1>2. \A t \in Signal \ {s} : value'[t] = value[t]
  BY <1>0, <1>1 DEF TypeOK
<1>3. FreshOnStack'
  <2> SUFFICES ASSUME NEW e \in Effect \ excused', NEW t \in Signal, effect[e].running, ~effect[e].disposed
               PROVE  saw[e][t] \in {Unread, value'[t]}
    BY <1>1 DEF FreshOnStack
  <2>1. e \in OnStack
    BY <1>0, OnStackHeld
  <2>2. CASE t = s
    BY <1>1, <2>1, <2>2
  <2>3. CASE t # s
    BY <1>0, <1>1, <1>2, <2>3 DEF FreshOnStack
  <2> QED
    BY <2>2, <2>3
<1>4. Owing'
  <2> DEFINE f == [kind |-> "set", todo |-> Listeners(s)]
  <2>1. f \in Frame /\ f.kind = "set" /\ f.todo = Listeners(s)
    BY <1>0 DEF Frame, SetFrame, Listeners, TypeOK
  <2>2. stack' = Append(Charged, f) /\ Charged \in Seq(Frame)
    BY <1>0, <1>1, ChargedStack
  <2> HIDE DEF f
  <2>3. Len(stack') = Len(Charged) + 1 /\ Len(Charged) \in Nat /\ stack'[Len(Charged) + 1] = f
    BY <2>1, <2>2, BelowPushed
  <2>4. \A e \in Listeners(s) : Owed(stack', e)
    BY <2>1, <2>3 DEF Owed
  <2> SUFFICES ASSUME NEW e \in Effect \ excused', NEW t \in Signal,
                      ~effect[e].disposed, saw[e][t] \notin {Unread, value'[t]}
               PROVE  Owed(stack', e)
    BY <1>1 DEF Owing
  <2>5. CASE t = s
    <3>1. s \in effect[e].deps
      BY <1>0, <2>5 DEF ReadsTracked
    <3>2. e \in Listeners(s)
      BY <1>0, <3>1 DEF Symmetric, Listeners
    <3> QED
      BY <2>4, <3>2
  <2>6. CASE t # s
    <3>1. Owed(stack, e)
      BY <1>0, <1>1, <1>2, <2>6 DEF Owing
    <3> QED
      BY <1>0, <2>1, <2>2, <3>1, ChargedOwes
  <2> QED
    BY <2>5, <2>6
<1> QED
  BY <1>3, <1>4

LEMMA ToldNext ==
  ASSUME Told, [Next]_vars
  PROVE  Told'
<1>0. TypeOK /\ Nested /\ ReadsTracked /\ Symmetric /\ FreshOnStack /\ Owing
  BY DEF Told, Attributed, Shape, Linked
<1>1. /\ effect \in [Effect -> EffectRecord] /\ saw \in [Effect -> [Signal -> Value \cup {Unread}]]
      /\ stack \in Seq(Frame)
  BY <1>0 DEF TypeOK, Frame
<1>2. ASSUME NEW s \in Signal, Get(s)
      PROVE  FreshOnStack' /\ Owing'
  <2>1. Top.e \in Effect /\ current = Top.e
    BY <1>0, <1>2, BodyRuns DEF Get
  <2>2. saw' = [saw EXCEPT ![current][s] = value[s]] /\ value' = value /\ excused' = excused /\ stack' = Charged
    BY <1>2, <2>1 DEF Get
  <2>3. \A e \in Effect : effect'[e].running = effect[e].running /\ effect'[e].disposed = effect[e].disposed
    <3>1. effect' = effect \/ effect' = [effect EXCEPT ![current].deps = @ \cup {s}]
      BY <1>2 DEF Get
    <3> QED
      BY <1>1, <2>1, <3>1 DEF EffectRecord
  <2>4. \A e \in Effect, t \in Signal : saw'[e][t] = IF e = current /\ t = s THEN value[s] ELSE saw[e][t]
    BY <1>1, <2>1, <2>2
  <2>5. FreshOnStack'
    BY <1>0, <2>2, <2>3, <2>4 DEF FreshOnStack
  <2>6. \A e \in Effect : Owed(stack, e) => Owed(stack', e)
    BY <1>0, <2>2, ChargedOwes
  <2>7. Owing'
    BY <1>0, <2>2, <2>3, <2>4, <2>6 DEF Owing
  <2> QED
    BY <2>5, <2>7
<1>3. ASSUME NEW s \in Signal, NEW v \in Value, Set(s, v)
      PROVE  FreshOnStack' /\ Owing'
  BY <1>3, ToldSet
\* A call that is popped owed nobody.
<1>4. ASSUME Return \/ SetReturns, NEW e \in Effect, Owed(stack, e)
      PROVE  Owed(Below, e)
  <2>1. stack # <<>> /\ (Top.kind = "set" => Top.todo = {})
    BY <1>4 DEF Return, SetReturns
  <2>2. /\ Len(Below) = Len(stack) - 1 /\ Len(stack) \in Nat \ {0}
        /\ \A i \in 1..(Len(stack) - 1) : Below[i] = stack[i]
    BY <1>1, <2>1, FrontFrames DEF Below
  <2>3. PICK i \in 1..Len(stack) : stack[i].kind = "set" /\ e \in stack[i].todo
    BY <1>4 DEF Owed
  <2>4. i # Len(stack)
    BY <2>1, <2>3 DEF Top
  <2>5. i \in 1..(Len(stack) - 1)
    BY <2>2, <2>3, <2>4
  <2> QED
    BY <2>2, <2>3, <2>5 DEF Owed
<1>5. ASSUME SetReturns
      PROVE  FreshOnStack' /\ Owing'
  <2>1. stack' = Below /\ UNCHANGED <<value, effect, saw, excused>>
    BY <1>5 DEF SetReturns
  <2>2. \A e \in Effect : Owed(stack, e) => Owed(stack', e)
    BY <1>4, <1>5, <2>1
  <2> QED
    BY <2>1, <2>2, ToldStill
<1>6. ASSUME NEW e \in Effect, NewEffect(e)
      PROVE  FreshOnStack' /\ Owing'
  <2>1. Enter(e, Charged, TRUE) /\ Charged \in Seq(Frame)
    BY <1>0, <1>6, ChargedStack DEF NewEffect
  <2>2. \A d \in Effect : Owed(stack, d) => Owed(Charged, d)
    BY <1>0, ChargedOwes
  <2> QED
    BY <2>1, <2>2, ToldEnter
<1>7. ASSUME NEW e \in Effect, RunNext(e)
      PROVE  FreshOnStack' /\ Owing'
  <2>1. PICK under \in Seq(Frame) :
          /\ Alike(stack, under)
          /\ \A i \in 1..Len(stack) :
               stack[i].kind = "set" =>
                 under[i].todo = IF i = Len(stack) THEN stack[i].todo \ {e} ELSE stack[i].todo
          /\ \/ /\ effect[e].disposed \/ effect[e].running
                /\ stack' = under
                /\ UNCHANGED <<value, subs, effect, current, saw, excused>>
             \/ /\ ~effect[e].disposed /\ ~effect[e].running
                /\ Enter(e, under, FALSE)
    BY <1>0, <1>7, RunNextCases
  <2>2. \A d \in Effect \ {e} : Owed(stack, d) => Owed(under, d)
    BY <2>1 DEF Owed, Alike
  <2>3. CASE Enter(e, under, FALSE)
    BY <2>2, <2>3, ToldEnter
  <2>4. CASE /\ effect[e].disposed \/ effect[e].running
             /\ stack' = under
             /\ UNCHANGED <<value, subs, effect, current, saw, excused>>
    <3>1. FreshOnStack'
      BY <1>0, <2>4 DEF FreshOnStack
    <3>2. Owing'
      BY <1>0, <2>2, <2>4 DEF Owing, FreshOnStack
    <3> QED
      BY <3>1, <3>2
  <2> QED
    BY <2>1, <2>3, <2>4
<1>8. ASSUME NEW e \in Effect, Dispose(e)
      PROVE  FreshOnStack' /\ Owing'
  <2>1. /\ effect' = [effect EXCEPT ![e].disposed = TRUE, ![e].deps = {}]
        /\ stack' = Charged /\ UNCHANGED <<value, saw, excused>>
    BY <1>8 DEF Dispose
  <2>2. \A d \in Effect : /\ effect'[d].running => effect[d].running
                          /\ effect[d].disposed => effect'[d].disposed
    BY <1>1, <2>1 DEF EffectRecord
  <2>3. \A d \in Effect : Owed(stack, d) => Owed(stack', d)
    BY <1>0, <2>1, ChargedOwes
  <2> QED
    BY <2>1, <2>2, <2>3, ToldStill
<1>9. ASSUME Return
      PROVE  FreshOnStack' /\ Owing'
  <2>1. /\ effect' = [effect EXCEPT ![Top.e].running = FALSE, ![Top.e].handed = @ \/ Top.first]
        /\ stack' = Below /\ UNCHANGED <<value, saw, excused>>
    BY <1>9 DEF Return
  <2>2. \A d \in Effect : /\ effect'[d].running => effect[d].running
                          /\ effect[d].disposed => effect'[d].disposed
    BY <1>1, <2>1 DEF EffectRecord
  <2>3. \A e \in Effect : Owed(stack, e) => Owed(stack', e)
    BY <1>4, <1>9, <2>1
  <2> QED
    BY <2>1, <2>2, <2>3, ToldStill
<1>10. ASSUME Panic
       PROVE  FreshOnStack' /\ Owing'
  <2>1. effect' = Unwound /\ UNCHANGED <<value, saw>>
    BY <1>10 DEF Panic
  <2>2. excused' = excused \cup UNION {stack[i].todo : i \in {j \in DOMAIN stack : stack[j].kind = "set"}}
    BY <1>10 DEF Panic
  <2>3. \A d \in Effect : /\ effect'[d].running => effect[d].running
                          /\ effect[d].disposed => effect'[d].disposed
    BY <1>1, <2>1 DEF EffectRecord, Unwound
  <2>4. \A d \in Effect : Owed(stack, d) => d \in excused'
    <3>1. DOMAIN stack = 1..Len(stack)
      BY <1>1
    <3> QED
      BY <2>2, <3>1 DEF Owed
  <2> QED
    BY <2>1, <2>2, <2>3, <2>4, ToldStill
<1>11. ASSUME UNCHANGED vars
       PROVE  FreshOnStack' /\ Owing'
  BY <1>0, <1>11 DEF vars, FreshOnStack, Owing
<1>12. FreshOnStack' /\ Owing'
  BY <1>2, <1>3, <1>5, <1>6, <1>7, <1>8, <1>9, <1>10, <1>11 DEF Next
<1>13. Attributed' /\ Linked'
  BY AttributedNext, LinkedNext DEF Told
<1> QED
  BY <1>12, <1>13 DEF Told

(***************************************************************************)
(* A living effect that has read a value which is no longer current is      *)
(* still to be run by a Set under way, if it is not excused (Set, run).     *)
(***************************************************************************)
THEOREM AlwaysOwed == Spec => []StaleIsOwed
<1>1. Told => StaleIsOwed
  <2> SUFFICES ASSUME Told
               PROVE  StaleIsOwed
    OBVIOUS
  <2>1. DOMAIN stack = 1..Len(stack)
    BY DEF Told, Attributed, Shape, TypeOK
  <2> QED
    BY <2>1 DEF Told, Owing, Owed, StaleIsOwed
<1> QED
  BY ToldInit, ToldNext, <1>1, PTL DEF Spec

=============================================================================
