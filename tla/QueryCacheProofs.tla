-------------------------- MODULE QueryCacheProofs --------------------------
(***************************************************************************)
(* Theorems about QueryCache, for every application: any keys, components, *)
(* mutations, workers and bounds that meet the module's assumptions.       *)
(***************************************************************************)
EXTENDS QueryCache, FiniteSetTheorems, TLAPS

Assumptions ==
  /\ Keys # {} /\ Keys \subseteq Prefixes
  /\ Covers \in [Prefixes -> SUBSET Keys]
  /\ MaxCalls \in Nat
  /\ NoEntry \notin Entry /\ NoFlight \notin Flight /\ NoSnapshot \notin Cache

LEMMA AssumptionsHold == Assumptions
  BY KeysAssumption, SwitchAssumption, AbsenceAssumption DEF Assumptions

-----------------------------------------------------------------------------
(* Entries *)

\* What the code makes or changes under the lock is a well-formed entry.
LEMMA FreshTyped ==
  FreshEntry \in Entry /\ [FreshEntry EXCEPT !.stale = TRUE] \in Entry
  BY DEF FreshEntry, Entry

LEMMA SubscribedTyped ==
  ASSUME NEW e \in Entry PROVE Subscribed(e) \in Entry
  <1>1. e.subscribers + 1 \in Nat /\ e.evictSeq + 1 \in Nat
    BY DEF Entry
  <1>2. ASSUME NEW i \in Nat, NEW j \in Nat
        PROVE  [e EXCEPT !.subscribers = i, !.fetchable = TRUE, !.evictSeq = j] \in Entry
    BY DEF Entry
  <1> QED
    BY <1>1, <1>2 DEF Subscribed

LEMMA UnsubscribedTyped ==
  ASSUME NEW e \in Entry
  PROVE  /\ Unsubscribed(e) \in Entry
         /\ [Unsubscribed(e) EXCEPT !.evictSeq = Unsubscribed(e).evictSeq + 1] \in Entry
  <1>1. (IF e.subscribers > 0 THEN e.subscribers - 1 ELSE 0) \in Nat
    BY DEF Entry
  <1>2. ASSUME NEW i \in Nat PROVE [e EXCEPT !.subscribers = i] \in Entry
    BY DEF Entry
  <1>3. Unsubscribed(e) \in Entry
    BY <1>1, <1>2 DEF Unsubscribed
  <1>4. ASSUME NEW d \in Entry PROVE [d EXCEPT !.evictSeq = d.evictSeq + 1] \in Entry
    BY DEF Entry
  <1> QED
    BY <1>3, <1>4

LEMMA AnsweredTyped ==
  ASSUME NEW e \in Entry, NEW f \in Flight PROVE Answered(e, f) \in Entry
  BY DEF Answered, Entry, Flight

LEMMA PresentTyped ==
  ASSUME TypeOK, NEW k \in Keys, Present(k) PROVE cache[k] \in Entry
  BY DEF TypeOK, Cache, Present

LEMMA EntryOrTyped ==
  ASSUME TypeOK, NEW k \in Keys, NEW new \in Entry PROVE EntryOr(k, new) \in Entry
  BY PresentTyped DEF EntryOr

\* Writing one entry, or removing it, leaves a cache.
LEMMA WriteTyped ==
  ASSUME TypeOK, NEW k \in Keys, NEW e \in Entry \cup {NoEntry}
  PROVE  [cache EXCEPT ![k] = e] \in Cache
  BY DEF TypeOK, Cache

LEMMA SetDataTyped ==
  ASSUME TypeOK, NEW k \in Keys, NEW m \in Mutates, SetData(k, m)
  PROVE  cache' \in Cache
  <1> DEFINE e == EntryOr(k, FreshEntry)
  <1> DEFINE d == [e EXCEPT !.data = e.data \cup {m}, !.hasData = TRUE,
                            !.err = FALSE, !.stale = FALSE, !.expired = FALSE]
  <1>1. e \in Entry
    BY EntryOrTyped, FreshTyped
  <1>2. d \in Entry
    BY <1>1 DEF Entry
  <1>3. cache' = [cache EXCEPT ![k] = d]
    BY DEF SetData
  <1> QED
    BY <1>2, <1>3, WriteTyped

LEMMA MarkStaleTyped ==
  ASSUME TypeOK, NEW p, MarkStale(p) PROVE cache' \in Cache
  <1>1. ASSUME NEW k \in Keys, Present(k)
        PROVE  [cache[k] EXCEPT !.stale = TRUE] \in Entry
    BY <1>1, PresentTyped DEF Entry
  <1> QED
    BY <1>1 DEF MarkStale, TypeOK, Cache

LEMMA StartFetchTyped ==
  ASSUME TypeOK, NEW k \in Keys, NEW force \in BOOLEAN, StartFetch(k, force)
  PROVE  cache' \in Cache /\ flight' \in [Workers -> Flight \cup {NoFlight}]
  <1>1. CASE ~Starts(k, force)
    BY <1>1 DEF StartFetch, TypeOK
  <1>2. CASE Starts(k, force)
    <2>1. PICK w \in Workers : Launch(k, w)
      BY <1>2 DEF StartFetch
    <2>2. cache[k] \in Entry
      BY <1>2, PresentTyped DEF Starts
    <2>3. NextSeq(cache[k]) \in Nat
      BY <2>2 DEF NextSeq, Entry
    <2>4. Fetching(cache[k]) \in Entry
      BY <2>2, <2>3 DEF Fetching, Entry
    <2>5. cache' \in Cache
      BY <2>1, <2>4, WriteTyped DEF Launch
    <2>6. [key |-> k, seq |-> NextSeq(cache[k]), answered |-> FALSE, ok |-> FALSE,
           data |-> {}] \in Flight
      BY <2>3 DEF Flight
    <2>7. flight' \in [Workers -> Flight \cup {NoFlight}]
      BY <2>1, <2>6 DEF Launch, TypeOK
    <2> QED
      BY <2>5, <2>7
  <1> QED
    BY <1>1, <1>2

LEMMA ActiveTyped ==
  ASSUME NEW p \in Prefixes PROVE Active(p) \subseteq Keys
  BY AssumptionsHold DEF Active, Assumptions

-----------------------------------------------------------------------------
(* Type correctness *)

LEMMA InitTyped == Init => TypeOK
  <1> SUFFICES ASSUME Init PROVE TypeOK
    OBVIOUS
  <1>1. AnyKey \in Keys
    BY AssumptionsHold DEF AnyKey, Assumptions
  <1>2. 0 \in 0 .. MaxCalls
    BY AssumptionsHold DEF Assumptions
  <1>3. use \in [Uses -> UseRecord]
    BY <1>1 DEF Init, UseRecord
  <1>4. mut \in [Mutates -> MutRecord]
    BY <1>1 DEF Init, MutRecord
  <1>5. mutation \in [pending: Int, err: BOOLEAN]
    BY DEF Init
  <1>6. cache \in Cache
    BY DEF Init, Cache
  <1>7. /\ flight \in [Workers -> Flight \cup {NoFlight}]
        /\ snap \in [Mutates -> Cache \cup {NoSnapshot}]
        /\ todo \in [Actors -> SUBSET Keys]
        /\ server \in [Keys -> SUBSET Mutates]
        /\ focus \in SUBSET Keys /\ focusTodo \in SUBSET Keys
        /\ calls \in 0 .. MaxCalls
    BY <1>2 DEF Init
  <1> QED
    BY <1>3, <1>4, <1>5, <1>6, <1>7 DEF TypeOK

LEMMA QueryStepTyped ==
  ASSUME TypeOK, QueryStep PROVE TypeOK'
  <1>1. ASSUME NEW u \in Uses, NEW k \in Keys, MountQuery(u, k) PROVE TypeOK'
    <2> DEFINE e == Subscribed(EntryOr(k, [FreshEntry EXCEPT !.stale = TRUE]))
    <2>1. e \in Entry
      BY FreshTyped, EntryOrTyped, SubscribedTyped
    <2>2. cache' \in Cache
      BY <1>1, <2>1, WriteTyped DEF MountQuery
    <2>3. use' \in [Uses -> UseRecord]
      <3>1. ASSUME NEW v \in Uses
            PROVE  /\ use[v] \in UseRecord
                   /\ [use[v] EXCEPT !.st = "mounting", !.key = k] \in UseRecord
                   /\ [use[v] EXCEPT !.reused = TRUE] \in UseRecord
        BY DEF TypeOK, UseRecord
      <3> QED
        BY <1>1, <3>1 DEF MountQuery
    <2>4. todo' \in [Actors -> SUBSET Keys]
      BY <1>1 DEF MountQuery, TypeOK
    <2> QED
      BY <1>1, <2>2, <2>3, <2>4 DEF MountQuery, TypeOK
  <1>2. ASSUME NEW a \in Actors, NEW k \in Keys, StartQueued(a, k) PROVE TypeOK'
    <2>1. cache' \in Cache /\ flight' \in [Workers -> Flight \cup {NoFlight}]
      BY <1>2, StartFetchTyped DEF StartQueued
    <2> QED
      BY <1>2, <2>1 DEF StartQueued, TypeOK
  <1>3. ASSUME NEW u \in Uses, FinishMount(u) PROVE TypeOK'
    <2>1. use' \in [Uses -> UseRecord] /\ focus' \in SUBSET Keys
      BY <1>3 DEF FinishMount, TypeOK, UseRecord
    <2> QED
      BY <1>3, <2>1 DEF FinishMount, TypeOK
  <1>4. ASSUME NEW u \in Uses, ReleaseShared(u) PROVE TypeOK'
    <2>1. use[u].key \in Keys
      BY DEF TypeOK, UseRecord
    <2>2. cache' \in Cache
      BY <1>4, <2>1, PresentTyped, UnsubscribedTyped, WriteTyped DEF ReleaseShared, TypeOK
    <2>3. use' \in [Uses -> UseRecord]
      BY <1>4 DEF ReleaseShared, TypeOK, UseRecord
    <2> QED
      BY <1>4, <2>2, <2>3 DEF ReleaseShared, TypeOK
  <1>5. ASSUME NEW u \in Uses, ReleaseLast(u) PROVE TypeOK'
    <2> DEFINE k == use[u].key
               e == Unsubscribed(cache[k])
    <2>1. k \in Keys
      BY DEF TypeOK, UseRecord
    <2>2. e \in Entry /\ [e EXCEPT !.evictSeq = e.evictSeq + 1] \in Entry
      BY <1>5, <2>1, PresentTyped, UnsubscribedTyped DEF ReleaseLast
    <2>3. cache' \in Cache
      BY <1>5, <2>1, <2>2, WriteTyped DEF ReleaseLast
    <2>4. e.evictSeq + 1 \in Nat
      BY <2>2 DEF Entry
    <2>5. use' \in [Uses -> UseRecord]
      <3>1. ASSUME NEW i \in Nat
            PROVE  [use[u] EXCEPT !.st = "released", !.seq = i] \in UseRecord
        <4>1. use[u] \in UseRecord
          BY DEF TypeOK
        <4> QED
          BY <4>1 DEF UseRecord
      <3>2. use' = [use EXCEPT ![u] =
                      [use[u] EXCEPT !.st = "released", !.seq = e.evictSeq + 1]]
        BY <1>5 DEF ReleaseLast, TypeOK
      <3>3. [use[u] EXCEPT !.st = "released", !.seq = e.evictSeq + 1] \in UseRecord
        BY <2>4, <3>1
      <3> QED
        BY <3>2, <3>3 DEF TypeOK
    <2> QED
      BY <1>5, <2>3, <2>5 DEF ReleaseLast, TypeOK
  <1>6. ASSUME NEW u \in Uses, EvictTimer(u) PROVE TypeOK'
    <2>1. use[u].key \in Keys
      BY DEF TypeOK, UseRecord
    <2>2. cache' \in Cache
      BY <1>6, <2>1, WriteTyped DEF EvictTimer, TypeOK
    <2>3. use' \in [Uses -> UseRecord]
      BY <1>6 DEF EvictTimer, TypeOK, UseRecord
    <2> QED
      BY <1>6, <2>2, <2>3 DEF EvictTimer, TypeOK
  <1>7. ASSUME NEW u \in Uses, Refetch(u) PROVE TypeOK'
    <2>1. use[u].key \in Keys
      BY DEF TypeOK, UseRecord
    <2>2. cache' \in Cache /\ flight' \in [Workers -> Flight \cup {NoFlight}]
      BY <1>7, <2>1, StartFetchTyped DEF Refetch
    <2>3. calls' \in 0 .. MaxCalls
      BY <1>7, AssumptionsHold DEF Refetch, MayCall, TypeOK, Assumptions
    <2> QED
      BY <1>7, <2>2, <2>3 DEF Refetch, TypeOK
  <1>8. ASSUME NEW u \in Uses, InvalidateUse(u) PROVE TypeOK'
    <2>1. use[u].key \in Prefixes
      BY AssumptionsHold DEF TypeOK, UseRecord, Assumptions
    <2>2. cache' \in Cache
      BY <1>8, MarkStaleTyped DEF InvalidateUse
    <2>3. calls' \in 0 .. MaxCalls
      BY <1>8, AssumptionsHold DEF InvalidateUse, MayCall, TypeOK, Assumptions
    <2>4. todo' \in [Actors -> SUBSET Keys]
      BY <1>8, <2>1, ActiveTyped DEF InvalidateUse, TypeOK
    <2> QED
      BY <1>8, <2>2, <2>3, <2>4 DEF InvalidateUse, TypeOK
  <1> QED
    BY <1>1, <1>2, <1>3, <1>4, <1>5, <1>6, <1>7, <1>8 DEF QueryStep

LEMMA FetchStepTyped ==
  ASSUME TypeOK, FetchStep PROVE TypeOK'
  <1>1. ASSUME NEW w \in Workers, Answer(w) PROVE TypeOK'
    <2>1. PICK ok \in BOOLEAN :
            flight' = [flight EXCEPT
                         ![w].answered = TRUE, ![w].ok = ok,
                         ![w].data = IF ok THEN server[flight[w].key] ELSE {}]
      BY <1>1 DEF Answer
    <2>2. flight[w] \in Flight
      BY <1>1 DEF Answer, TypeOK
    <2> DEFINE data == IF ok THEN server[flight[w].key] ELSE {}
    <2>3. data \in SUBSET Mutates
      BY <2>2 DEF TypeOK, Flight
    <2>4. ASSUME NEW d \in SUBSET Mutates
          PROVE  [flight[w] EXCEPT !.answered = TRUE, !.ok = ok, !.data = d] \in Flight
      BY <2>2 DEF Flight
    <2>5. flight' = [flight EXCEPT ![w] =
                       [flight[w] EXCEPT !.answered = TRUE, !.ok = ok, !.data = data]]
      BY <2>1 DEF TypeOK
    <2> HIDE DEF data
    <2>6. flight' \in [Workers -> Flight \cup {NoFlight}]
      BY <2>3, <2>4, <2>5 DEF TypeOK
    <2> QED
      BY <1>1, <2>6 DEF Answer, TypeOK
  <1>2. ASSUME NEW w \in Workers, Complete(w) PROVE TypeOK'
    <2> DEFINE k == flight[w].key
    <2>1. flight[w] \in Flight /\ k \in Keys
      BY <1>2 DEF Complete, TypeOK, Flight
    <2>2. flight' \in [Workers -> Flight \cup {NoFlight}]
      BY <1>2 DEF Complete, TypeOK
    <2>3. CASE Current(w)
      <3>1. Answered(cache[k], flight[w]) \in Entry
        BY <2>1, <2>3, PresentTyped, AnsweredTyped DEF Current
      <3>2. cache' \in Cache
        BY <1>2, <2>1, <2>3, <3>1, WriteTyped DEF Complete
      <3> QED
        BY <1>2, <2>2, <3>2 DEF Complete, TypeOK
    <2>4. CASE ~Current(w)
      BY <1>2, <2>2, <2>4 DEF Complete, TypeOK
    <2> QED
      BY <2>3, <2>4
  <1>3. ASSUME NEW k \in Keys, Age(k) PROVE TypeOK'
    <2>1. cache[k] \in Entry
      BY <1>3, PresentTyped DEF Age
    <2>2. [cache[k] EXCEPT !.expired = TRUE] \in Entry
      BY <2>1 DEF Entry
    <2>3. cache' \in Cache
      BY <1>3, <2>2, WriteTyped DEF Age
    <2> QED
      BY <1>3, <2>3 DEF Age, TypeOK
  <1> QED
    BY <1>1, <1>2, <1>3 DEF FetchStep

LEMMA ClientStepTyped ==
  ASSUME TypeOK, ClientStep PROVE TypeOK'
  <1>1. CASE Focus
    <2>1. calls' \in 0 .. MaxCalls
      BY <1>1, AssumptionsHold DEF Focus, MayCall, TypeOK, Assumptions
    <2> QED
      BY <1>1, <2>1 DEF Focus, TypeOK
  <1>2. ASSUME NEW k \in Keys, RefetchActive(k) PROVE TypeOK'
    <2>1. todo' \in [Actors -> SUBSET Keys] /\ focusTodo' \in SUBSET Keys
      BY <1>2 DEF RefetchActive, TypeOK
    <2> QED
      BY <1>2, <2>1 DEF RefetchActive, TypeOK
  <1>3. CASE Clear
    <2>1. calls' \in 0 .. MaxCalls
      BY <1>3, AssumptionsHold DEF Clear, MayCall, TypeOK, Assumptions
    <2> QED
      BY <1>3, <2>1 DEF Clear, TypeOK, Cache
  <1> QED
    BY <1>1, <1>2, <1>3 DEF ClientStep

LEMMA MutationStepTyped ==
  ASSUME TypeOK, MutationStep PROVE TypeOK'
  <1>1. ASSUME NEW m \in Mutates, NEW k \in Keys, Begin(m, k) PROVE TypeOK'
    <2>1. mut' \in [Mutates -> MutRecord]
      BY <1>1 DEF Begin, TypeOK, MutRecord
    <2>2. snap' \in [Mutates -> Cache \cup {NoSnapshot}]
      BY <1>1 DEF Begin, TypeOK
    <2> QED
      BY <1>1, <2>1, <2>2 DEF Begin, TypeOK
  <1>2. ASSUME NEW m \in Mutates, ApplyOptimistic(m) PROVE TypeOK'
    <2>1. mut[m].key \in Keys
      BY DEF TypeOK, MutRecord
    <2>2. cache' \in Cache
      BY <1>2, <2>1, SetDataTyped DEF ApplyOptimistic
    <2>3. mut' \in [Mutates -> MutRecord]
      BY <1>2 DEF ApplyOptimistic, TypeOK, MutRecord
    <2> QED
      BY <1>2, <2>2, <2>3 DEF ApplyOptimistic, TypeOK
  <1>3. ASSUME NEW m \in Mutates, Send(m) PROVE TypeOK'
    <2>1. mut' \in [Mutates -> MutRecord]
      BY <1>3 DEF Send, TypeOK, MutRecord
    <2>2. mutation' \in [pending: Int, err: BOOLEAN]
      BY <1>3 DEF Send, TypeOK
    <2> QED
      BY <1>3, <2>1, <2>2 DEF Send, TypeOK
  <1>4. ASSUME NEW m \in Mutates, Commit(m) PROVE TypeOK'
    <2>1. mut' \in [Mutates -> MutRecord]
      BY <1>4 DEF Commit, TypeOK, MutRecord
    <2>2. server' \in [Keys -> SUBSET Mutates]
      BY <1>4 DEF Commit, TypeOK
    <2> QED
      BY <1>4, <2>1, <2>2 DEF Commit, TypeOK
  <1>5. ASSUME NEW m \in Mutates, Reject(m) PROVE TypeOK'
    <2>1. mut' \in [Mutates -> MutRecord]
      BY <1>5 DEF Reject, TypeOK, MutRecord
    <2> QED
      BY <1>5, <2>1 DEF Reject, TypeOK
  <1>6. ASSUME NEW m \in Mutates, NEW failed \in BOOLEAN, Return(m, failed) PROVE TypeOK'
    <2>1. mut' \in [Mutates -> MutRecord]
      BY <1>6 DEF Return, TypeOK, MutRecord
    <2>2. mutation' \in [pending: Int, err: BOOLEAN]
      BY <1>6 DEF Return, Finished, TypeOK
    <2> QED
      BY <1>6, <2>1, <2>2 DEF Return, TypeOK
  <1>7. ASSUME NEW m \in Mutates, Rollback(m) PROVE TypeOK'
    <2>1. cache' \in Cache
      BY <1>7 DEF Rollback, Restored, TypeOK
    <2>2. snap' \in [Mutates -> Cache \cup {NoSnapshot}]
      BY <1>7 DEF Rollback, TypeOK
    <2> QED
      BY <1>7, <2>1, <2>2 DEF Rollback, TypeOK
  <1>8. ASSUME NEW m \in Mutates, NEW p \in Prefixes, CallbackInvalidate(m, p) PROVE TypeOK'
    <2>1. cache' \in Cache
      BY <1>8, MarkStaleTyped DEF CallbackInvalidate
    <2>2. todo' \in [Actors -> SUBSET Keys]
      BY <1>8, ActiveTyped DEF CallbackInvalidate, TypeOK
    <2> DEFINE i == Found(m, p)
    <2>3. i \in {"none", "idle", "busy"}
      BY DEF Found
    <2>4. mut' = [mut EXCEPT ![m] = [mut[m] EXCEPT !.st = "done", !.inval = i]]
      BY <1>8 DEF CallbackInvalidate, TypeOK
    <2> HIDE DEF i
    <2>5. mut' \in [Mutates -> MutRecord]
      <3>1. ASSUME NEW j \in {"none", "idle", "busy"}
            PROVE  [mut[m] EXCEPT !.st = "done", !.inval = j] \in MutRecord
        <4>1. mut[m] \in MutRecord
          BY DEF TypeOK
        <4> QED
          BY <4>1 DEF MutRecord
      <3>2. [mut[m] EXCEPT !.st = "done", !.inval = i] \in MutRecord
        BY <2>3, <3>1
      <3> QED
        BY <2>4, <3>2 DEF TypeOK
    <2>6. snap' \in [Mutates -> Cache \cup {NoSnapshot}]
      BY <1>8 DEF CallbackInvalidate, TypeOK
    <2> QED
      BY <1>8, <2>1, <2>2, <2>5, <2>6 DEF CallbackInvalidate, TypeOK
  <1>9. ASSUME NEW m \in Mutates, CallbackSetData(m) PROVE TypeOK'
    <2>1. mut[m].key \in Keys
      BY DEF TypeOK, MutRecord
    <2>2. cache' \in Cache
      BY <1>9, <2>1, SetDataTyped DEF CallbackSetData
    <2>3. mut' \in [Mutates -> MutRecord]
      BY <1>9 DEF CallbackSetData, TypeOK, MutRecord
    <2>4. snap' \in [Mutates -> Cache \cup {NoSnapshot}]
      BY <1>9 DEF CallbackSetData, TypeOK
    <2> QED
      BY <1>9, <2>2, <2>3, <2>4 DEF CallbackSetData, TypeOK
  <1>10. ASSUME NEW m \in Mutates, NoCallback(m) PROVE TypeOK'
    <2>1. mut' \in [Mutates -> MutRecord]
      BY <1>10 DEF NoCallback, TypeOK, MutRecord
    <2>2. snap' \in [Mutates -> Cache \cup {NoSnapshot}]
      BY <1>10 DEF NoCallback, TypeOK
    <2> QED
      BY <1>10, <2>1, <2>2 DEF NoCallback, TypeOK
  <1> QED
    BY <1>1, <1>2, <1>3, <1>4, <1>5, <1>6, <1>7, <1>8, <1>9, <1>10 DEF MutationStep

LEMMA StepTyped == TypeOK /\ [Next]_vars => TypeOK'
  <1> SUFFICES ASSUME TypeOK, [Next]_vars PROVE TypeOK'
    OBVIOUS
  <1>1. CASE UNCHANGED vars
    BY <1>1 DEF vars, TypeOK
  <1> QED
    BY <1>1, QueryStepTyped, FetchStepTyped, ClientStepTyped, MutationStepTyped DEF Next

(***************************************************************************)
(* Every reachable cache is well formed, in every application: no Release, *)
(* eviction, Clear or rollback makes subscribers negative or leaves an     *)
(* entry, a fetch or a snapshot that is not one (cache.go, query.go).      *)
(***************************************************************************)
THEOREM TypeCorrect == Spec => []TypeOK
  BY InitTyped, StepTyped, PTL DEF Spec

-----------------------------------------------------------------------------
(* Applications without optimistic mutations never roll the cache back *)

NothingToRestore ==
  \A m \in Mutates : snap[m] = NoSnapshot /\ mut[m].st # "snapped"

LEMMA NothingToRestoreStep ==
  ASSUME Optimistic = {}, TypeOK, NothingToRestore, [Next]_vars
  PROVE  NothingToRestore' /\ \A m \in Mutates : ~Rollback(m) /\ ~ApplyOptimistic(m)
  <1>1. \A m \in Mutates : ~Rollback(m) /\ ~ApplyOptimistic(m)
    BY DEF NothingToRestore, Rollback, ApplyOptimistic
  <1>2. ASSUME mut' = mut, snap' = snap PROVE NothingToRestore'
    BY <1>2 DEF NothingToRestore
  <1>3. ASSUME NEW m \in Mutates, NEW k \in Keys, Begin(m, k) PROVE NothingToRestore'
    BY <1>3 DEF Begin, NothingToRestore, TypeOK, MutRecord
  <1>4. ASSUME NEW m \in Mutates, Send(m) \/ Commit(m) \/ Reject(m) PROVE NothingToRestore'
    <2>1. CASE Send(m)
      BY <2>1 DEF Send, NothingToRestore, TypeOK, MutRecord
    <2>2. CASE Commit(m)
      BY <2>2 DEF Commit, NothingToRestore, TypeOK, MutRecord
    <2>3. CASE Reject(m)
      BY <2>3 DEF Reject, NothingToRestore, TypeOK, MutRecord
    <2> QED
      BY <1>4, <2>1, <2>2, <2>3
  <1>5. ASSUME NEW m \in Mutates, NEW failed \in BOOLEAN, Return(m, failed)
        PROVE  NothingToRestore'
    BY <1>5 DEF Return, NothingToRestore, TypeOK, MutRecord
  <1>6. ASSUME NEW m \in Mutates, NEW p \in Prefixes, CallbackInvalidate(m, p)
        PROVE  NothingToRestore'
    BY <1>6 DEF CallbackInvalidate, NothingToRestore, TypeOK, MutRecord
  <1>7. ASSUME NEW m \in Mutates, CallbackSetData(m) \/ NoCallback(m)
        PROVE  NothingToRestore'
    <2>1. CASE CallbackSetData(m)
      BY <2>1 DEF CallbackSetData, NothingToRestore, TypeOK, MutRecord
    <2>2. CASE NoCallback(m)
      BY <2>2 DEF NoCallback, NothingToRestore, TypeOK, MutRecord
    <2> QED
      BY <1>7, <2>1, <2>2
  <1>8. ASSUME QueryStep PROVE NothingToRestore'
    BY <1>8, <1>2 DEF QueryStep, MountQuery, StartQueued, FinishMount, ReleaseShared,
                      ReleaseLast, EvictTimer, Refetch, InvalidateUse
  <1>9. ASSUME FetchStep PROVE NothingToRestore'
    BY <1>9, <1>2 DEF FetchStep, Answer, Complete, Age
  <1>10. ASSUME ClientStep PROVE NothingToRestore'
    BY <1>10, <1>2 DEF ClientStep, Focus, RefetchActive, Clear
  <1>11. ASSUME MutationStep PROVE NothingToRestore'
    BY <1>11, <1>1, <1>3, <1>4, <1>5, <1>6, <1>7 DEF MutationStep
  <1>12. ASSUME UNCHANGED vars PROVE NothingToRestore'
    BY <1>12, <1>2 DEF vars
  <1> QED
    BY <1>1, <1>8, <1>9, <1>10, <1>11, <1>12 DEF Next

LEMMA NothingToRestoreInit == Init => NothingToRestore
  BY DEF Init, NothingToRestore

-----------------------------------------------------------------------------
(* A fetching entry has its fetch in flight *)

\* What every step but a launch or a completion does to fetching entries.
FetchingKept ==
  \A k \in Keys : Present(k)' /\ cache'[k].fetching =>
    /\ Present(k) /\ cache[k].fetching
    /\ cache'[k].fetchSeq = cache[k].fetchSeq

LEMMA KeptHasFlight ==
  ASSUME FetchingHasFlight, FetchingKept, flight' = flight
  PROVE  FetchingHasFlight'
  BY DEF FetchingHasFlight, FetchingKept, Carries

LEMMA UnchangedKeeps ==
  ASSUME cache' = cache PROVE FetchingKept
  BY DEF FetchingKept, Present

\* A write to one entry that neither raises the flag nor renumbers it.
LEMMA WriteKeeps ==
  ASSUME TypeOK, NEW k \in Keys, NEW e, cache' = [cache EXCEPT ![k] = e],
         e.fetching => /\ Present(k) /\ cache[k].fetching
                       /\ e.fetchSeq = cache[k].fetchSeq
  PROVE  FetchingKept
  BY DEF FetchingKept, Present, TypeOK, Cache

LEMMA EntryOrKeeps ==
  ASSUME TypeOK, NEW k \in Keys, NEW new \in Entry, ~new.fetching,
         EntryOr(k, new).fetching
  PROVE  /\ Present(k) /\ cache[k].fetching
         /\ EntryOr(k, new).fetchSeq = cache[k].fetchSeq
  BY DEF EntryOr

LEMMA SetDataKeeps ==
  ASSUME TypeOK, NEW k \in Keys, NEW m \in Mutates, SetData(k, m)
  PROVE  FetchingKept
  <1> DEFINE e == EntryOr(k, FreshEntry)
  <1> DEFINE d == [e EXCEPT !.data = e.data \cup {m}, !.hasData = TRUE,
                            !.err = FALSE, !.stale = FALSE, !.expired = FALSE]
  <1>1. e \in Entry /\ FreshEntry \in Entry /\ ~FreshEntry.fetching
    BY EntryOrTyped, FreshTyped DEF FreshEntry
  <1>2. d.fetching = e.fetching /\ d.fetchSeq = e.fetchSeq
    BY <1>1 DEF Entry
  <1>3. cache' = [cache EXCEPT ![k] = d]
    BY DEF SetData
  <1> HIDE DEF d
  <1> QED
    BY <1>1, <1>2, <1>3, EntryOrKeeps, WriteKeeps

LEMMA MarkStaleKeeps ==
  ASSUME TypeOK, NEW p, MarkStale(p) PROVE FetchingKept
  <1> SUFFICES ASSUME NEW k \in Keys, Present(k)', cache'[k].fetching
               PROVE  /\ Present(k) /\ cache[k].fetching
                      /\ cache'[k].fetchSeq = cache[k].fetchSeq
    BY DEF FetchingKept
  <1>1. CASE k \in Covers[p] /\ Present(k)
    <2>1. cache'[k] = [cache[k] EXCEPT !.stale = TRUE]
      BY <1>1 DEF MarkStale
    <2>2. cache[k] \in Entry
      BY <1>1, PresentTyped
    <2>3. cache'[k].fetching = cache[k].fetching /\ cache'[k].fetchSeq = cache[k].fetchSeq
      BY <2>1, <2>2 DEF Entry
    <2> QED
      BY <1>1, <2>3
  <1>2. CASE ~(k \in Covers[p] /\ Present(k))
    BY <1>2 DEF MarkStale, Present
  <1> QED
    BY <1>1, <1>2

LEMMA StartFetchHasFlight ==
  ASSUME TypeOK, FetchingHasFlight, NEW k \in Keys, NEW force \in BOOLEAN,
         StartFetch(k, force)
  PROVE  FetchingHasFlight'
  <1>1. CASE ~Starts(k, force)
    BY <1>1, UnchangedKeeps, KeptHasFlight DEF StartFetch
  <1>2. CASE Starts(k, force)
    <2>1. PICK w \in Workers : Launch(k, w)
      BY <1>2 DEF StartFetch
    <2>2. cache[k] \in Entry
      BY <1>2, PresentTyped DEF Starts
    <2>3. NextSeq(cache[k]) \in Nat
      BY <2>2 DEF NextSeq, Entry
    <2>4. Fetching(cache[k]) \in Entry /\ Fetching(cache[k]).fetchSeq = NextSeq(cache[k])
      BY <2>2, <2>3 DEF Fetching, Entry
    <2> DEFINE f == [key |-> k, seq |-> NextSeq(cache[k]), answered |-> FALSE,
                     ok |-> FALSE, data |-> {}]
    <2>5. f \in Flight
      BY <2>3 DEF Flight
    <2>6. f # NoFlight
      BY <2>5, AssumptionsHold DEF Assumptions
    <2>7. flight' = [flight EXCEPT ![w] = f] /\ cache' = [cache EXCEPT ![k] = Fetching(cache[k])]
      BY <2>1 DEF Launch
    <2>8. Carries(w, k)'
      BY <2>4, <2>6, <2>7 DEF Carries, TypeOK, Cache
    <2>9. ASSUME NEW j \in Keys, j # k, Present(j)', cache'[j].fetching
          PROVE  \E v \in Workers : Carries(v, j)'
      <3>1. cache'[j] = cache[j]
        BY <2>7, <2>9 DEF TypeOK, Cache
      <3>2. PICK v \in Workers : Carries(v, j)
        BY <2>9, <3>1 DEF FetchingHasFlight, Present
      <3>3. v # w
        BY <2>1, <3>2 DEF Carries, Launch
      <3>4. flight'[v] = flight[v]
        BY <2>7, <3>3 DEF TypeOK
      <3> QED
        BY <3>1, <3>2, <3>4 DEF Carries
    <2> QED
      BY <2>8, <2>9 DEF FetchingHasFlight
  <1> QED
    BY <1>1, <1>2

LEMMA AnswerHasFlight ==
  ASSUME TypeOK, FetchingHasFlight, NEW w \in Workers, Answer(w)
  PROVE  FetchingHasFlight'
  <1>1. cache' = cache
    BY DEF Answer
  <1>2. /\ flight[w] \in Flight
        /\ flight'[w] \in Flight
        /\ flight'[w].key = flight[w].key /\ flight'[w].seq = flight[w].seq
        /\ \A v \in Workers : v # w => flight'[v] = flight[v]
    <2>1. TypeOK'
      BY FetchStepTyped DEF FetchStep
    <2>2. flight[w] \in Flight
      BY DEF Answer, TypeOK
    <2>3. PICK ok \in BOOLEAN :
            flight' = [flight EXCEPT
                         ![w].answered = TRUE, ![w].ok = ok,
                         ![w].data = IF ok THEN server[flight[w].key] ELSE {}]
      BY DEF Answer
    <2>4. flight'[w] = [flight[w] EXCEPT !.answered = TRUE, !.ok = ok,
                          !.data = IF ok THEN server[flight[w].key] ELSE {}]
      BY <2>3 DEF TypeOK
    <2>5. flight'[w].key = flight[w].key /\ flight'[w].seq = flight[w].seq
      BY <2>2, <2>4 DEF Flight
    <2>6. flight'[w] # NoFlight
      <3>1. DOMAIN flight'[w] = DOMAIN flight[w]
        BY <2>4
      <3>2. \A d \in SUBSET Mutates :
              [flight[w] EXCEPT !.answered = TRUE, !.ok = ok, !.data = d] \in Flight
        BY <2>2 DEF Flight
      <3>3. (IF ok THEN server[flight[w].key] ELSE {}) \in SUBSET Mutates
        BY <2>2 DEF Flight, TypeOK
      <3> QED
        BY <2>4, <3>2, <3>3, AssumptionsHold DEF Assumptions
    <2>7. flight'[w] \in Flight
      BY <2>1, <2>6 DEF TypeOK
    <2>8. \A v \in Workers : v # w => flight'[v] = flight[v]
      BY <2>3 DEF TypeOK
    <2> QED
      BY <2>2, <2>5, <2>7, <2>8
  <1>3. flight'[w] # NoFlight
    BY <1>2, AssumptionsHold DEF Assumptions
  <1>4. \A v \in Workers, k \in Keys : Carries(v, k) => Carries(v, k)'
    BY <1>1, <1>2, <1>3 DEF Carries
  <1> QED
    BY <1>1, <1>4 DEF FetchingHasFlight, Present

LEMMA CompleteHasFlight ==
  ASSUME TypeOK, FetchingHasFlight, NEW w \in Workers, Complete(w)
  PROVE  FetchingHasFlight'
  <1> DEFINE k == flight[w].key
  <1>1. flight[w] \in Flight /\ k \in Keys
    BY DEF Complete, TypeOK, Flight
  <1>2. \A v \in Workers : v # w => flight'[v] = flight[v]
    BY DEF Complete, TypeOK
  <1>3. ASSUME NEW j \in Keys, Present(j)', cache'[j].fetching
        PROVE  \E v \in Workers : Carries(v, j)'
    <2>1. cache'[j] = cache[j] /\ ~(j = k /\ Current(w))
      <3>1. CASE j = k /\ Current(w)
        <4>1. cache[k] \in Entry
          BY <1>1, <3>1, PresentTyped DEF Current
        <4>2. cache'[j] = Answered(cache[k], flight[w])
          BY <1>1, <3>1 DEF Complete, TypeOK, Cache
        <4>3. ~Answered(cache[k], flight[w]).fetching
          BY <4>1 DEF Answered, Entry
        <4> QED
          BY <1>3, <4>2, <4>3
      <3>2. CASE ~(j = k /\ Current(w))
        BY <1>1, <3>2 DEF Complete, TypeOK, Cache
      <3> QED
        BY <3>1, <3>2
    <2>2. PICK v \in Workers : Carries(v, j)
      BY <1>3, <2>1 DEF FetchingHasFlight, Present
    <2>3. v # w
      <3>1. CASE j # k
        BY <2>2, <3>1 DEF Carries
      <3>2. CASE j = k
        BY <1>3, <2>1, <2>2, <3>2 DEF Carries, Current, Present
      <3> QED
        BY <3>1, <3>2
    <2> QED
      BY <1>2, <2>1, <2>2, <2>3 DEF Carries
  <1> QED
    BY <1>3 DEF FetchingHasFlight

LEMMA QueryStepHasFlight ==
  ASSUME TypeOK, FetchingHasFlight, QueryStep PROVE FetchingHasFlight'
  <1>1. ASSUME NEW u \in Uses, NEW k \in Keys, MountQuery(u, k) PROVE FetchingHasFlight'
    <2> DEFINE new == [FreshEntry EXCEPT !.stale = TRUE]
               e == EntryOr(k, new)
    <2>1. new \in Entry /\ ~new.fetching
      BY FreshTyped DEF FreshEntry
    <2>2. e \in Entry
      BY <2>1, EntryOrTyped
    <2>3. Subscribed(e).fetching = e.fetching /\ Subscribed(e).fetchSeq = e.fetchSeq
      BY <2>2 DEF Subscribed, Entry
    <2>4. cache' = [cache EXCEPT ![k] = Subscribed(e)] /\ flight' = flight
      BY <1>1 DEF MountQuery
    <2>5. e.fetching => /\ Present(k) /\ cache[k].fetching
                        /\ e.fetchSeq = cache[k].fetchSeq
      BY <2>1, EntryOrKeeps
    <2> HIDE DEF e
    <2> QED
      BY <2>3, <2>4, <2>5, WriteKeeps, KeptHasFlight
  <1>2. ASSUME NEW a \in Actors, NEW k \in Keys, StartQueued(a, k) PROVE FetchingHasFlight'
    BY <1>2, StartFetchHasFlight DEF StartQueued
  <1>3. ASSUME NEW u \in Uses, FinishMount(u) PROVE FetchingHasFlight'
    BY <1>3, UnchangedKeeps, KeptHasFlight DEF FinishMount
  <1>4. ASSUME NEW u \in Uses, ReleaseShared(u) PROVE FetchingHasFlight'
    <2>1. use[u].key \in Keys
      BY DEF TypeOK, UseRecord
    <2>2. CASE Present(use[u].key)
      <3>1. cache[use[u].key] \in Entry
        BY <2>1, <2>2, PresentTyped
      <3>2. /\ Unsubscribed(cache[use[u].key]).fetching = cache[use[u].key].fetching
            /\ Unsubscribed(cache[use[u].key]).fetchSeq = cache[use[u].key].fetchSeq
        BY <3>1 DEF Unsubscribed, Entry
      <3>3. cache' = [cache EXCEPT ![use[u].key] = Unsubscribed(cache[use[u].key])]
        BY <1>4, <2>2 DEF ReleaseShared
      <3>4. FetchingKept
        BY <2>1, <2>2, <3>2, <3>3, WriteKeeps
      <3> QED
        BY <1>4, <3>4, KeptHasFlight DEF ReleaseShared
    <2>3. CASE ~Present(use[u].key)
      BY <1>4, <2>3, UnchangedKeeps, KeptHasFlight DEF ReleaseShared
    <2> QED
      BY <2>2, <2>3
  <1>5. ASSUME NEW u \in Uses, ReleaseLast(u) PROVE FetchingHasFlight'
    <2> DEFINE k == use[u].key
               e == Unsubscribed(cache[k])
               d == [e EXCEPT !.evictSeq = e.evictSeq + 1]
    <2>1. k \in Keys /\ Present(k)
      BY <1>5 DEF ReleaseLast, TypeOK, UseRecord
    <2>2. cache[k] \in Entry /\ e \in Entry
      BY <2>1, PresentTyped, UnsubscribedTyped
    <2>3. d.fetching = e.fetching /\ d.fetchSeq = e.fetchSeq
      BY <2>2 DEF Entry
    <2>4. e.fetching = cache[k].fetching /\ e.fetchSeq = cache[k].fetchSeq
      BY <2>2 DEF Unsubscribed, Entry
    <2>5. cache' = [cache EXCEPT ![k] = d] /\ flight' = flight
      BY <1>5 DEF ReleaseLast
    <2> HIDE DEF d, e
    <2> QED
      BY <2>1, <2>3, <2>4, <2>5, WriteKeeps, KeptHasFlight
  <1>6. ASSUME NEW u \in Uses, EvictTimer(u) PROVE FetchingHasFlight'
    <2>1. use[u].key \in Keys
      BY DEF TypeOK, UseRecord
    <2>2. FetchingKept
      BY <1>6, <2>1 DEF EvictTimer, FetchingKept, Present, TypeOK, Cache
    <2> QED
      BY <1>6, <2>2, KeptHasFlight DEF EvictTimer
  <1>7. ASSUME NEW u \in Uses, Refetch(u) PROVE FetchingHasFlight'
    <2>1. use[u].key \in Keys
      BY DEF TypeOK, UseRecord
    <2> QED
      BY <1>7, <2>1, StartFetchHasFlight DEF Refetch
  <1>8. ASSUME NEW u \in Uses, InvalidateUse(u) PROVE FetchingHasFlight'
    BY <1>8, MarkStaleKeeps, KeptHasFlight DEF InvalidateUse
  <1> QED
    BY <1>1, <1>2, <1>3, <1>4, <1>5, <1>6, <1>7, <1>8 DEF QueryStep

LEMMA OtherStepHasFlight ==
  ASSUME TypeOK, FetchingHasFlight, FetchStep \/ ClientStep
  PROVE  FetchingHasFlight'
  <1>1. ASSUME NEW k \in Keys, Age(k) PROVE FetchingHasFlight'
    <2>1. cache[k] \in Entry
      BY <1>1, PresentTyped DEF Age
    <2> DEFINE d == [cache[k] EXCEPT !.expired = TRUE]
    <2>2. d.fetching = cache[k].fetching /\ d.fetchSeq = cache[k].fetchSeq
      BY <2>1 DEF Entry
    <2>3. cache' = [cache EXCEPT ![k] = d]
      BY <1>1 DEF Age
    <2> HIDE DEF d
    <2> QED
      BY <1>1, <2>2, <2>3, WriteKeeps, KeptHasFlight DEF Age
  <1>2. ASSUME NEW k \in Keys, RefetchActive(k) PROVE FetchingHasFlight'
    BY <1>2, UnchangedKeeps, KeptHasFlight DEF RefetchActive
  <1>3. CASE Focus
    BY <1>3, UnchangedKeeps, KeptHasFlight DEF Focus
  <1>4. CASE Clear
    <2>1. FetchingKept
      BY <1>4 DEF Clear, FetchingKept, Present
    <2> QED
      BY <1>4, <2>1, KeptHasFlight DEF Clear
  <1> QED
    BY <1>1, <1>2, <1>3, <1>4, AnswerHasFlight, CompleteHasFlight DEF FetchStep, ClientStep

LEMMA MutationStepHasFlight ==
  ASSUME TypeOK, FetchingHasFlight, MutationStep,
         \A m \in Mutates : ~Rollback(m)
  PROVE  FetchingHasFlight'
  <1>1. ASSUME NEW m \in Mutates, NEW k \in Keys, Begin(m, k) PROVE FetchingHasFlight'
    BY <1>1, UnchangedKeeps, KeptHasFlight DEF Begin
  <1>2. ASSUME NEW m \in Mutates, Send(m) \/ Commit(m) \/ Reject(m) \/ NoCallback(m)
        PROVE  FetchingHasFlight'
    BY <1>2, UnchangedKeeps, KeptHasFlight DEF Send, Commit, Reject, NoCallback
  <1>3. ASSUME NEW m \in Mutates, NEW failed \in BOOLEAN, Return(m, failed)
        PROVE  FetchingHasFlight'
    BY <1>3, UnchangedKeeps, KeptHasFlight DEF Return
  <1>4. ASSUME NEW m \in Mutates, ApplyOptimistic(m) \/ CallbackSetData(m)
        PROVE  FetchingHasFlight'
    <2>1. mut[m].key \in Keys
      BY DEF TypeOK, MutRecord
    <2> QED
      BY <1>4, <2>1, SetDataKeeps, KeptHasFlight DEF ApplyOptimistic, CallbackSetData
  <1>5. ASSUME NEW m \in Mutates, NEW p \in Prefixes, CallbackInvalidate(m, p)
        PROVE  FetchingHasFlight'
    BY <1>5, MarkStaleKeeps, KeptHasFlight DEF CallbackInvalidate
  <1> QED
    BY <1>1, <1>2, <1>3, <1>4, <1>5 DEF MutationStep

(***************************************************************************)
(* Without optimistic mutations, Fetching and Loading never stay up with   *)
(* no fetch behind them: whatever mounts, releases, evictions, forced      *)
(* refetches, invalidations, Clear calls and SetData writes come between   *)
(* startFetch and its completion (query.go, startFetch).  A rollback is    *)
(* the one operation that breaks it.                                       *)
(***************************************************************************)
THEOREM FetchingNeverStuck ==
  ASSUME Optimistic = {} PROVE Spec => []FetchingHasFlight
  <1> DEFINE IInv == TypeOK /\ NothingToRestore /\ FetchingHasFlight
  <1>1. Init => IInv
    BY InitTyped, NothingToRestoreInit DEF Init, FetchingHasFlight, Present
  <1>2. IInv /\ [Next]_vars => IInv'
    <2> SUFFICES ASSUME IInv, [Next]_vars PROVE IInv'
      OBVIOUS
    <2>1. TypeOK' /\ NothingToRestore' /\ \A m \in Mutates : ~Rollback(m)
      BY StepTyped, NothingToRestoreStep
    <2>2. ASSUME UNCHANGED vars PROVE FetchingHasFlight'
      BY <2>2, UnchangedKeeps, KeptHasFlight DEF vars
    <2>3. ASSUME Next PROVE FetchingHasFlight'
      BY <2>1, <2>3, QueryStepHasFlight, OtherStepHasFlight, MutationStepHasFlight DEF Next
    <2>4. FetchingHasFlight'
      BY <2>2, <2>3
    <2> QED
      BY <2>1, <2>4
  <1> QED
    BY <1>1, <1>2, PTL DEF Spec

-----------------------------------------------------------------------------
(***************************************************************************)
(* Subscriptions: entries count their components exactly.                   *)
(***************************************************************************)
LEMMA MountedFinite ==
  ASSUME NEW k PROVE IsFiniteSet(MountedOn(k)) /\ Cardinality(MountedOn(k)) \in Nat
  <1>1. MountedOn(k) \subseteq Uses
    BY DEF MountedOn
  <1> QED
    BY <1>1, FiniteAssumption, FS_Subset, FS_CardinalityType

LEMMA NobodyMounted ==
  ASSUME NEW k PROVE Cardinality(MountedOn(k)) = 0 <=> MountedOn(k) = {}
  BY MountedFinite, FS_EmptySet

\* One entry agrees with the components that have its key mounted.
Exact(k) ==
  IF Present(k) THEN cache[k].subscribers = Cardinality(MountedOn(k))
                ELSE MountedOn(k) = {}

\* A step that leaves k's mounted components and its count alone.
CountKept(k) ==
  /\ MountedOn(k)' = MountedOn(k)
  /\ IF Present(k)
     THEN Present(k)' /\ cache'[k].subscribers = cache[k].subscribers
     ELSE Present(k)' => cache'[k].subscribers = 0

LEMMA KeptExact ==
  ASSUME NEW k \in Keys, Exact(k), CountKept(k) PROVE Exact(k)'
  BY NobodyMounted DEF Exact, CountKept

LEMMA SameCacheKeeps ==
  ASSUME cache' = cache, NEW k \in Keys, MountedOn(k)' = MountedOn(k)
  PROVE  CountKept(k)
  BY DEF CountKept, Present

LEMMA SameUseMounted ==
  ASSUME use' = use, NEW k PROVE MountedOn(k)' = MountedOn(k)
  BY DEF MountedOn

\* Writing one entry without touching its count, or making it with none.
LEMMA WriteKeepsCount ==
  ASSUME TypeOK, NEW j \in Keys, NEW e, cache' = [cache EXCEPT ![j] = e], e # NoEntry,
         e.subscribers = IF Present(j) THEN cache[j].subscribers ELSE 0,
         NEW k \in Keys, MountedOn(k)' = MountedOn(k)
  PROVE  CountKept(k)
  <1>1. CASE k = j
    BY <1>1 DEF CountKept, Present, TypeOK, Cache
  <1>2. CASE k # j
    BY <1>2 DEF CountKept, Present, TypeOK, Cache
  <1> QED
    BY <1>1, <1>2

LEMMA EntryIsPresent ==
  ASSUME NEW e \in Entry PROVE e # NoEntry
  BY AssumptionsHold DEF Assumptions

LEMMA SetDataKeepsCount ==
  ASSUME TypeOK, NEW j \in Keys, NEW m \in Mutates, SetData(j, m),
         NEW k \in Keys, MountedOn(k)' = MountedOn(k)
  PROVE  CountKept(k)
  <1> DEFINE e == EntryOr(j, FreshEntry)
             d == [e EXCEPT !.data = e.data \cup {m}, !.hasData = TRUE,
                            !.err = FALSE, !.stale = FALSE, !.expired = FALSE]
  <1>1. e \in Entry
    BY EntryOrTyped, FreshTyped
  <1>2. d \in Entry /\ d.subscribers = e.subscribers
    BY <1>1 DEF Entry
  <1>3. e.subscribers = IF Present(j) THEN cache[j].subscribers ELSE 0
    BY DEF EntryOr, FreshEntry
  <1>4. cache' = [cache EXCEPT ![j] = d]
    BY DEF SetData
  <1> HIDE DEF d, e
  <1> QED
    BY <1>2, <1>3, <1>4, WriteKeepsCount, EntryIsPresent

LEMMA MarkStaleKeepsCount ==
  ASSUME TypeOK, NEW p, MarkStale(p), NEW k \in Keys, MountedOn(k)' = MountedOn(k)
  PROVE  CountKept(k)
  <1>1. CASE Present(k)
    <2>1. cache[k] \in Entry
      BY <1>1, PresentTyped
    <2> DEFINE d == [cache[k] EXCEPT !.stale = TRUE]
    <2>2. d \in Entry /\ d.subscribers = cache[k].subscribers
      BY <2>1 DEF Entry
    <2>3. cache'[k] = d \/ cache'[k] = cache[k]
      BY DEF MarkStale
    <2> QED
      BY <1>1, <2>1, <2>2, <2>3, EntryIsPresent DEF CountKept, Present
  <1>2. CASE ~Present(k)
    BY <1>2 DEF CountKept, MarkStale, Present
  <1> QED
    BY <1>1, <1>2

LEMMA StartFetchKeepsCount ==
  ASSUME TypeOK, NEW j \in Keys, NEW force \in BOOLEAN, StartFetch(j, force),
         NEW k \in Keys, MountedOn(k)' = MountedOn(k)
  PROVE  CountKept(k)
  <1>1. CASE ~Starts(j, force)
    BY <1>1, SameCacheKeeps DEF StartFetch
  <1>2. CASE Starts(j, force)
    <2>1. PICK w \in Workers : Launch(j, w)
      BY <1>2 DEF StartFetch
    <2>2. cache[j] \in Entry /\ Present(j)
      BY <1>2, PresentTyped DEF Starts
    <2>3. NextSeq(cache[j]) \in Nat
      BY <2>2 DEF NextSeq, Entry
    <2>4. /\ Fetching(cache[j]) \in Entry
          /\ Fetching(cache[j]).subscribers = cache[j].subscribers
      BY <2>2, <2>3 DEF Fetching, Entry
    <2>5. cache' = [cache EXCEPT ![j] = Fetching(cache[j])]
      BY <2>1 DEF Launch
    <2> QED
      BY <2>2, <2>4, <2>5, WriteKeepsCount, EntryIsPresent
  <1> QED
    BY <1>1, <1>2

-----------------------------------------------------------------------------
(* The operations that change who is mounted *)

LEMMA MountExact ==
  ASSUME TypeOK, SubscribersExact, NEW u \in Uses, NEW j \in Keys, MountQuery(u, j)
  PROVE  SubscribersExact'
  <1> DEFINE new == [FreshEntry EXCEPT !.stale = TRUE]
             e == EntryOr(j, new)
  <1>1. new \in Entry /\ new.subscribers = 0
    BY FreshTyped DEF FreshEntry
  <1>2. e \in Entry
    BY <1>1, EntryOrTyped
  <1>3. e.subscribers = Cardinality(MountedOn(j))
    BY <1>1, NobodyMounted DEF SubscribersExact, EntryOr
  <1>4. Subscribed(e) \in Entry /\ Subscribed(e).subscribers = e.subscribers + 1
    BY <1>2, SubscribedTyped DEF Subscribed, Entry
  <1>5. cache' = [cache EXCEPT ![j] = Subscribed(e)]
    BY DEF MountQuery
  <1> HIDE DEF e
  <1>6. /\ use[u].st = "new"
        /\ use'[u].st = "mounting" /\ use'[u].key = j
        /\ \A v \in Uses : v # u => use'[v].st = use[v].st /\ use'[v].key = use[v].key
    BY DEF MountQuery, TypeOK, UseRecord
  <1>7. MountedOn(j)' = MountedOn(j) \cup {u} /\ u \notin MountedOn(j)
    BY <1>6 DEF MountedOn
  <1>8. Cardinality(MountedOn(j)') = Cardinality(MountedOn(j)) + 1
    BY <1>7, MountedFinite, FS_AddElement
  <1>9. ASSUME NEW k \in Keys, k # j PROVE Exact(k)'
    <2>1. MountedOn(k)' = MountedOn(k)
      BY <1>6, <1>9 DEF MountedOn
    <2>2. cache'[k] = cache[k]
      BY <1>5, <1>9 DEF TypeOK, Cache
    <2> QED
      BY <2>1, <2>2 DEF SubscribersExact, Exact, Present
  <1>10. Exact(j)'
    BY <1>3, <1>4, <1>5, <1>8, EntryIsPresent DEF Exact, Present, TypeOK, Cache
  <1> QED
    BY <1>9, <1>10 DEF SubscribersExact, Exact

\* Release takes one component off its entry's count.
LEMMA ReleaseExact ==
  ASSUME TypeOK, SubscribersExact, NEW u \in Uses, NEW e \in Entry,
         NEW j \in Keys, use[u].key = j,
         use[u].st = "mounted",
         e.subscribers = Unsubscribed(cache[j]).subscribers,
         cache' = [cache EXCEPT ![j] = e],
         use'[u].st \in {"released", "done"},
         \A v \in Uses : v # u => use'[v] = use[v]
  PROVE  SubscribersExact'
  <1>2. u \in MountedOn(j)
    BY DEF MountedOn
  <1>3. Present(j) /\ cache[j].subscribers = Cardinality(MountedOn(j))
    BY <1>2 DEF SubscribersExact
  <1>4. Cardinality(MountedOn(j)) # 0 /\ Cardinality(MountedOn(j)) \in Nat
    BY <1>2, NobodyMounted, MountedFinite
  <1>5. cache[j] \in Entry
    BY <1>3, PresentTyped
  <1>6. Unsubscribed(cache[j]).subscribers = Cardinality(MountedOn(j)) - 1
    BY <1>3, <1>4, <1>5 DEF Unsubscribed, Entry
  <1>7. MountedOn(j)' = MountedOn(j) \ {u}
    BY DEF MountedOn
  <1>8. Cardinality(MountedOn(j)') = Cardinality(MountedOn(j)) - 1
    BY <1>2, <1>7, MountedFinite, FS_RemoveElement
  <1>9. ASSUME NEW k \in Keys, k # j PROVE Exact(k)'
    <2>1. MountedOn(k)' = MountedOn(k)
      BY <1>9 DEF MountedOn
    <2>2. cache'[k] = cache[k]
      BY <1>9 DEF TypeOK, Cache
    <2> QED
      BY <2>1, <2>2 DEF SubscribersExact, Exact, Present
  <1>10. Exact(j)'
    BY <1>6, <1>8, EntryIsPresent DEF Exact, Present, TypeOK, Cache
  <1> QED
    BY <1>9, <1>10 DEF SubscribersExact, Exact

LEMMA ReleaseSharedExact ==
  ASSUME TypeOK, SubscribersExact, NEW u \in Uses, ReleaseShared(u)
  PROVE  SubscribersExact'
  <1> DEFINE j == use[u].key
  <1>1. j \in Keys /\ u \in MountedOn(j) /\ use[u].st = "mounted"
    BY DEF ReleaseShared, TypeOK, UseRecord, MountedOn
  <1>2. Present(j)
    BY <1>1 DEF SubscribersExact
  <1>3. Unsubscribed(cache[j]) \in Entry
    BY <1>1, <1>2, PresentTyped, UnsubscribedTyped
  <1>4. cache' = [cache EXCEPT ![j] = Unsubscribed(cache[j])]
    BY <1>2 DEF ReleaseShared
  <1>5. use'[u].st = "done" /\ \A v \in Uses : v # u => use'[v] = use[v]
    BY DEF ReleaseShared, TypeOK, UseRecord
  <1> QED
    BY <1>1, <1>3, <1>4, <1>5, ReleaseExact

LEMMA ReleaseLastExact ==
  ASSUME TypeOK, SubscribersExact, NEW u \in Uses, ReleaseLast(u)
  PROVE  SubscribersExact'
  <1> DEFINE j == use[u].key
             e == Unsubscribed(cache[j])
             d == [e EXCEPT !.evictSeq = e.evictSeq + 1]
  <1>1. j \in Keys /\ Present(j) /\ use[u].st = "mounted"
    BY DEF ReleaseLast, TypeOK, UseRecord
  <1>2. e \in Entry /\ d \in Entry
    BY <1>1, PresentTyped, UnsubscribedTyped
  <1>3. d.subscribers = e.subscribers
    BY <1>2 DEF Entry
  <1>4. cache' = [cache EXCEPT ![j] = d]
    BY DEF ReleaseLast
  <1>5. use'[u].st = "released" /\ \A v \in Uses : v # u => use'[v] = use[v]
    BY DEF ReleaseLast, TypeOK, UseRecord
  <1> HIDE DEF d
  <1> QED
    BY <1>1, <1>2, <1>3, <1>4, <1>5, ReleaseExact

\* Only an entry that nobody has mounted is evicted.
LEMMA EvictExact ==
  ASSUME TypeOK, SubscribersExact, NEW u \in Uses, EvictTimer(u)
  PROVE  SubscribersExact'
  <1> DEFINE j == use[u].key
  <1>1. j \in Keys /\ use[u].st = "released" /\ use'[u].st = "done"
    BY DEF EvictTimer, TypeOK, UseRecord
  <1>2. \A v \in Uses : v # u => use'[v] = use[v]
    BY DEF EvictTimer, TypeOK
  <1>3. ASSUME NEW k \in Keys PROVE MountedOn(k)' = MountedOn(k)
    BY <1>1, <1>2 DEF MountedOn
  <1>4. CASE Evictable(j, use[u].seq)
    <2>1. MountedOn(j) = {}
      BY <1>1, <1>4, NobodyMounted DEF SubscribersExact, Evictable
    <2>2. cache' = [cache EXCEPT ![j] = NoEntry]
      BY <1>4 DEF EvictTimer
    <2>3. ASSUME NEW k \in Keys PROVE Exact(k)'
      <3>1. CASE k = j
        BY <1>1, <1>3, <2>1, <2>2, <3>1 DEF Exact, Present, TypeOK, Cache
      <3>2. CASE k # j
        BY <1>3, <2>2, <3>2 DEF SubscribersExact, Exact, Present, TypeOK, Cache
      <3> QED
        BY <3>1, <3>2
    <2> QED
      BY <2>3 DEF SubscribersExact, Exact
  <1>5. CASE ~Evictable(j, use[u].seq)
    <2>1. ASSUME NEW k \in Keys PROVE Exact(k)'
      BY <1>3, <1>5, SameCacheKeeps, KeptExact DEF EvictTimer, SubscribersExact, Exact
    <2> QED
      BY <2>1 DEF SubscribersExact, Exact
  <1> QED
    BY <1>4, <1>5

LEMMA AllKept ==
  ASSUME SubscribersExact, \A k \in Keys : CountKept(k) PROVE SubscribersExact'
  <1>1. ASSUME NEW k \in Keys PROVE Exact(k)'
    BY KeptExact DEF SubscribersExact, Exact
  <1> QED
    BY <1>1 DEF SubscribersExact, Exact

LEMMA QueryStepExact ==
  ASSUME TypeOK, SubscribersExact, QueryStep PROVE SubscribersExact'
  <1>1. ASSUME NEW a \in Actors, NEW k \in Keys, StartQueued(a, k) PROVE SubscribersExact'
    BY <1>1, SameUseMounted, StartFetchKeepsCount, AllKept DEF StartQueued
  <1>2. ASSUME NEW u \in Uses, FinishMount(u) PROVE SubscribersExact'
    <2>1. /\ use[u].st = "mounting"
          /\ use'[u].st = "mounted" /\ use'[u].key = use[u].key
          /\ \A v \in Uses : v # u => use'[v] = use[v]
      BY <1>2 DEF FinishMount, TypeOK, UseRecord
    <2>2. ASSUME NEW k \in Keys PROVE MountedOn(k)' = MountedOn(k)
      BY <2>1 DEF MountedOn
    <2> QED
      BY <1>2, <2>2, SameCacheKeeps, AllKept DEF FinishMount
  <1>3. ASSUME NEW u \in Uses, Refetch(u) PROVE SubscribersExact'
    <2>1. use[u].key \in Keys
      BY DEF TypeOK, UseRecord
    <2> QED
      BY <1>3, <2>1, SameUseMounted, StartFetchKeepsCount, AllKept DEF Refetch
  <1>4. ASSUME NEW u \in Uses, InvalidateUse(u) PROVE SubscribersExact'
    BY <1>4, SameUseMounted, MarkStaleKeepsCount, AllKept DEF InvalidateUse
  <1> QED
    BY <1>1, <1>2, <1>3, <1>4, MountExact, ReleaseSharedExact, ReleaseLastExact, EvictExact
       DEF QueryStep

LEMMA OtherStepExact ==
  ASSUME Clearable = FALSE, TypeOK, SubscribersExact, FetchStep \/ ClientStep
  PROVE  SubscribersExact'
  <1>1. ASSUME NEW w \in Workers, Answer(w) PROVE SubscribersExact'
    BY <1>1, SameUseMounted, SameCacheKeeps, AllKept DEF Answer
  <1>2. ASSUME NEW w \in Workers, Complete(w) PROVE SubscribersExact'
    <2> DEFINE j == flight[w].key
    <2>1. flight[w] \in Flight /\ j \in Keys
      BY <1>2 DEF Complete, TypeOK, Flight
    <2>2. CASE Current(w)
      <3>1. cache[j] \in Entry /\ Present(j)
        BY <2>1, <2>2, PresentTyped DEF Current
      <3>2. /\ Answered(cache[j], flight[w]) \in Entry
            /\ Answered(cache[j], flight[w]).subscribers = cache[j].subscribers
        BY <2>1, <3>1, AnsweredTyped DEF Answered, Entry
      <3>3. cache' = [cache EXCEPT ![j] = Answered(cache[j], flight[w])] /\ use' = use
        BY <1>2, <2>2 DEF Complete
      <3> QED
        BY <2>1, <3>1, <3>2, <3>3, SameUseMounted, WriteKeepsCount, EntryIsPresent, AllKept
    <2>3. CASE ~Current(w)
      BY <1>2, <2>3, SameUseMounted, SameCacheKeeps, AllKept DEF Complete
    <2> QED
      BY <2>2, <2>3
  <1>3. ASSUME NEW j \in Keys, Age(j) PROVE SubscribersExact'
    <2>1. cache[j] \in Entry /\ Present(j)
      BY <1>3, PresentTyped DEF Age
    <2> DEFINE d == [cache[j] EXCEPT !.expired = TRUE]
    <2>2. d \in Entry /\ d.subscribers = cache[j].subscribers
      BY <2>1 DEF Entry
    <2>3. cache' = [cache EXCEPT ![j] = d] /\ use' = use
      BY <1>3 DEF Age
    <2> HIDE DEF d
    <2> QED
      BY <2>1, <2>2, <2>3, SameUseMounted, WriteKeepsCount, EntryIsPresent, AllKept
  <1>4. ASSUME ClientStep PROVE SubscribersExact'
    <2>1. cache' = cache /\ use' = use
      BY <1>4 DEF ClientStep, Focus, RefetchActive, Clear
    <2> QED
      BY <2>1, SameUseMounted, SameCacheKeeps, AllKept
  <1> QED
    BY <1>1, <1>2, <1>3, <1>4 DEF FetchStep

LEMMA MutationStepExact ==
  ASSUME TypeOK, SubscribersExact, MutationStep, \A m \in Mutates : ~Rollback(m)
  PROVE  SubscribersExact'
  <1>1. ASSUME use' = use, cache' = cache PROVE SubscribersExact'
    BY <1>1, SameUseMounted, SameCacheKeeps, AllKept
  <1>2. ASSUME NEW m \in Mutates, NEW k \in Keys, Begin(m, k) PROVE SubscribersExact'
    BY <1>1, <1>2 DEF Begin
  <1>3. ASSUME NEW m \in Mutates, Send(m) \/ Commit(m) \/ Reject(m) \/ NoCallback(m)
        PROVE  SubscribersExact'
    BY <1>1, <1>3 DEF Send, Commit, Reject, NoCallback
  <1>4. ASSUME NEW m \in Mutates, NEW failed \in BOOLEAN, Return(m, failed)
        PROVE  SubscribersExact'
    BY <1>1, <1>4 DEF Return
  <1>5. ASSUME NEW m \in Mutates, ApplyOptimistic(m) \/ CallbackSetData(m)
        PROVE  SubscribersExact'
    <2>1. mut[m].key \in Keys
      BY DEF TypeOK, MutRecord
    <2> QED
      BY <1>5, <2>1, SameUseMounted, SetDataKeepsCount, AllKept
         DEF ApplyOptimistic, CallbackSetData
  <1>6. ASSUME NEW m \in Mutates, NEW p \in Prefixes, CallbackInvalidate(m, p)
        PROVE  SubscribersExact'
    BY <1>6, SameUseMounted, MarkStaleKeepsCount, AllKept DEF CallbackInvalidate
  <1> QED
    BY <1>2, <1>3, <1>4, <1>5, <1>6 DEF MutationStep

(***************************************************************************)
(* In every application without Clear and optimistic mutations, however    *)
(* many components mount and release a query while timers fire and fetches *)
(* complete, an entry counts exactly the components that have it mounted,  *)
(* and so no timer ever evicts a query that is on screen (query.go,        *)
(* UseQuery and Release).                                                  *)
(***************************************************************************)
THEOREM SubscribersCounted ==
  ASSUME Optimistic = {}, Clearable = FALSE PROVE Spec => []SubscribersExact
  <1> DEFINE IInv == TypeOK /\ NothingToRestore /\ SubscribersExact
  <1>1. Init => IInv
    <2> SUFFICES ASSUME Init PROVE SubscribersExact
      BY InitTyped, NothingToRestoreInit
    <2>1. ASSUME NEW k \in Keys PROVE ~Present(k) /\ MountedOn(k) = {}
      BY DEF Init, Present, MountedOn
    <2> QED
      BY <2>1 DEF SubscribersExact
  <1>2. IInv /\ [Next]_vars => IInv'
    <2> SUFFICES ASSUME IInv, [Next]_vars PROVE IInv'
      OBVIOUS
    <2>1. TypeOK' /\ NothingToRestore' /\ \A m \in Mutates : ~Rollback(m)
      BY StepTyped, NothingToRestoreStep
    <2>2. ASSUME UNCHANGED vars PROVE SubscribersExact'
      BY <2>2, SameUseMounted, SameCacheKeeps, AllKept DEF vars
    <2>3. ASSUME Next PROVE SubscribersExact'
      BY <2>1, <2>3, QueryStepExact, OtherStepExact, MutationStepExact DEF Next
    <2> QED
      BY <2>1, <2>2, <2>3
  <1> QED
    BY <1>1, <1>2, PTL DEF Spec

-----------------------------------------------------------------------------
(***************************************************************************)
(* Stale data of mounted queries is never forgotten.                        *)
(***************************************************************************)
\* What StaleAttended asks attention for.
Neglected(k) ==
  /\ Present(k)
  /\ cache[k].subscribers > 0
  /\ cache[k].stale \/ ~cache[k].hasData
  /\ ~cache[k].fetching
  /\ ~cache[k].err

Attended(k) == \E a \in Actors : k \in todo[a]

\* A query that somebody mounted can be fetched.
MountedFetchable ==
  \A k \in Keys : Present(k) /\ cache[k].subscribers > 0 => cache[k].fetchable

\* A component yet to mount and a mutation yet to finish owe no startFetch.
NothingOwedYet ==
  /\ \A u \in Uses : use[u].st = "new" => todo[u] = {}
  /\ \A m \in Mutates : mut[m].st # "done" => todo[m] = {}

StaleInv == MountedFetchable /\ NothingOwedYet /\ StaleAttended

LEMMA StaleAttendedMeans == StaleAttended <=> \A k \in Keys : Neglected(k) => Attended(k)
  BY DEF StaleAttended, Neglected, Attended

\* The step neglects no entry that was not neglected, and keeps fetchability.
EntryKept(k) ==
  /\ Neglected(k)' => Neglected(k)
  /\ Present(k)' /\ cache'[k].subscribers > 0 /\ ~cache'[k].fetchable
       => Present(k) /\ cache[k].subscribers > 0 /\ ~cache[k].fetchable

LEMMA SameEntryKept ==
  ASSUME NEW k \in Keys, cache'[k] = cache[k] PROVE EntryKept(k)
  BY DEF EntryKept, Neglected, Present

LEMMA KeptFetchable ==
  ASSUME MountedFetchable, \A k \in Keys : EntryKept(k) PROVE MountedFetchable'
  BY DEF MountedFetchable, EntryKept

LEMMA KeptAttended ==
  ASSUME StaleAttended, NEW k \in Keys, EntryKept(k), Neglected(k)',
         \A a \in Actors : k \in todo[a] => k \in todo'[a]
  PROVE  Attended(k)'
  BY StaleAttendedMeans DEF EntryKept, Attended

\* Steps that owe no less than before and neglect no more.
LEMMA AllKeptInv ==
  ASSUME StaleInv, \A k \in Keys : EntryKept(k), NothingOwedYet',
         \A a \in Actors, k \in Keys : k \in todo[a] => k \in todo'[a]
  PROVE  StaleInv'
  <1>1. MountedFetchable'
    BY KeptFetchable DEF StaleInv
  <1>2. ASSUME NEW k \in Keys, Neglected(k)' PROVE Attended(k)'
    BY <1>2, KeptAttended DEF StaleInv
  <1>3. StaleAttended'
    BY <1>2 DEF StaleAttended, Neglected, Attended
  <1> QED
    BY <1>1, <1>3 DEF StaleInv

LEMMA SameOwed ==
  ASSUME NothingOwedYet, todo' = todo, use' = use, mut' = mut PROVE NothingOwedYet'
  BY DEF NothingOwedYet

LEMMA WriteKept ==
  ASSUME TypeOK, NEW j \in Keys, NEW e, cache' = [cache EXCEPT ![j] = e],
         NEW k \in Keys, k = j => EntryKept(j)
  PROVE  EntryKept(k)
  BY SameEntryKept DEF TypeOK, Cache

LEMMA SetDataKept ==
  ASSUME TypeOK, NEW j \in Keys, NEW m \in Mutates, SetData(j, m), NEW k \in Keys
  PROVE  EntryKept(k)
  <1> DEFINE e == EntryOr(j, FreshEntry)
             d == [e EXCEPT !.data = e.data \cup {m}, !.hasData = TRUE,
                            !.err = FALSE, !.stale = FALSE, !.expired = FALSE]
  <1>1. e \in Entry
    BY EntryOrTyped, FreshTyped
  <1>2. /\ d.hasData /\ ~d.stale
        /\ d.subscribers = e.subscribers /\ d.fetchable = e.fetchable
    BY <1>1 DEF Entry
  <1>3. e.subscribers = IF Present(j) THEN cache[j].subscribers ELSE 0
    BY DEF EntryOr, FreshEntry
  <1>4. Present(j) => e = cache[j]
    BY DEF EntryOr
  <1>5. cache' = [cache EXCEPT ![j] = d]
    BY DEF SetData
  <1> HIDE DEF d, e
  <1>6. cache'[j] = d
    BY <1>5 DEF TypeOK, Cache
  <1>7. EntryKept(j)
    BY <1>2, <1>3, <1>4, <1>6 DEF EntryKept, Neglected, Present
  <1> QED
    BY <1>5, <1>7, WriteKept

-----------------------------------------------------------------------------
(* startFetch attends to what it is called for *)

LEMMA StartFetchKept ==
  ASSUME TypeOK, NEW j \in Keys, NEW force \in BOOLEAN, StartFetch(j, force)
  PROVE  /\ \A k \in Keys : EntryKept(k)
         /\ MountedFetchable => ~Neglected(j)'
  <1>1. CASE ~Starts(j, force)
    <2>1. cache' = cache
      BY <1>1 DEF StartFetch
    <2>2. ASSUME MountedFetchable, Neglected(j)' PROVE FALSE
      BY <1>1, <2>1, <2>2 DEF MountedFetchable, Neglected, Present, Starts
    <2> QED
      BY <2>1, <2>2, SameEntryKept
  <1>2. CASE Starts(j, force)
    <2>1. PICK w \in Workers : Launch(j, w)
      BY <1>2 DEF StartFetch
    <2>2. cache[j] \in Entry /\ Present(j) /\ cache[j].fetchable
      BY <1>2, PresentTyped DEF Starts
    <2>3. NextSeq(cache[j]) \in Nat
      BY <2>2 DEF NextSeq, Entry
    <2>4. Fetching(cache[j]).fetching /\ Fetching(cache[j]).fetchable
      BY <2>2, <2>3 DEF Fetching, Entry
    <2>5. cache' = [cache EXCEPT ![j] = Fetching(cache[j])]
      BY <2>1 DEF Launch
    <2>6. cache'[j] = Fetching(cache[j])
      BY <2>5 DEF TypeOK, Cache
    <2>7. ~Neglected(j)' /\ EntryKept(j)
      BY <2>4, <2>6 DEF EntryKept, Neglected
    <2> QED
      BY <2>5, <2>7, WriteKept
  <1> QED
    BY <1>1, <1>2

LEMMA StartQueuedStale ==
  ASSUME TypeOK, StaleInv, NEW a \in Actors, NEW j \in Keys, StartQueued(a, j)
  PROVE  StaleInv'
  <1>1. (\A k \in Keys : EntryKept(k)) /\ ~Neglected(j)'
    BY StartFetchKept DEF StartQueued, StaleInv
  <1>2. /\ todo'[a] = todo[a] \ {j}
        /\ \A b \in Actors : b # a => todo'[b] = todo[b]
    BY DEF StartQueued, TypeOK
  <1>3. NothingOwedYet'
    BY <1>2 DEF StaleInv, NothingOwedYet, StartQueued, Actors
  <1>4. MountedFetchable'
    BY <1>1, KeptFetchable DEF StaleInv
  <1>5. ASSUME NEW k \in Keys, Neglected(k)' PROVE Attended(k)'
    <2>1. k # j
      BY <1>1, <1>5
    <2>2. \A b \in Actors : k \in todo[b] => k \in todo'[b]
      BY <1>2, <2>1
    <2> QED
      BY <1>1, <1>5, <2>2, KeptAttended DEF StaleInv
  <1>6. StaleAttended'
    BY <1>5 DEF StaleAttended, Neglected, Attended
  <1> QED
    BY <1>3, <1>4, <1>6 DEF StaleInv

-----------------------------------------------------------------------------
(* UseQuery and Invalidate owe a startFetch for what they leave neglected *)

LEMMA MountStale ==
  ASSUME TypeOK, StaleInv, NEW u \in Uses, NEW j \in Keys, MountQuery(u, j)
  PROVE  StaleInv'
  <1> DEFINE new == [FreshEntry EXCEPT !.stale = TRUE]
             e == Subscribed(EntryOr(j, new))
  <1>1. EntryOr(j, new) \in Entry /\ e \in Entry
    BY FreshTyped, EntryOrTyped, SubscribedTyped
  <1>2. e.fetchable
    BY <1>1 DEF Subscribed, Entry
  <1>3. /\ cache' = [cache EXCEPT ![j] = e]
        /\ todo' = [todo EXCEPT ![u] = IF ShouldFetch(e) THEN {j} ELSE {}]
    BY DEF MountQuery
  <1> HIDE DEF e
  <1>4. /\ todo[u] = {}
        /\ use[u].st = "new" /\ use'[u].st = "mounting" /\ mut' = mut
        /\ \A v \in Uses : v # u => use'[v].st = use[v].st
    BY DEF MountQuery, StaleInv, NothingOwedYet, TypeOK, UseRecord
  <1>5. /\ u \in Actors
        /\ \A a \in Actors : a # u => todo'[a] = todo[a]
        /\ todo'[u] = IF ShouldFetch(e) THEN {j} ELSE {}
    BY <1>3 DEF TypeOK, Actors
  <1>6. NothingOwedYet'
    <2>1. ASSUME NEW v \in Uses, use'[v].st = "new" PROVE todo'[v] = {}
      BY <1>4, <1>5, <2>1 DEF StaleInv, NothingOwedYet, Actors
    <2>2. ASSUME NEW m \in Mutates, mut'[m].st # "done" PROVE todo'[m] = {}
      BY <1>4, <1>5, <2>2, ActorsAssumption DEF StaleInv, NothingOwedYet, Actors
    <2> QED
      BY <2>1, <2>2 DEF NothingOwedYet
  <1>7. ASSUME NEW k \in Keys, k # j PROVE EntryKept(k)
    BY <1>3, <1>7, SameEntryKept DEF TypeOK, Cache
  <1>8. cache'[j] = e
    BY <1>3 DEF TypeOK, Cache
  <1>9. MountedFetchable'
    BY <1>2, <1>7, <1>8 DEF MountedFetchable, EntryKept, StaleInv
  <1>10. ASSUME NEW k \in Keys, Neglected(k)' PROVE Attended(k)'
    <2>1. CASE k = j
      <3>1. ShouldFetch(e)
        BY <1>8, <1>10, <2>1 DEF Neglected, ShouldFetch
      <3> QED
        BY <1>5, <2>1, <3>1 DEF Attended
    <2>2. CASE k # j
      <3>1. \A a \in Actors : k \in todo[a] => k \in todo'[a]
        BY <1>4, <1>5
      <3> QED
        BY <1>7, <1>10, <2>2, <3>1, KeptAttended DEF StaleInv
    <2> QED
      BY <2>1, <2>2
  <1>11. StaleAttended'
    BY <1>10 DEF StaleAttended, Neglected, Attended
  <1> QED
    BY <1>6, <1>9, <1>11 DEF StaleInv

LEMMA InvalidateStale ==
  ASSUME TypeOK, StaleInv, NEW p \in Prefixes, MarkStale(p), NEW a \in Actors,
         todo[a] = {}, todo' = [todo EXCEPT ![a] = Active(p)], NothingOwedYet'
  PROVE  StaleInv'
  <1>1. /\ todo'[a] = Active(p)
        /\ \A b \in Actors : b # a => todo'[b] = todo[b]
    BY DEF TypeOK
  <1>2. ASSUME NEW k \in Keys, k \in Covers[p], Present(k)
        PROVE  /\ Present(k)'
               /\ cache'[k].subscribers = cache[k].subscribers
               /\ cache'[k].fetchable = cache[k].fetchable
    <2>1. cache[k] \in Entry
      BY <1>2, PresentTyped
    <2>2. cache'[k] = [cache[k] EXCEPT !.stale = TRUE]
      BY <1>2 DEF MarkStale
    <2>3. [cache[k] EXCEPT !.stale = TRUE] \in Entry
      BY <2>1 DEF Entry
    <2>4. cache'[k] # NoEntry
      BY <2>2, <2>3, AssumptionsHold DEF Assumptions
    <2> QED
      BY <2>1, <2>2, <2>4 DEF Entry, Present
  <1>3. ASSUME NEW k \in Keys, ~(k \in Covers[p] /\ Present(k)) PROVE EntryKept(k)
    BY <1>3, SameEntryKept DEF MarkStale
  <1>4. MountedFetchable'
    BY <1>2, <1>3 DEF MountedFetchable, EntryKept, StaleInv
  <1>5. ASSUME NEW k \in Keys, Neglected(k)' PROVE Attended(k)'
    <2>1. CASE k \in Covers[p] /\ Present(k)
      <3>1. k \in Active(p)
        BY <1>2, <1>5, <2>1 DEF Active, Neglected, MountedFetchable, StaleInv
      <3> QED
        BY <1>1, <3>1 DEF Attended
    <2>2. CASE ~(k \in Covers[p] /\ Present(k))
      <3>1. \A b \in Actors : k \in todo[b] => k \in todo'[b]
        BY <1>1
      <3> QED
        BY <1>3, <1>5, <2>2, <3>1, KeptAttended DEF StaleInv
    <2> QED
      BY <2>1, <2>2
  <1>6. StaleAttended'
    BY <1>5 DEF StaleAttended, Neglected, Attended
  <1> QED
    BY <1>4, <1>6 DEF StaleInv

-----------------------------------------------------------------------------
LEMMA QueryStepStale ==
  ASSUME TypeOK, StaleInv, QueryStep PROVE StaleInv'
  <1>1. ASSUME NEW u \in Uses, FinishMount(u) PROVE StaleInv'
    <2>1. NothingOwedYet'
      BY <1>1 DEF FinishMount, StaleInv, NothingOwedYet, TypeOK, UseRecord
    <2> QED
      BY <1>1, <2>1, SameEntryKept, AllKeptInv DEF FinishMount
  <1>2. ASSUME NEW u \in Uses, ReleaseShared(u) PROVE StaleInv'
    <2>1. NothingOwedYet'
      BY <1>2 DEF ReleaseShared, StaleInv, NothingOwedYet, TypeOK, UseRecord
    <2> DEFINE j == use[u].key
    <2>2. j \in Keys
      BY DEF TypeOK, UseRecord
    <2>3. CASE Present(j)
      <3>1. cache[j] \in Entry
        BY <2>2, <2>3, PresentTyped
      <3> DEFINE e == Unsubscribed(cache[j])
      <3>2. /\ e.subscribers > 0 => cache[j].subscribers > 0
            /\ e.fetchable = cache[j].fetchable /\ e.fetching = cache[j].fetching
            /\ e.stale = cache[j].stale /\ e.hasData = cache[j].hasData
            /\ e.err = cache[j].err
        BY <3>1 DEF Unsubscribed, Entry
      <3>3. cache' = [cache EXCEPT ![j] = e]
        BY <1>2, <2>3 DEF ReleaseShared
      <3> HIDE DEF e
      <3>4. cache'[j] = e
        BY <2>2, <3>3 DEF TypeOK, Cache
      <3>5. ASSUME NEW k \in Keys PROVE EntryKept(k)
        <4>1. CASE k = j
          <5>1. cache'[k] = e
            BY <3>4, <4>1
          <5> QED
            BY <2>3, <3>2, <4>1, <5>1 DEF EntryKept, Neglected, Present
        <4>2. CASE k # j
          BY <3>3, <4>2, SameEntryKept DEF TypeOK, Cache
        <4> QED
          BY <4>1, <4>2
      <3> QED
        BY <1>2, <2>1, <3>5, AllKeptInv DEF ReleaseShared
    <2>4. CASE ~Present(j)
      <3>1. cache' = cache
        BY <1>2, <2>4 DEF ReleaseShared
      <3> QED
        BY <1>2, <2>1, <3>1, SameEntryKept, AllKeptInv DEF ReleaseShared
    <2> QED
      BY <2>3, <2>4
  <1>3. ASSUME NEW u \in Uses, ReleaseLast(u) PROVE StaleInv'
    <2>1. NothingOwedYet'
      BY <1>3 DEF ReleaseLast, StaleInv, NothingOwedYet, TypeOK, UseRecord
    <2> DEFINE j == use[u].key
               e == Unsubscribed(cache[j])
               d == [e EXCEPT !.evictSeq = e.evictSeq + 1]
    <2>2. j \in Keys /\ Present(j) /\ e.subscribers = 0
      BY <1>3 DEF ReleaseLast, TypeOK, UseRecord
    <2>3. e \in Entry
      BY <2>2, PresentTyped, UnsubscribedTyped
    <2>4. d.subscribers = 0
      BY <2>2, <2>3 DEF Entry
    <2>5. cache' = [cache EXCEPT ![j] = d]
      BY <1>3 DEF ReleaseLast
    <2> HIDE DEF d
    <2>6. cache'[j] = d
      BY <2>2, <2>5 DEF TypeOK, Cache
    <2>7. ASSUME NEW k \in Keys PROVE EntryKept(k)
      <3>1. CASE k = j
        BY <2>4, <2>6, <3>1 DEF EntryKept, Neglected
      <3>2. CASE k # j
        BY <2>5, <3>2, SameEntryKept DEF TypeOK, Cache
      <3> QED
        BY <3>1, <3>2
    <2> QED
      BY <1>3, <2>1, <2>7, AllKeptInv DEF ReleaseLast
  <1>4. ASSUME NEW u \in Uses, EvictTimer(u) PROVE StaleInv'
    <2>1. NothingOwedYet'
      BY <1>4 DEF EvictTimer, StaleInv, NothingOwedYet, TypeOK, UseRecord
    <2>2. ASSUME NEW k \in Keys PROVE cache'[k] = cache[k] \/ cache'[k] = NoEntry
      BY <1>4 DEF EvictTimer, TypeOK, Cache
    <2>3. ASSUME NEW k \in Keys PROVE EntryKept(k)
      BY <2>2, SameEntryKept DEF EntryKept, Neglected, Present
    <2> QED
      BY <1>4, <2>1, <2>3, AllKeptInv DEF EvictTimer
  <1>5. ASSUME NEW u \in Uses, Refetch(u) PROVE StaleInv'
    <2>1. use[u].key \in Keys
      BY DEF TypeOK, UseRecord
    <2>2. \A k \in Keys : EntryKept(k)
      BY <1>5, <2>1, StartFetchKept DEF Refetch
    <2> QED
      BY <1>5, <2>2, SameOwed, AllKeptInv DEF Refetch, StaleInv
  <1>6. ASSUME NEW u \in Uses, InvalidateUse(u) PROVE StaleInv'
    <2>1. use[u].key \in Prefixes /\ u \in Actors
      BY AssumptionsHold DEF TypeOK, UseRecord, Assumptions, Actors
    <2>2. NothingOwedYet'
      <3>1. \A b \in Actors : b # u => todo'[b] = todo[b]
        BY <1>6 DEF InvalidateUse, TypeOK
      <3>2. \A m \in Mutates : m # u /\ m \in Actors
        BY ActorsAssumption DEF Actors
      <3> QED
        BY <1>6, <3>1, <3>2 DEF InvalidateUse, StaleInv, NothingOwedYet, Actors
    <2> QED
      BY <1>6, <2>1, <2>2, InvalidateStale DEF InvalidateUse
  <1> QED
    BY <1>1, <1>2, <1>3, <1>4, <1>5, <1>6, MountStale, StartQueuedStale DEF QueryStep

LEMMA FetchStepStale ==
  ASSUME TypeOK, StaleInv, FetchStep PROVE StaleInv'
  <1>1. NothingOwedYet' /\ todo' = todo
    BY SameOwed DEF FetchStep, Answer, Complete, Age, StaleInv
  <1>2. ASSUME NEW w \in Workers, Answer(w) PROVE \A k \in Keys : EntryKept(k)
    BY <1>2, SameEntryKept DEF Answer
  <1>3. ASSUME NEW w \in Workers, Complete(w) PROVE \A k \in Keys : EntryKept(k)
    <2> DEFINE j == flight[w].key
               e == Answered(cache[j], flight[w])
    <2>1. flight[w] \in Flight /\ j \in Keys
      BY <1>3 DEF Complete, TypeOK, Flight
    <2>2. CASE Current(w)
      <3>1. cache[j] \in Entry /\ Present(j)
        BY <2>1, <2>2, PresentTyped DEF Current
      <3>2. /\ e.err \/ (e.hasData /\ ~e.stale)
            /\ e.subscribers = cache[j].subscribers /\ e.fetchable = cache[j].fetchable
        BY <3>1 DEF Answered, Entry
      <3>3. cache' = [cache EXCEPT ![j] = e]
        BY <1>3, <2>2 DEF Complete
      <3> HIDE DEF e
      <3>4. cache'[j] = e
        BY <2>1, <3>3 DEF TypeOK, Cache
      <3>5. ASSUME NEW k \in Keys PROVE EntryKept(k)
        <4>1. CASE k = j
          BY <3>1, <3>2, <3>4, <4>1 DEF EntryKept, Neglected
        <4>2. CASE k # j
          BY <3>3, <4>2, SameEntryKept DEF TypeOK, Cache
        <4> QED
          BY <4>1, <4>2
      <3> QED
        BY <3>5
    <2>3. CASE ~Current(w)
      BY <1>3, <2>3, SameEntryKept DEF Complete
    <2> QED
      BY <2>2, <2>3
  <1>4. ASSUME NEW j \in Keys, Age(j) PROVE \A k \in Keys : EntryKept(k)
    <2>1. cache[j] \in Entry /\ Present(j)
      BY <1>4, PresentTyped DEF Age
    <2> DEFINE e == [cache[j] EXCEPT !.expired = TRUE]
    <2>2. /\ e.subscribers = cache[j].subscribers /\ e.fetchable = cache[j].fetchable
          /\ e.stale = cache[j].stale /\ e.hasData = cache[j].hasData
          /\ e.fetching = cache[j].fetching /\ e.err = cache[j].err
      BY <2>1 DEF Entry
    <2>3. cache' = [cache EXCEPT ![j] = e]
      BY <1>4 DEF Age
    <2> HIDE DEF e
    <2>4. cache'[j] = e
      BY <2>3 DEF TypeOK, Cache
    <2>5. EntryKept(j)
      BY <2>1, <2>2, <2>4 DEF EntryKept, Neglected
    <2> QED
      BY <2>3, <2>5, WriteKept
  <1> QED
    BY <1>1, <1>2, <1>3, <1>4, AllKeptInv DEF FetchStep

LEMMA ClientStepStale ==
  ASSUME TypeOK, StaleInv, ClientStep PROVE StaleInv'
  <1>1. CASE Focus
    BY <1>1, SameOwed, SameEntryKept, AllKeptInv DEF Focus, StaleInv
  <1>2. ASSUME NEW k \in Keys, RefetchActive(k) PROVE StaleInv'
    <2>1. \A b \in Actors : b # Window => todo'[b] = todo[b]
      BY <1>2 DEF RefetchActive, TypeOK
    <2>2. Window \notin Uses /\ Window \notin Mutates /\ todo[Window] = {}
      BY <1>2, ActorsAssumption DEF RefetchActive
    <2>3. NothingOwedYet'
      BY <1>2, <2>1, <2>2 DEF RefetchActive, StaleInv, NothingOwedYet, Actors
    <2>4. \A a \in Actors, j \in Keys : j \in todo[a] => j \in todo'[a]
      BY <2>1, <2>2
    <2> QED
      BY <1>2, <2>3, <2>4, SameEntryKept, AllKeptInv DEF RefetchActive
  <1>3. CASE Clear
    <2>1. ASSUME NEW k \in Keys PROVE EntryKept(k)
      BY <1>3 DEF Clear, EntryKept, Neglected, Present
    <2> QED
      BY <1>3, <2>1, SameOwed, AllKeptInv DEF Clear, StaleInv
  <1> QED
    BY <1>1, <1>2, <1>3 DEF ClientStep

LEMMA MutationStepStale ==
  ASSUME TypeOK, StaleInv, MutationStep, \A m \in Mutates : ~Rollback(m)
  PROVE  StaleInv'
  <1>1. ASSUME NEW m \in Mutates, use' = use, todo' = todo, mut[m].st # "done",
               \A n \in Mutates : n # m => mut'[n] = mut[n]
        PROVE  NothingOwedYet'
    BY <1>1 DEF StaleInv, NothingOwedYet
  <1>2. ASSUME NothingOwedYet', cache' = cache, todo' = todo PROVE StaleInv'
    BY <1>2, SameEntryKept, AllKeptInv
  <1>3. ASSUME NEW m \in Mutates, NEW k \in Keys, Begin(m, k) PROVE StaleInv'
    <2>1. mut[m].st # "done" /\ \A n \in Mutates : n # m => mut'[n] = mut[n]
      BY <1>3 DEF Begin, TypeOK
    <2> QED
      BY <1>1, <1>2, <1>3, <2>1 DEF Begin
  <1>4. ASSUME NEW m \in Mutates, Send(m) \/ Commit(m) \/ Reject(m) PROVE StaleInv'
    <2>1. mut[m].st # "done" /\ \A n \in Mutates : n # m => mut'[n] = mut[n]
      BY <1>4 DEF Send, Commit, Reject, TypeOK
    <2>2. use' = use /\ todo' = todo /\ cache' = cache
      BY <1>4 DEF Send, Commit, Reject
    <2> QED
      BY <1>1, <1>2, <2>1, <2>2
  <1>5. ASSUME NEW m \in Mutates, NEW failed \in BOOLEAN, Return(m, failed) PROVE StaleInv'
    <2>1. mut[m].st # "done" /\ \A n \in Mutates : n # m => mut'[n] = mut[n]
      BY <1>5 DEF Return, TypeOK
    <2> QED
      BY <1>1, <1>2, <1>5, <2>1 DEF Return
  <1>6. ASSUME NEW m \in Mutates, NoCallback(m) PROVE StaleInv'
    <2>1. mut[m].st # "done" /\ \A n \in Mutates : n # m => mut'[n] = mut[n]
      BY <1>6 DEF NoCallback, InCallback, TypeOK
    <2> QED
      BY <1>1, <1>2, <1>6, <2>1 DEF NoCallback
  <1>7. ASSUME NEW m \in Mutates, ApplyOptimistic(m) \/ CallbackSetData(m) PROVE StaleInv'
    <2>1. /\ mut[m].key \in Keys
          /\ mut[m].st # "done" /\ \A n \in Mutates : n # m => mut'[n] = mut[n]
      BY <1>7 DEF ApplyOptimistic, CallbackSetData, TypeOK, MutRecord
    <2>2. /\ use' = use /\ todo' = todo
          /\ SetData(mut[m].key, m)
      BY <1>7 DEF ApplyOptimistic, CallbackSetData
    <2>3. \A k \in Keys : EntryKept(k)
      BY <2>1, <2>2, SetDataKept
    <2>4. NothingOwedYet'
      BY <1>1, <2>1, <2>2
    <2> QED
      BY <2>2, <2>3, <2>4, AllKeptInv
  <1>8. ASSUME NEW m \in Mutates, NEW p \in Prefixes, CallbackInvalidate(m, p)
        PROVE  StaleInv'
    <2>1. /\ m \in Actors /\ todo[m] = {}
          /\ mut[m].st # "done" /\ mut'[m].st = "done"
          /\ \A n \in Mutates : n # m => mut'[n] = mut[n]
      BY <1>8 DEF CallbackInvalidate, InCallback, StaleInv, NothingOwedYet, TypeOK,
                  MutRecord, Actors
    <2>2. \A b \in Actors : b # m => todo'[b] = todo[b]
      BY <1>8 DEF CallbackInvalidate, TypeOK
    <2>3. \A u \in Uses : u # m /\ u \in Actors
      BY ActorsAssumption DEF Actors
    <2>4. NothingOwedYet'
      BY <1>8, <2>1, <2>2, <2>3 DEF CallbackInvalidate, StaleInv, NothingOwedYet, Actors
    <2> QED
      BY <1>8, <2>1, <2>4, InvalidateStale DEF CallbackInvalidate
  <1> QED
    BY <1>3, <1>4, <1>5, <1>6, <1>7, <1>8 DEF MutationStep

LEMMA StaleInit == Init => StaleInv
  <1> SUFFICES ASSUME Init PROVE StaleInv
    OBVIOUS
  <1>1. \A k \in Keys : ~Present(k)
    BY DEF Init, Present
  <1>2. NothingOwedYet
    BY DEF Init, NothingOwedYet, Actors
  <1> QED
    BY <1>1, <1>2 DEF StaleInv, MountedFetchable, StaleAttended

LEMMA StaleStep ==
  ASSUME TypeOK, StaleInv, \A m \in Mutates : ~Rollback(m), [Next]_vars PROVE StaleInv'
  <1>1. ASSUME UNCHANGED vars PROVE StaleInv'
    BY <1>1, SameOwed, SameEntryKept, AllKeptInv DEF vars, StaleInv
  <1>2. ASSUME Next PROVE StaleInv'
    BY <1>2, QueryStepStale, FetchStepStale, ClientStepStale, MutationStepStale DEF Next
  <1> QED
    BY <1>1, <1>2

(***************************************************************************)
(* In every application without optimistic mutations, data of a mounted    *)
(* query that is stale or missing is being fetched, is about to be, or its *)
(* last fetch failed: neither UseQuery nor Invalidate nor Focus loses a    *)
(* refetch in the gap between its Unlock and its startFetch.               *)
(***************************************************************************)
THEOREM StaleNeverForgotten ==
  ASSUME Optimistic = {} PROVE Spec => []StaleAttended
  <1> DEFINE IInv == TypeOK /\ NothingToRestore /\ StaleInv
  <1>1. Init => IInv
    BY InitTyped, NothingToRestoreInit, StaleInit
  <1>2. IInv /\ [Next]_vars => IInv'
    BY StepTyped, NothingToRestoreStep, StaleStep
  <1>3. IInv => StaleAttended
    BY DEF StaleInv
  <1> QED
    BY <1>1, <1>2, <1>3, PTL DEF Spec

-----------------------------------------------------------------------------
(***************************************************************************)
(* The kinds of steps.  Most leave what an entry shows and the fetch it     *)
(* waits for as they are, or make one with neither.                         *)
(***************************************************************************)
Keeps(e, d) ==
  /\ d.data = e.data /\ d.hasData = e.hasData /\ d.err = e.err
  /\ d.fetching = e.fetching /\ d.fetchSeq = e.fetchSeq
  /\ e.fetchable => d.fetchable
  /\ d.evictSeq >= e.evictSeq

Kept(k) ==
  IF Present(k)
  THEN Present(k)' /\ Keeps(cache[k], cache'[k])
  ELSE Present(k)' =>
         /\ cache'[k].data = {} /\ ~cache'[k].hasData /\ ~cache'[k].fetching
         /\ cache'[k].fetchSeq = 0 /\ cache'[k].fetchable

LEMMA KeepsItself ==
  ASSUME NEW e \in Entry PROVE Keeps(e, e)
  BY DEF Keeps, Entry

LEMMA SameKept ==
  ASSUME TypeOK, NEW k \in Keys, cache'[k] = cache[k] PROVE Kept(k)
  BY KeepsItself, PresentTyped DEF Kept, Present

LEMMA WriteIsKept ==
  ASSUME TypeOK, NEW k \in Keys, Present(k), NEW e \in Entry, Keeps(cache[k], e),
         cache' = [cache EXCEPT ![k] = e]
  PROVE  \A j \in Keys : Kept(j)
  <1>1. Kept(k)
    BY EntryIsPresent DEF Kept, Present, TypeOK, Cache
  <1>2. \A j \in Keys : j # k => cache'[j] = cache[j]
    BY DEF TypeOK, Cache
  <1> QED
    BY <1>1, <1>2, SameKept

LEMMA MountKept ==
  ASSUME TypeOK, NEW u \in Uses, NEW k \in Keys, MountQuery(u, k)
  PROVE  \A j \in Keys : Kept(j)
  <1> DEFINE new == [FreshEntry EXCEPT !.stale = TRUE]
             e == EntryOr(k, new)
             d == Subscribed(e)
  <1>1. e \in Entry /\ d \in Entry /\ new \in Entry
    BY FreshTyped, EntryOrTyped, SubscribedTyped
  <1>2. cache' = [cache EXCEPT ![k] = d]
    BY DEF MountQuery
  <1>3. Keeps(e, d) /\ d.fetchable
    <2> HIDE DEF e
    <2> QED
      BY <1>1 DEF Keeps, Subscribed, Entry
  <1>4. CASE Present(k)
    <2>1. e = cache[k]
      BY <1>4 DEF EntryOr
    <2> HIDE DEF e, d
    <2> QED
      BY <1>1, <1>2, <1>3, <1>4, <2>1, WriteIsKept
  <1>5. CASE ~Present(k)
    <2>1. e = new /\ new.data = {} /\ ~new.hasData /\ ~new.fetching /\ new.fetchSeq = 0
      BY <1>5 DEF EntryOr, FreshEntry
    <2>2. d.data = {} /\ ~d.hasData /\ ~d.fetching /\ d.fetchSeq = 0
      <3> HIDE DEF new, e, d
      <3> QED
        BY <1>3, <2>1 DEF Keeps
    <2>3. cache'[k] = d /\ \A j \in Keys : j # k => cache'[j] = cache[j]
      BY <1>2 DEF TypeOK, Cache
    <2> HIDE DEF e, d
    <2> QED
      BY <1>3, <1>5, <2>2, <2>3, SameKept DEF Kept
  <1> QED
    BY <1>4, <1>5

LEMMA UnsubscribedKeeps ==
  ASSUME NEW e \in Entry
  PROVE  /\ Keeps(e, Unsubscribed(e))
         /\ Keeps(e, [Unsubscribed(e) EXCEPT !.evictSeq = Unsubscribed(e).evictSeq + 1])
  <1> DEFINE d == Unsubscribed(e)
  <1>1. d \in Entry
    BY UnsubscribedTyped
  <1>2. Keeps(e, d)
    BY DEF Unsubscribed, Keeps, Entry
  <1>3. e.evictSeq \in Nat /\ d.evictSeq \in Nat
    BY <1>1 DEF Entry
  <1> HIDE DEF d
  <1>4. Keeps(e, [d EXCEPT !.evictSeq = d.evictSeq + 1])
    BY <1>1, <1>2, <1>3 DEF Keeps, Entry
  <1> QED
    BY <1>2, <1>4 DEF d

LEMMA ReleaseKept ==
  ASSUME TypeOK, NEW u \in Uses, ReleaseShared(u) \/ ReleaseLast(u)
  PROVE  \A j \in Keys : Kept(j)
  <1> DEFINE k == use[u].key
  <1>1. k \in Keys
    BY DEF TypeOK, UseRecord
  <1>2. CASE cache' = cache
    BY <1>2, SameKept
  <1>3. CASE cache' # cache
    <2>1. Present(k)
      BY <1>3 DEF ReleaseShared, ReleaseLast
    <2>2. \/ cache' = [cache EXCEPT ![k] = Unsubscribed(cache[k])]
          \/ cache' = [cache EXCEPT ![k] = [Unsubscribed(cache[k]) EXCEPT !.evictSeq = Unsubscribed(cache[k]).evictSeq + 1]]
      BY <1>3 DEF ReleaseShared, ReleaseLast
    <2>3. cache[k] \in Entry
      BY <1>1, <2>1, PresentTyped
    <2>4. PICK e \in Entry : cache' = [cache EXCEPT ![k] = e] /\ Keeps(cache[k], e)
      BY <2>2, <2>3, UnsubscribedKeeps, UnsubscribedTyped
    <2> QED
      BY <1>1, <2>1, <2>4, WriteIsKept
  <1> QED
    BY <1>2, <1>3

LEMMA MarksKeep ==
  ASSUME NEW e \in Entry
  PROVE  /\ [e EXCEPT !.stale = TRUE] \in Entry /\ Keeps(e, [e EXCEPT !.stale = TRUE])
         /\ [e EXCEPT !.expired = TRUE] \in Entry /\ Keeps(e, [e EXCEPT !.expired = TRUE])
  <1>1. [e EXCEPT !.stale = TRUE] \in Entry /\ [e EXCEPT !.expired = TRUE] \in Entry
    BY DEF Entry
  <1>2. e.evictSeq \in Nat
    BY DEF Entry
  <1>3. Keeps(e, [e EXCEPT !.stale = TRUE])
    BY <1>2 DEF Entry, Keeps
  <1>4. Keeps(e, [e EXCEPT !.expired = TRUE])
    BY <1>2 DEF Entry, Keeps
  <1> QED
    BY <1>1, <1>3, <1>4

LEMMA MarkStaleKept ==
  ASSUME TypeOK, NEW p, MarkStale(p) PROVE \A j \in Keys : Kept(j)
  <1> SUFFICES ASSUME NEW j \in Keys PROVE Kept(j)
    OBVIOUS
  <1>1. CASE j \in Covers[p] /\ Present(j)
    <2>1. cache'[j] = [cache[j] EXCEPT !.stale = TRUE]
      BY <1>1 DEF MarkStale
    <2>2. cache[j] \in Entry
      BY <1>1, PresentTyped
    <2>3. cache'[j] \in Entry /\ Keeps(cache[j], cache'[j])
      BY <2>1, <2>2, MarksKeep
    <2> QED
      BY <1>1, <2>3, EntryIsPresent DEF Kept, Present
  <1>2. CASE ~(j \in Covers[p] /\ Present(j))
    BY <1>2, SameKept DEF MarkStale
  <1> QED
    BY <1>1, <1>2

LEMMA AgeKept ==
  ASSUME TypeOK, NEW k \in Keys, Age(k) PROVE \A j \in Keys : Kept(j)
  <1>1. cache[k] \in Entry /\ Present(k)
    BY PresentTyped DEF Age
  <1> DEFINE d == [cache[k] EXCEPT !.expired = TRUE]
  <1>2. d \in Entry /\ Keeps(cache[k], d)
    BY <1>1, MarksKeep
  <1>3. cache' = [cache EXCEPT ![k] = d]
    BY DEF Age
  <1> HIDE DEF d
  <1> QED
    BY <1>1, <1>2, <1>3, WriteIsKept

Quiet == flight' = flight /\ \A k \in Keys : Kept(k)

Launches == \E k \in Keys, w \in Workers : Present(k) /\ cache[k].fetchable /\ Launch(k, w)

LEMMA StartFetchKind ==
  ASSUME TypeOK, NEW k \in Keys, NEW force \in BOOLEAN, StartFetch(k, force)
  PROVE  Quiet \/ Launches
  BY SameKept DEF StartFetch, Starts, Quiet, Launches

LEMMA StepKinds ==
  ASSUME TypeOK, [Next]_vars
  PROVE  \/ Quiet
         \/ Launches
         \/ \E w \in Workers : Answer(w) \/ Complete(w)
         \/ \E u \in Uses : EvictTimer(u)
         \/ Clear
         \/ \E m \in Mutates : ApplyOptimistic(m) \/ CallbackSetData(m) \/ Rollback(m)
  <1>1. ASSUME flight' = flight, cache' = cache PROVE Quiet
    BY <1>1, SameKept DEF Quiet
  <1>2. ASSUME QueryStep PROVE Quiet \/ Launches \/ \E u \in Uses : EvictTimer(u)
    <2>1. ASSUME NEW u \in Uses, NEW k \in Keys, MountQuery(u, k) PROVE Quiet
      BY <2>1, MountKept DEF Quiet, MountQuery
    <2>2. ASSUME NEW a \in Actors, NEW k \in Keys, StartQueued(a, k) PROVE Quiet \/ Launches
      BY <2>2, StartFetchKind DEF StartQueued
    <2>3. ASSUME NEW u \in Uses, FinishMount(u) PROVE Quiet
      BY <1>1, <2>3 DEF FinishMount
    <2>4. ASSUME NEW u \in Uses, ReleaseShared(u) \/ ReleaseLast(u) PROVE Quiet
      BY <2>4, ReleaseKept DEF Quiet, ReleaseShared, ReleaseLast
    <2>5. ASSUME NEW u \in Uses, Refetch(u) PROVE Quiet \/ Launches
      BY <2>5, StartFetchKind DEF Refetch, TypeOK, UseRecord
    <2>6. ASSUME NEW u \in Uses, InvalidateUse(u) PROVE Quiet
      BY <2>6, MarkStaleKept DEF Quiet, InvalidateUse
    <2> QED
      BY <1>2, <2>1, <2>2, <2>3, <2>4, <2>5, <2>6 DEF QueryStep
  <1>3. ASSUME FetchStep PROVE Quiet \/ \E w \in Workers : Answer(w) \/ Complete(w)
    BY <1>3, AgeKept DEF FetchStep, Age, Quiet
  <1>4. ASSUME ClientStep PROVE Quiet \/ Clear
    BY <1>1, <1>4 DEF ClientStep, Focus, RefetchActive
  <1>5. ASSUME MutationStep
        PROVE  Quiet \/ \E m \in Mutates : ApplyOptimistic(m) \/ CallbackSetData(m) \/ Rollback(m)
    <2>1. ASSUME NEW m \in Mutates, NEW p \in Prefixes, CallbackInvalidate(m, p) PROVE Quiet
      BY <2>1, MarkStaleKept DEF Quiet, CallbackInvalidate
    <2>2. ASSUME NEW m \in Mutates, NEW k \in Keys, Begin(m, k) PROVE Quiet
      BY <1>1, <2>2 DEF Begin
    <2>3. ASSUME NEW m \in Mutates, NEW failed \in BOOLEAN, Return(m, failed) PROVE Quiet
      BY <1>1, <2>3 DEF Return
    <2>4. ASSUME NEW m \in Mutates, Send(m) \/ Commit(m) \/ Reject(m) \/ NoCallback(m) PROVE Quiet
      BY <1>1, <2>4 DEF Send, Commit, Reject, NoCallback
    <2> QED
      BY <1>5, <2>1, <2>2, <2>3, <2>4 DEF MutationStep
  <1>6. ASSUME UNCHANGED vars PROVE Quiet
    BY <1>1, <1>6 DEF vars
  <1> QED
    BY <1>2, <1>3, <1>4, <1>5, <1>6 DEF Next

LEMMA Launched ==
  ASSUME TypeOK, NEW k \in Keys, NEW w \in Workers, Present(k), Launch(k, w)
  PROVE  /\ flight[w] = NoFlight /\ flight'[w] \in Flight /\ flight'[w] # NoFlight
         /\ flight'[w].key = k /\ flight'[w].seq = cache[k].fetchSeq + 1 /\ ~flight'[w].answered
         /\ \A v \in Workers : v # w => flight'[v] = flight[v]
         /\ cache[k] \in Entry /\ Present(k)' /\ cache'[k].fetching
         /\ cache'[k].fetchSeq = cache[k].fetchSeq + 1
         /\ cache'[k].data = cache[k].data /\ cache'[k].hasData = cache[k].hasData
         /\ cache'[k].err = cache[k].err /\ cache'[k].fetchable = cache[k].fetchable
         /\ cache'[k].evictSeq = cache[k].evictSeq
         /\ \A j \in Keys : j # k => cache'[j] = cache[j]
  <1>1. cache[k] \in Entry
    BY PresentTyped
  <1> DEFINE e == cache[k]
             n == e.fetchSeq + 1
             d == [e EXCEPT !.fetching = TRUE, !.fetchSeq = n]
             f == [key |-> k, seq |-> n, answered |-> FALSE, ok |-> FALSE, data |-> {}]
  <1>2. n \in Nat
    BY <1>1 DEF Entry
  <1>3. /\ d \in Entry /\ d.fetching /\ d.fetchSeq = n /\ d.data = e.data /\ d.hasData = e.hasData
        /\ d.err = e.err /\ d.fetchable = e.fetchable /\ d.evictSeq = e.evictSeq
    BY <1>1, <1>2 DEF Entry
  <1>4. f \in Flight
    BY <1>2 DEF Flight
  <1>5. d # NoEntry /\ f # NoFlight
    BY <1>3, <1>4, AssumptionsHold DEF Assumptions
  <1>6. flight[w] = NoFlight /\ cache' = [cache EXCEPT ![k] = d] /\ flight' = [flight EXCEPT ![w] = f]
    BY DEF Launch, Fetching, NextSeq
  <1>7. cache'[k] = d /\ \A j \in Keys : j # k => cache'[j] = cache[j]
    BY <1>6 DEF TypeOK, Cache
  <1>8. flight'[w] = f /\ \A v \in Workers : v # w => flight'[v] = flight[v]
    BY <1>6 DEF TypeOK
  <1>9. f.key = k /\ f.seq = n /\ ~f.answered
    OBVIOUS
  <1> HIDE DEF d, f
  <1> QED
    BY <1>1, <1>3, <1>4, <1>5, <1>6, <1>7, <1>8, <1>9 DEF Present

LEMMA AnswerGiven ==
  ASSUME TypeOK, NEW w \in Workers, Answer(w)
  PROVE  /\ flight[w] \in Flight /\ flight[w] # NoFlight /\ ~flight[w].answered
         /\ flight'[w] \in Flight /\ flight'[w] # NoFlight
         /\ flight'[w].key = flight[w].key /\ flight'[w].seq = flight[w].seq
         /\ flight'[w].ok => flight'[w].data = server[flight[w].key]
         /\ \A v \in Workers : v # w => flight'[v] = flight[v]
         /\ cache' = cache /\ server' = server
  <1>1. flight[w] \in Flight /\ flight[w] # NoFlight /\ ~flight[w].answered
    BY DEF Answer, TypeOK
  <1>2. PICK ok \in BOOLEAN :
          flight' = [flight EXCEPT ![w].answered = TRUE, ![w].ok = ok,
                                   ![w].data = IF ok THEN server[flight[w].key] ELSE {}]
    BY DEF Answer
  <1> DEFINE x == IF ok THEN server[flight[w].key] ELSE {}
             f == [flight[w] EXCEPT !.answered = TRUE, !.ok = ok, !.data = x]
  <1>3. x \in SUBSET Mutates /\ (ok => x = server[flight[w].key])
    BY <1>1 DEF Flight, TypeOK
  <1> HIDE DEF x
  <1>4. f \in Flight /\ f.key = flight[w].key /\ f.seq = flight[w].seq /\ f.ok = ok /\ f.data = x
    BY <1>1, <1>3 DEF Flight
  <1>5. flight'[w] = f /\ \A v \in Workers : v # w => flight'[v] = flight[v]
    BY <1>2 DEF TypeOK, x
  <1>6. f # NoFlight
    BY <1>4, AssumptionsHold DEF Assumptions
  <1>7. cache' = cache /\ server' = server
    BY DEF Answer
  <1> HIDE DEF f
  <1> QED
    BY <1>1, <1>3, <1>4, <1>5, <1>6, <1>7

LEMMA Completed ==
  ASSUME TypeOK, NEW w \in Workers, Complete(w)
  PROVE  \E k \in Keys :
         /\ flight[w] \in Flight /\ flight[w] # NoFlight /\ flight[w].answered /\ k = flight[w].key
         /\ flight'[w] = NoFlight /\ \A v \in Workers : v # w => flight'[v] = flight[v]
         /\ \A j \in Keys : j # k => cache'[j] = cache[j]
         /\ ~Current(w) => cache' = cache
         /\ Current(w) =>
              /\ cache[k] \in Entry /\ cache'[k] # NoEntry /\ ~cache'[k].fetching
              /\ cache'[k].fetchSeq = cache[k].fetchSeq
              /\ cache'[k].fetchable = cache[k].fetchable
              /\ cache'[k].evictSeq = cache[k].evictSeq
              /\ IF flight[w].ok
                 THEN cache'[k].data = flight[w].data /\ cache'[k].hasData /\ ~cache'[k].err
                 ELSE cache'[k].data = cache[k].data /\ cache'[k].hasData = cache[k].hasData /\ cache'[k].err
         /\ server' = server
  <1> DEFINE k == flight[w].key
  <1>1. flight[w] \in Flight /\ flight[w] # NoFlight /\ flight[w].answered /\ k \in Keys
    BY DEF Complete, TypeOK, Flight
  <1>2. flight'[w] = NoFlight /\ \A v \in Workers : v # w => flight'[v] = flight[v]
    BY DEF Complete, TypeOK
  <1>3. CASE ~Current(w)
    BY <1>1, <1>2, <1>3 DEF Complete
  <1>4. CASE Current(w)
    <2> DEFINE e == cache[k]
               d == Answered(e, flight[w])
    <2>1. e \in Entry /\ d \in Entry
      BY <1>1, <1>4, PresentTyped, AnsweredTyped DEF Current
    <2>2. cache'[k] = d /\ \A j \in Keys : j # k => cache'[j] = cache[j]
      BY <1>1, <1>4 DEF Complete, TypeOK, Cache
    <2>3. /\ ~d.fetching /\ d.fetchSeq = e.fetchSeq /\ d.fetchable = e.fetchable /\ d.evictSeq = e.evictSeq
          /\ IF flight[w].ok THEN d.data = flight[w].data /\ d.hasData /\ ~d.err
                             ELSE d.data = e.data /\ d.hasData = e.hasData /\ d.err
      BY <1>1, <2>1 DEF Answered, Entry
    <2>4. server' = server
      BY DEF Complete
    <2>5. cache'[k] # NoEntry
      BY <2>1, <2>2, EntryIsPresent
    <2> HIDE DEF d
    <2> QED
      BY <1>1, <1>2, <1>4, <2>1, <2>2, <2>3, <2>4, <2>5
  <1> QED
    BY <1>3, <1>4

LEMMA DataSet ==
  ASSUME TypeOK, NEW k \in Keys, NEW m \in Mutates, SetData(k, m)
  PROVE  /\ Present(k)' /\ cache'[k] \in Entry
         /\ cache'[k].data = (IF Present(k) THEN cache[k].data ELSE {}) \cup {m}
         /\ Present(k) => /\ cache'[k].fetching = cache[k].fetching
                          /\ cache'[k].fetchSeq = cache[k].fetchSeq
                          /\ cache'[k].evictSeq = cache[k].evictSeq
         /\ ~Present(k) => ~cache'[k].fetching
         /\ \A j \in Keys : j # k => cache'[j] = cache[j]
  <1> DEFINE e == EntryOr(k, FreshEntry)
             d == [e EXCEPT !.data = e.data \cup {m}, !.hasData = TRUE,
                            !.err = FALSE, !.stale = FALSE, !.expired = FALSE]
  <1>1. e \in Entry /\ FreshEntry.data = {} /\ ~FreshEntry.fetching
    BY EntryOrTyped, FreshTyped DEF FreshEntry
  <1>2. d \in Entry
    BY <1>1 DEF Entry
  <1>3. /\ d.data = e.data \cup {m} /\ d.fetching = e.fetching
        /\ d.fetchSeq = e.fetchSeq /\ d.evictSeq = e.evictSeq
    BY <1>1 DEF Entry
  <1>4. cache' = [cache EXCEPT ![k] = d]
    BY DEF SetData
  <1> HIDE DEF d
  <1>5. cache'[k] = d /\ \A j \in Keys : j # k => cache'[j] = cache[j]
    BY <1>4 DEF TypeOK, Cache
  <1> QED
    BY <1>1, <1>2, <1>3, <1>5, EntryIsPresent DEF EntryOr, Present

-----------------------------------------------------------------------------
(***************************************************************************)
(* Fetches of a key are numbered apart, up to the number of its entry: so   *)
(* at most one of them is the one the entry waits for.  With fetches that   *)
(* are shorter than every CacheTime, no entry goes while one is in flight.  *)
(***************************************************************************)
Flies(w, k) == flight[w] # NoFlight /\ flight[w].key = k

SeqsOrdered ==
  \A w \in Workers, k \in Keys : Flies(w, k) => Present(k) /\ flight[w].seq <= cache[k].fetchSeq

SeqsApart ==
  \A k \in Keys : \A v, w \in Workers :
    Flies(v, k) /\ Flies(w, k) /\ flight[v].seq = flight[w].seq => v = w

OnlyWhenCarried ==
  \A k \in Keys, w \in Workers : Present(k) /\ Carries(w, k) => cache[k].fetching

NumberInv == SeqsOrdered /\ SeqsApart /\ OnlyWhenCarried

\* A step that leaves the fetches of k, and the number of its entry if it has any.
LEMMA NumbersKept ==
  ASSUME TypeOK, NumberInv, NEW k \in Keys, \A w \in Workers : Flies(w, k)' => Flies(w, k) /\ flight'[w].seq = flight[w].seq,
         Present(k) => \/ /\ Present(k)' /\ cache'[k].fetching = cache[k].fetching
                          /\ cache'[k].fetchSeq = cache[k].fetchSeq
                       \/ ~InFlight(k)
  PROVE  /\ \A w \in Workers : Flies(w, k)' => Present(k)' /\ flight'[w].seq <= cache'[k].fetchSeq
         /\ \A v, w \in Workers : Flies(v, k)' /\ Flies(w, k)' /\ flight'[v].seq = flight'[w].seq => v = w
         /\ \A w \in Workers : Present(k)' /\ Carries(w, k)' => cache'[k].fetching
  BY DEF NumberInv, SeqsOrdered, SeqsApart, OnlyWhenCarried, Flies, InFlight, Carries

LEMMA LaunchNumbers ==
  ASSUME TypeOK, NumberInv, NEW k \in Keys, NEW w \in Workers, Present(k), Launch(k, w)
  PROVE  NumberInv'
  <1>1. /\ flight[w] = NoFlight /\ flight'[w] \in Flight /\ flight'[w] # NoFlight
        /\ flight'[w].key = k /\ flight'[w].seq = cache[k].fetchSeq + 1
        /\ \A v \in Workers : v # w => flight'[v] = flight[v]
        /\ cache[k] \in Entry /\ Present(k)' /\ cache'[k].fetching
        /\ cache'[k].fetchSeq = cache[k].fetchSeq + 1
        /\ \A j \in Keys : j # k => cache'[j] = cache[j]
    BY Launched
  <1>2. cache[k].fetchSeq \in Nat
    BY <1>1 DEF Entry
  <1>3. \A v \in Workers : flight[v] # NoFlight => flight[v].seq \in Nat
    BY DEF TypeOK, Flight
  <1>4. ASSUME NEW j \in Keys, j # k
        PROVE  /\ \A v \in Workers : Flies(v, j)' => Present(j)' /\ flight'[v].seq <= cache'[j].fetchSeq
               /\ \A v, x \in Workers : Flies(v, j)' /\ Flies(x, j)' /\ flight'[v].seq = flight'[x].seq => v = x
               /\ \A v \in Workers : Present(j)' /\ Carries(v, j)' => cache'[j].fetching
    <2>1. \A v \in Workers : Flies(v, j)' => Flies(v, j) /\ flight'[v].seq = flight[v].seq
      BY <1>1, <1>4 DEF Flies
    <2>2. cache'[j] = cache[j] /\ (Present(j) => Present(j)')
      BY <1>1, <1>4 DEF Present
    <2> QED
      BY <2>1, <2>2, NumbersKept
  <1>5. \A v \in Workers : Flies(v, k)' =>
          /\ flight'[v].seq <= cache'[k].fetchSeq
          /\ flight'[v].seq = cache'[k].fetchSeq => v = w
    <2> SUFFICES ASSUME NEW v \in Workers, Flies(v, k)'
                 PROVE  /\ flight'[v].seq <= cache'[k].fetchSeq
                        /\ flight'[v].seq = cache'[k].fetchSeq => v = w
      OBVIOUS
    <2>1. CASE v = w
      BY <1>1, <1>2, <2>1
    <2>2. CASE v # w
      <3>1. flight'[v] = flight[v] /\ Flies(v, k)
        BY <1>1, <2>2 DEF Flies
      <3>2. flight[v].seq \in Nat /\ flight[v].seq <= cache[k].fetchSeq
        BY <1>3, <3>1 DEF NumberInv, SeqsOrdered, Flies
      <3> QED
        BY <1>1, <1>2, <3>1, <3>2
    <2> QED
      BY <2>1, <2>2
  <1>6. \A v, x \in Workers : Flies(v, k)' /\ Flies(x, k)' /\ flight'[v].seq = flight'[x].seq => v = x
    BY <1>1, <1>5 DEF NumberInv, SeqsApart, Flies
  <1>7. SeqsOrdered'
    BY <1>1, <1>4, <1>5 DEF SeqsOrdered
  <1>8. SeqsApart'
    BY <1>4, <1>6 DEF SeqsApart
  <1>9. OnlyWhenCarried'
    BY <1>1, <1>4 DEF OnlyWhenCarried
  <1> QED
    BY <1>7, <1>8, <1>9 DEF NumberInv

LEMMA CompleteNumbers ==
  ASSUME TypeOK, NumberInv, NEW w \in Workers, Complete(w)
  PROVE  NumberInv'
  <1>1. PICK k \in Keys :
        /\ flight[w] # NoFlight /\ k = flight[w].key
        /\ flight'[w] = NoFlight /\ \A v \in Workers : v # w => flight'[v] = flight[v]
        /\ \A j \in Keys : j # k => cache'[j] = cache[j]
        /\ ~Current(w) => cache' = cache
        /\ Current(w) => /\ cache'[k] # NoEntry /\ ~cache'[k].fetching
                         /\ cache'[k].fetchSeq = cache[k].fetchSeq
    BY Completed
  <1>2. \A v \in Workers, j \in Keys : Flies(v, j)' => v # w /\ Flies(v, j) /\ flight'[v] = flight[v]
    BY <1>1 DEF Flies
  <1>3. ASSUME NEW j \in Keys, j # k \/ ~Current(w)
        PROVE  /\ \A v \in Workers : Flies(v, j)' => Present(j)' /\ flight'[v].seq <= cache'[j].fetchSeq
               /\ \A v, x \in Workers : Flies(v, j)' /\ Flies(x, j)' /\ flight'[v].seq = flight'[x].seq => v = x
               /\ \A v \in Workers : Present(j)' /\ Carries(v, j)' => cache'[j].fetching
    <2>1. cache'[j] = cache[j]
      BY <1>1, <1>3
    <2> QED
      BY <1>2, <2>1, NumbersKept DEF Present
  <1>4. ASSUME Current(w)
        PROVE  /\ \A v \in Workers : Flies(v, k)' => Present(k)' /\ flight'[v].seq <= cache'[k].fetchSeq
               /\ \A v, x \in Workers : Flies(v, k)' /\ Flies(x, k)' /\ flight'[v].seq = flight'[x].seq => v = x
               /\ \A v \in Workers : ~Carries(v, k)'
    <2>1. Flies(w, k) /\ flight[w].seq = cache[k].fetchSeq
      BY <1>1, <1>4 DEF Flies, Current
    <2>3. \A v \in Workers : Carries(v, k)' => Flies(v, k)' /\ flight'[v].seq = cache'[k].fetchSeq
      BY DEF Carries, Flies
    <2> QED
      BY <1>1, <1>2, <1>4, <2>1, <2>3 DEF NumberInv, SeqsOrdered, SeqsApart, Present
  <1>5. SeqsOrdered' /\ SeqsApart'
    BY <1>1, <1>3, <1>4 DEF SeqsOrdered, SeqsApart
  <1>6. OnlyWhenCarried'
    BY <1>1, <1>3, <1>4 DEF OnlyWhenCarried
  <1> QED
    BY <1>5, <1>6 DEF NumberInv

\* Steps that keep the number of every entry with a fetch in flight, and start none.
LEMMA NumbersAllKept ==
  ASSUME TypeOK, NumberInv,
         \A k \in Keys, w \in Workers : Flies(w, k)' => Flies(w, k) /\ flight'[w].seq = flight[w].seq,
         \A k \in Keys : Present(k) =>
           \/ /\ Present(k)' /\ cache'[k].fetching = cache[k].fetching
              /\ cache'[k].fetchSeq = cache[k].fetchSeq
           \/ ~InFlight(k)
  PROVE  NumberInv'
  BY NumbersKept DEF NumberInv, SeqsOrdered, SeqsApart, OnlyWhenCarried

LEMMA NumberStep ==
  ASSUME PromptFetches, TypeOK, NumberInv, ~Clear,
         \A m \in Mutates : ~Rollback(m) /\ ~ApplyOptimistic(m), [Next]_vars
  PROVE  NumberInv'
  <1>1. CASE Quiet
    <2>1. \A k \in Keys, w \in Workers : Flies(w, k)' => Flies(w, k) /\ flight'[w].seq = flight[w].seq
      BY <1>1 DEF Quiet, Flies
    <2> QED
      BY <1>1, <2>1, NumbersAllKept DEF Quiet, Kept, Keeps
  <1>2. CASE Launches
    BY <1>2, LaunchNumbers DEF Launches
  <1>3. ASSUME NEW w \in Workers, Answer(w) PROVE NumberInv'
    <2>1. \A k \in Keys, v \in Workers : Flies(v, k)' => Flies(v, k) /\ flight'[v].seq = flight[v].seq
      BY <1>3, AnswerGiven DEF Flies
    <2>2. cache' = cache
      BY <1>3, AnswerGiven
    <2> QED
      BY <2>1, <2>2, NumbersAllKept DEF Present
  <1>4. ASSUME NEW u \in Uses, EvictTimer(u) PROVE NumberInv'
    <2> DEFINE k == use[u].key
    <2>1. /\ k \in Keys /\ flight' = flight /\ ~InFlight(k)
          /\ \A j \in Keys : j # k => cache'[j] = cache[j]
      BY <1>4 DEF EvictTimer, TypeOK, UseRecord, Cache
    <2>2. \A j \in Keys, v \in Workers : Flies(v, j)' => Flies(v, j) /\ flight'[v].seq = flight[v].seq
      BY <2>1 DEF Flies
    <2> HIDE DEF k
    <2> QED
      BY <2>1, <2>2, NumbersAllKept DEF Present
  <1>5. ASSUME NEW m \in Mutates, CallbackSetData(m) PROVE NumberInv'
    <2>1. mut[m].key \in Keys /\ SetData(mut[m].key, m) /\ flight' = flight
      BY <1>5 DEF CallbackSetData, TypeOK, MutRecord
    <2>2. PICK k \in Keys : SetData(k, m)
      BY <2>1
    <2>3. \A j \in Keys : Present(j) => Present(j)' /\ cache'[j].fetching = cache[j].fetching
                                        /\ cache'[j].fetchSeq = cache[j].fetchSeq
      BY <2>2, DataSet DEF Present
    <2>4. \A j \in Keys, v \in Workers : Flies(v, j)' => Flies(v, j) /\ flight'[v].seq = flight[v].seq
      BY <2>1 DEF Flies
    <2> QED
      BY <2>3, <2>4, NumbersAllKept
  <1> QED
    BY <1>1, <1>2, <1>3, <1>4, <1>5, CompleteNumbers, StepKinds

(***************************************************************************)
(* docs/query.md: "Fetching is true for any in-flight fetch": with fetches  *)
(* shorter than every CacheTime, of the fetch that was started last, and    *)
(* false once it has completed, as every other one was superseded; without  *)
(* optimistic mutations and Clear, which renumber (query.go, startFetch).   *)
(***************************************************************************)
THEOREM FetchingAlwaysExact ==
  ASSUME Optimistic = {}, Clearable = FALSE, PromptFetches
  PROVE  Spec => []FetchingExact
  <1> DEFINE IInv == TypeOK /\ NothingToRestore /\ NumberInv
  <1>1. Init => IInv
    <2> SUFFICES ASSUME Init PROVE NumberInv
      BY InitTyped, NothingToRestoreInit
    <2> QED
      BY DEF Init, NumberInv, SeqsOrdered, SeqsApart, OnlyWhenCarried, Flies, Carries
  <1>2. IInv /\ [Next]_vars => IInv'
    <2> SUFFICES ASSUME IInv, [Next]_vars PROVE IInv'
      OBVIOUS
    <2>1. TypeOK' /\ NothingToRestore' /\ \A m \in Mutates : ~Rollback(m) /\ ~ApplyOptimistic(m)
      BY StepTyped, NothingToRestoreStep
    <2>2. ~Clear
      BY DEF Clear
    <2> QED
      BY <2>1, <2>2, NumberStep
  <1>3. Spec => []FetchingHasFlight
    BY FetchingNeverStuck
  <1>4. IInv /\ FetchingHasFlight => FetchingExact
    BY DEF NumberInv, SeqsApart, OnlyWhenCarried, FetchingHasFlight, FetchingExact, Flies, Carries
  <1> QED
    BY <1>1, <1>2, <1>3, <1>4, PTL DEF Spec

-----------------------------------------------------------------------------
(***************************************************************************)
(* Answers of fetches are as the backend was when they came: of the one the *)
(* entry waits for, no older than what the entry shows.                     *)
(***************************************************************************)
ShownIsTrue ==
  \A k \in Keys : Present(k) /\ cache[k].hasData => cache[k].data \subseteq server[k]

AnswersAreTrue ==
  \A w \in Workers, k \in Keys : Flies(w, k) /\ flight[w].answered /\ flight[w].ok =>
    /\ flight[w].data \subseteq server[k]
    /\ flight[w].seq = cache[k].fetchSeq /\ cache[k].hasData => cache[k].data \subseteq flight[w].data

Truthful == ShownIsTrue /\ AnswersAreTrue

LEMMA ServerGrows ==
  ASSUME TypeOK, [Next]_vars
  PROVE  /\ \A k \in Keys : server[k] \subseteq server'[k]
         /\ server' = server \/ \E m \in Mutates : Commit(m)
  <1>1. ASSUME NEW m \in Mutates, Commit(m) PROVE \A k \in Keys : server[k] \subseteq server'[k]
    BY <1>1 DEF Commit, TypeOK
  <1>2. server' = server \/ \E m \in Mutates : Commit(m)
    BY DEF Next, vars, QueryStep, MountQuery, StartQueued, FinishMount, ReleaseShared, ReleaseLast,
           EvictTimer, Refetch, InvalidateUse, FetchStep, Answer, Complete, Age, ClientStep, Focus,
           RefetchActive, Clear, MutationStep, Begin, ApplyOptimistic, Send, Reject, Return, Rollback,
           CallbackInvalidate, CallbackSetData, NoCallback
  <1> QED
    BY <1>1, <1>2

\* A step that changes neither what is shown of k nor the fetches that were answered.
LEMMA TruthKept ==
  ASSUME TypeOK, NumberInv, Truthful, NEW k \in Keys, server[k] \subseteq server'[k],
         \A w \in Workers : Flies(w, k)' /\ flight'[w].answered => Flies(w, k) /\ flight'[w] = flight[w],
         Present(k) => \/ /\ cache'[k].data = cache[k].data /\ cache'[k].hasData = cache[k].hasData
                          /\ cache'[k].fetchSeq = cache[k].fetchSeq
                       \/ cache'[k] = NoEntry /\ ~InFlight(k),
         ~Present(k) /\ Present(k)' => ~cache'[k].hasData
  PROVE  /\ Present(k)' /\ cache'[k].hasData => cache'[k].data \subseteq server'[k]
         /\ \A w \in Workers : Flies(w, k)' /\ flight'[w].answered /\ flight'[w].ok =>
              /\ flight'[w].data \subseteq server'[k]
              /\ flight'[w].seq = cache'[k].fetchSeq /\ cache'[k].hasData
                   => cache'[k].data \subseteq flight'[w].data
  BY DEF Truthful, ShownIsTrue, AnswersAreTrue, NumberInv, SeqsOrdered, Flies, InFlight, Present

LEMMA TruthAllKept ==
  ASSUME TypeOK, NumberInv, Truthful, \A k \in Keys : server[k] \subseteq server'[k],
         \A w \in Workers, k \in Keys :
           Flies(w, k)' /\ flight'[w].answered => Flies(w, k) /\ flight'[w] = flight[w],
         \A k \in Keys :
           /\ Present(k) => \/ /\ cache'[k].data = cache[k].data /\ cache'[k].hasData = cache[k].hasData
                               /\ cache'[k].fetchSeq = cache[k].fetchSeq
                            \/ cache'[k] = NoEntry /\ ~InFlight(k)
           /\ ~Present(k) /\ Present(k)' => ~cache'[k].hasData
  PROVE  Truthful'
  BY TruthKept DEF Truthful, ShownIsTrue, AnswersAreTrue

LEMMA AnswerTruth ==
  ASSUME TypeOK, NumberInv, Truthful, NEW w \in Workers, Answer(w) PROVE Truthful'
  <1>1. /\ flight'[w] # NoFlight /\ flight'[w].key = flight[w].key /\ flight[w] # NoFlight
        /\ flight'[w].ok => flight'[w].data = server[flight[w].key]
        /\ \A v \in Workers : v # w => flight'[v] = flight[v]
        /\ cache' = cache /\ server' = server
    BY AnswerGiven
  <1>2. ASSUME NEW v \in Workers, NEW k \in Keys, Flies(v, k)', flight'[v].answered, flight'[v].ok
        PROVE  /\ flight'[v].data \subseteq server'[k]
               /\ flight'[v].seq = cache'[k].fetchSeq /\ cache'[k].hasData
                    => cache'[k].data \subseteq flight'[v].data
    <2>1. CASE v # w
      BY <1>1, <1>2, <2>1 DEF Flies, Truthful, AnswersAreTrue
    <2>2. CASE v = w
      <3>1. flight[w].key = k /\ flight'[w].data = server[k] /\ Present(k)
        BY <1>1, <1>2, <2>2 DEF Flies, NumberInv, SeqsOrdered
      <3> QED
        BY <1>1, <2>2, <3>1 DEF Truthful, ShownIsTrue
    <2> QED
      BY <2>1, <2>2
  <1>3. ShownIsTrue'
    BY <1>1 DEF Truthful, ShownIsTrue, Present
  <1>4. AnswersAreTrue'
    BY <1>2 DEF AnswersAreTrue
  <1> QED
    BY <1>3, <1>4 DEF Truthful

LEMMA CompleteTruth ==
  ASSUME TypeOK, NumberInv, Truthful, NEW w \in Workers, Complete(w) PROVE Truthful'
  <1>1. PICK k \in Keys :
        /\ flight[w] # NoFlight /\ flight[w].answered /\ k = flight[w].key
        /\ flight'[w] = NoFlight /\ \A v \in Workers : v # w => flight'[v] = flight[v]
        /\ \A j \in Keys : j # k => cache'[j] = cache[j]
        /\ ~Current(w) => cache' = cache
        /\ Current(w) =>
             /\ cache'[k] # NoEntry /\ cache'[k].fetchSeq = cache[k].fetchSeq
             /\ IF flight[w].ok
                THEN cache'[k].data = flight[w].data /\ cache'[k].hasData
                ELSE cache'[k].data = cache[k].data /\ cache'[k].hasData = cache[k].hasData
        /\ server' = server
    BY Completed
  <1>2. \A v \in Workers, j \in Keys : Flies(v, j)' => v # w /\ Flies(v, j) /\ flight'[v] = flight[v]
    BY <1>1 DEF Flies
  <1>3. CASE ~(Current(w) /\ flight[w].ok)
    <2>1. \A j \in Keys : /\ Present(j) => /\ cache'[j].data = cache[j].data
                                           /\ cache'[j].hasData = cache[j].hasData
                                           /\ cache'[j].fetchSeq = cache[j].fetchSeq
                          /\ ~Present(j) => ~Present(j)'
      BY <1>1, <1>3 DEF Current, Present
    <2> QED
      BY <1>1, <1>2, <2>1, TruthAllKept
  <1>4. CASE Current(w) /\ flight[w].ok
    <2>1. Flies(w, k) /\ flight[w].seq = cache[k].fetchSeq
      BY <1>1, <1>4 DEF Flies, Current
    <2>2. \A v \in Workers : Flies(v, k)' => flight'[v].seq # cache'[k].fetchSeq
      BY <1>1, <1>2, <1>4, <2>1 DEF NumberInv, SeqsApart
    <2>3. cache'[k].data \subseteq server'[k]
      BY <1>1, <1>4, <2>1 DEF Truthful, AnswersAreTrue
    <2>4. ShownIsTrue'
      <3>1. \A j \in Keys \ {k} : Present(j)' /\ cache'[j].hasData => cache'[j].data \subseteq server'[j]
        BY <1>1 DEF Truthful, ShownIsTrue, Present
      <3> QED
        BY <2>3, <3>1 DEF ShownIsTrue
    <2>5. AnswersAreTrue'
      <3> SUFFICES ASSUME NEW v \in Workers, NEW j \in Keys, Flies(v, j)', flight'[v].answered, flight'[v].ok
                   PROVE  /\ flight'[v].data \subseteq server'[j]
                          /\ flight'[v].seq = cache'[j].fetchSeq /\ cache'[j].hasData
                               => cache'[j].data \subseteq flight'[v].data
        BY DEF AnswersAreTrue
      <3>1. Flies(v, j) /\ flight'[v] = flight[v]
        BY <1>2
      <3> QED
        BY <1>1, <2>2, <3>1 DEF Truthful, AnswersAreTrue
    <2> QED
      BY <2>4, <2>5 DEF Truthful
  <1> QED
    BY <1>3, <1>4

LEMMA TruthStep ==
  ASSUME PromptFetches, TypeOK, NumberInv, Truthful, ~Clear,
         \A m \in Mutates : ~Rollback(m) /\ ~ApplyOptimistic(m) /\ ~CallbackSetData(m), [Next]_vars
  PROVE  Truthful'
  <1>0. \A k \in Keys : server[k] \subseteq server'[k]
    BY ServerGrows
  <1>1. CASE Quiet
    <2>1. \A w \in Workers, k \in Keys : Flies(w, k)' => Flies(w, k) /\ flight'[w] = flight[w]
      BY <1>1 DEF Quiet, Flies
    <2> QED
      BY <1>0, <1>1, <2>1, TruthAllKept DEF Quiet, Kept, Keeps
  <1>2. CASE Launches
    <2>1. PICK k \in Keys, w \in Workers : Present(k) /\ Launch(k, w)
      BY <1>2 DEF Launches
    <2>2. /\ ~flight'[w].answered
          /\ flight'[w].key = k /\ cache[k] \in Entry
          /\ \A v \in Workers : v # w => flight'[v] = flight[v]
          /\ cache'[k].fetchSeq = cache[k].fetchSeq + 1
          /\ cache'[k].data = cache[k].data /\ cache'[k].hasData = cache[k].hasData
          /\ \A j \in Keys : j # k => cache'[j] = cache[j]
      BY <2>1, Launched
    <2>3. \A v \in Workers, j \in Keys :
            Flies(v, j)' /\ flight'[v].answered => Flies(v, j) /\ flight'[v] = flight[v]
      BY <2>2 DEF Flies
    <2>4. ASSUME NEW v \in Workers, Flies(v, k)', flight'[v].answered
          PROVE  flight'[v].seq # cache'[k].fetchSeq
      <3>1. Flies(v, k) /\ flight'[v] = flight[v]
        BY <2>3, <2>4
      <3>2. flight[v].seq <= cache[k].fetchSeq /\ flight[v].seq \in Nat /\ cache[k].fetchSeq \in Nat
        BY <2>2, <3>1 DEF NumberInv, SeqsOrdered, Flies, TypeOK, Flight, Entry
      <3> QED
        BY <2>2, <3>1, <3>2
    <2>5. ShownIsTrue'
      BY <1>0, <2>1, <2>2 DEF Truthful, ShownIsTrue, Present
    <2>6. AnswersAreTrue'
      <3> SUFFICES ASSUME NEW v \in Workers, NEW j \in Keys, Flies(v, j)', flight'[v].answered, flight'[v].ok
                   PROVE  /\ flight'[v].data \subseteq server'[j]
                          /\ flight'[v].seq = cache'[j].fetchSeq /\ cache'[j].hasData
                               => cache'[j].data \subseteq flight'[v].data
        BY DEF AnswersAreTrue
      <3>1. Flies(v, j) /\ flight'[v] = flight[v]
        BY <2>3
      <3> QED
        BY <1>0, <2>2, <2>4, <3>1 DEF Truthful, AnswersAreTrue
    <2> QED
      BY <2>5, <2>6 DEF Truthful
  <1>3. ASSUME NEW u \in Uses, EvictTimer(u) PROVE Truthful'
    <2>1. PICK k \in Keys : k = use[u].key
      BY DEF TypeOK, UseRecord
    <2>2. /\ flight' = flight /\ ~InFlight(k)
          /\ cache' = cache \/ cache' = [cache EXCEPT ![k] = NoEntry]
      BY <1>3, <2>1 DEF EvictTimer
    <2>3. \A j \in Keys : cache'[j] = cache[j] \/ (cache'[j] = NoEntry /\ ~InFlight(j))
      BY <2>2 DEF TypeOK, Cache
    <2>4. \A w \in Workers, j \in Keys : Flies(w, j)' => Flies(w, j) /\ flight'[w] = flight[w]
      BY <2>2 DEF Flies
    <2> QED
      BY <1>0, <2>3, <2>4, TruthAllKept DEF Present
  <1> QED
    BY <1>1, <1>2, <1>3, AnswerTruth, CompleteTruth, StepKinds

-----------------------------------------------------------------------------
(* What is shown of a key, as ReadThrough has it *)

Visible(k) == IF Present(k) /\ cache[k].hasData THEN cache[k].data ELSE NoEntry

Shown == [k \in Keys |-> Visible(k)]

LEMMA SameVisible ==
  ASSUME \A k \in Keys : Visible(k)' = Visible(k) PROVE Shown' = Shown
  BY DEF Shown

LEMMA KeptVisible ==
  ASSUME \A k \in Keys : Kept(k) PROVE Shown' = Shown
  <1>1. \A k \in Keys : Visible(k)' = Visible(k)
    BY DEF Kept, Keeps, Visible
  <1> QED
    BY <1>1, SameVisible

LEMMA LaunchVisible ==
  ASSUME TypeOK, Launches PROVE Shown' = Shown
  <1>1. PICK k \in Keys, w \in Workers : Present(k) /\ Launch(k, w)
    BY DEF Launches
  <1>2. /\ Present(k)' /\ cache'[k].data = cache[k].data /\ cache'[k].hasData = cache[k].hasData
        /\ \A j \in Keys : j # k => cache'[j] = cache[j]
    BY <1>1, Launched
  <1>3. Visible(k)' = Visible(k)
    BY <1>1, <1>2 DEF Visible
  <1>4. \A j \in Keys : j # k => Visible(j)' = Visible(j)
    BY <1>2 DEF Visible, Present
  <1> QED
    BY <1>3, <1>4, SameVisible

LEMMA OneVisible ==
  ASSUME NEW k \in Keys, \A j \in Keys : j # k => cache'[j] = cache[j]
  PROVE  Shown' = [Shown EXCEPT ![k] = Visible(k)']
  BY DEF Shown, Visible, Present

LEMMA CompleteShows ==
  ASSUME TypeOK, NumberInv, Truthful, NEW w \in Workers, Complete(w)
  PROVE  Shown' = Shown \/ \E k \in Keys : Promise!Show(k)
  <1>1. PICK k \in Keys :
        /\ flight[w] # NoFlight /\ flight[w].answered /\ k = flight[w].key
        /\ \A j \in Keys : j # k => cache'[j] = cache[j]
        /\ ~Current(w) => cache' = cache
        /\ Current(w) =>
             /\ cache'[k] # NoEntry
             /\ IF flight[w].ok
                THEN cache'[k].data = flight[w].data /\ cache'[k].hasData
                ELSE cache'[k].data = cache[k].data /\ cache'[k].hasData = cache[k].hasData
        /\ server' = server
    BY Completed
  <1>2. CASE ~(Current(w) /\ flight[w].ok)
    <2>1. Visible(k)' = Visible(k)
      BY <1>1, <1>2 DEF Visible, Present, Current
    <2>2. \A j \in Keys : j # k => Visible(j)' = Visible(j)
      BY <1>1 DEF Visible, Present
    <2> QED
      BY <2>1, <2>2, SameVisible
  <1>3. CASE Current(w) /\ flight[w].ok
    <2>1. Flies(w, k) /\ flight[w].seq = cache[k].fetchSeq
      BY <1>1, <1>3 DEF Flies, Current
    <2>2. /\ flight[w].data \subseteq server[k]
          /\ Visible(k) # NoEntry => Visible(k) \subseteq flight[w].data
      BY <1>1, <1>3, <2>1 DEF Truthful, AnswersAreTrue, Visible
    <2>3. Visible(k)' = flight[w].data
      BY <1>1, <1>3 DEF Visible, Present
    <2>4. Shown' = [Shown EXCEPT ![k] = flight[w].data] /\ Shown[k] = Visible(k)
      BY <1>1, <2>3, OneVisible DEF Shown
    <2>5. Promise!Show(k)
      BY <1>1, <2>2, <2>4 DEF Promise!Show, Shown, Visible
    <2> QED
      BY <2>5
  <1> QED
    BY <1>2, <1>3

LEMMA EvictDrops ==
  ASSUME TypeOK, NEW u \in Uses, EvictTimer(u)
  PROVE  Shown' = Shown \/ \E k \in Keys : Promise!Drop(k)
  <1>1. PICK k \in Keys : k = use[u].key
    BY DEF TypeOK, UseRecord
  <1>2. server' = server /\ (cache' = cache \/ cache' = [cache EXCEPT ![k] = NoEntry])
    BY <1>1 DEF EvictTimer
  <1>3. CASE cache' = cache
    BY <1>3 DEF Shown, Visible, Present
  <1>4. CASE cache' = [cache EXCEPT ![k] = NoEntry]
    <2>1. cache'[k] = NoEntry /\ \A j \in Keys : j # k => cache'[j] = cache[j]
      BY <1>4 DEF TypeOK, Cache
    <2>2. Shown' = [Shown EXCEPT ![k] = NoEntry]
      BY <2>1, OneVisible DEF Visible, Present
    <2>3. Promise!Drop(k)
      BY <1>2, <2>2 DEF Promise!Drop, Shown, Visible
    <2> QED
      BY <2>3
  <1> QED
    BY <1>2, <1>3, <1>4

(***************************************************************************)
(* An application that only reads through UseQuery, and whose fetches are  *)
(* shorter than every CacheTime, gets what ReadThrough promises: what it   *)
(* shows never goes back to an older state, in whatever order answers come *)
(* (query.go, the test of fetchSeq once a fetch has been answered).        *)
(***************************************************************************)
THEOREM PromiseKept ==
  ASSUME Optimistic = {}, Writers = {}, Clearable = FALSE, PromptFetches
  PROVE  Spec => KeepsPromise
  <1> DEFINE IInv == TypeOK /\ NothingToRestore /\ NumberInv /\ Truthful
  <1>1. Init => IInv
    <2> SUFFICES ASSUME Init PROVE NumberInv /\ Truthful
      BY InitTyped, NothingToRestoreInit
    <2> QED
      BY DEF Init, NumberInv, SeqsOrdered, SeqsApart, OnlyWhenCarried, Flies, Carries,
             Truthful, ShownIsTrue, AnswersAreTrue, Present
  <1>2. IInv /\ [Next]_vars => IInv'
    <2> SUFFICES ASSUME IInv, [Next]_vars PROVE IInv'
      OBVIOUS
    <2>1. TypeOK' /\ NothingToRestore' /\ \A m \in Mutates : ~Rollback(m) /\ ~ApplyOptimistic(m)
      BY StepTyped, NothingToRestoreStep
    <2>2. ~Clear /\ \A m \in Mutates : ~CallbackSetData(m)
      BY DEF Clear, CallbackSetData
    <2> QED
      BY <2>1, <2>2, NumberStep, TruthStep
  <1>3. Init => Promise!Init
    BY DEF Init, Promise!Init, Present
  <1>4. IInv /\ [Next]_vars => [Promise!Next]_<<server, Shown>>
    <2> SUFFICES ASSUME IInv, [Next]_vars, ~(server' = server /\ Shown' = Shown)
                 PROVE  Promise!Next
      OBVIOUS
    <2>1. CASE \E m \in Mutates : Commit(m)
      <3>1. PICK m \in Mutates : Commit(m)
        BY <2>1
      <3>2. PICK k \in Keys : k = mut[m].key
        BY DEF TypeOK, MutRecord
      <3>3. Shown' = Shown /\ server' = [server EXCEPT ![k] = server[k] \cup {m}]
        BY <3>1, <3>2 DEF Commit, Shown, Visible, Present
      <3>4. Promise!Commit(k, m)
        BY <3>3 DEF Promise!Commit, Shown, Visible
      <3> QED
        BY <3>4 DEF Promise!Next
    <2>2. CASE server' = server
      <3>1. ~Clear /\ \A m \in Mutates : ~CallbackSetData(m) /\ ~Rollback(m) /\ ~ApplyOptimistic(m)
        BY NothingToRestoreStep DEF Clear, CallbackSetData
      <3>2. ~Quiet /\ ~Launches
        BY <2>2, KeptVisible, LaunchVisible DEF Quiet
      <3>3. \A w \in Workers : ~Answer(w)
        BY <2>2, AnswerGiven DEF Shown, Visible, Present
      <3>4. ASSUME NEW w \in Workers, Complete(w) PROVE Promise!Next
        BY <2>2, <3>4, CompleteShows DEF Promise!Next
      <3>5. ASSUME NEW u \in Uses, EvictTimer(u) PROVE Promise!Next
        BY <2>2, <3>5, EvictDrops DEF Promise!Next
      <3> QED
        BY <3>1, <3>2, <3>3, <3>4, <3>5, StepKinds
    <2> QED
      BY <2>1, <2>2, ServerGrows
  <1> QED
    BY <1>1, <1>2, <1>3, <1>4, PTL DEF Spec, KeepsPromise, Promise!Spec, Shown, Visible

-----------------------------------------------------------------------------
(***************************************************************************)
(* Eviction timers.  An armed timer's key has an entry, which has counted  *)
(* at least as far as the timer, and further if it was used again since.   *)
(***************************************************************************)
Armed(u) == use[u].st = "released"

TimersBehind ==
  \A u \in Uses, k \in Keys : Armed(u) /\ use[u].key = k =>
    /\ Present(k)
    /\ use[u].seq <= cache[k].evictSeq
    /\ use[u].reused => use[u].seq < cache[k].evictSeq

TimersApart ==
  \A u, v \in Uses :
    Armed(u) /\ Armed(v) /\ use[u].key = use[v].key /\ use[u].seq = use[v].seq => u = v

UnarmedUnused ==
  \A u \in Uses : use[u].st \in {"new", "mounting", "mounted"} => ~use[u].reused

TimerInv == TimersBehind /\ TimersApart /\ UnarmedUnused

\* No entry goes, nor counts back.
Held(k) == Present(k) => Present(k)' /\ cache'[k].evictSeq >= cache[k].evictSeq

LEMMA HeldUnlessEvicted ==
  ASSUME TypeOK, [Next]_vars, ~Clear, \A u \in Uses : ~EvictTimer(u),
         \A m \in Mutates : ~Rollback(m) /\ ~ApplyOptimistic(m)
  PROVE  \A k \in Keys : Held(k)
  <1>0. ASSUME NEW k \in Keys, Present(k) PROVE cache[k].evictSeq \in Nat
    BY <1>0, PresentTyped DEF Entry
  <1>1. CASE Quiet
    BY <1>1 DEF Quiet, Kept, Keeps, Held
  <1>2. CASE Launches
    <2>1. PICK k \in Keys, w \in Workers : Present(k) /\ Launch(k, w)
      BY <1>2 DEF Launches
    <2>2. /\ Present(k)' /\ cache'[k].evictSeq = cache[k].evictSeq
          /\ \A j \in Keys : j # k => cache'[j] = cache[j]
      BY <2>1, Launched
    <2> QED
      BY <1>0, <2>2 DEF Held, Present
  <1>3. ASSUME NEW w \in Workers, Answer(w) PROVE \A k \in Keys : Held(k)
    BY <1>0, <1>3 DEF Answer, Held, Present
  <1>4. ASSUME NEW w \in Workers, Complete(w) PROVE \A k \in Keys : Held(k)
    <2>1. PICK k \in Keys :
          /\ \A j \in Keys : j # k => cache'[j] = cache[j]
          /\ ~Current(w) => cache' = cache
          /\ Current(w) => cache'[k] # NoEntry /\ cache'[k].evictSeq = cache[k].evictSeq
      BY <1>4, Completed
    <2> QED
      BY <1>0, <2>1 DEF Held, Present
  <1>5. ASSUME NEW m \in Mutates, CallbackSetData(m) PROVE \A k \in Keys : Held(k)
    <2>1. PICK k \in Keys : SetData(k, m)
      BY <1>5 DEF CallbackSetData, TypeOK, MutRecord
    <2>2. /\ Present(k)' /\ (Present(k) => cache'[k].evictSeq = cache[k].evictSeq)
          /\ \A j \in Keys : j # k => cache'[j] = cache[j]
      BY <2>1, DataSet
    <2> QED
      BY <1>0, <2>2 DEF Held, Present
  <1> QED
    BY <1>1, <1>2, <1>3, <1>4, <1>5, StepKinds

\* Steps that arm no timer and use no key again.
LEMMA TimersHeld ==
  ASSUME TypeOK, TypeOK', TimerInv, \A k \in Keys : Held(k),
         \A u \in Uses :
           /\ Armed(u)' => use'[u] = use[u]
           /\ use'[u].st \in {"new", "mounting", "mounted"} =>
                use[u].st \in {"new", "mounting", "mounted"} /\ use'[u].reused = use[u].reused
  PROVE  TimerInv'
  <1>1. \A u \in Uses : use[u].seq \in Nat /\ use[u].key \in Keys
    BY DEF TypeOK, UseRecord
  <1>2. \A k \in Keys : Present(k) => cache[k].evictSeq \in Nat
    BY PresentTyped DEF Entry
  <1>0. \A k \in Keys : Present(k)' => cache'[k].evictSeq \in Nat
    BY DEF TypeOK, Cache, Present, Entry
  <1>3. ASSUME NEW u \in Uses, NEW k \in Keys, Armed(u)', use'[u].key = k
        PROVE  /\ Present(k)' /\ use'[u].seq <= cache'[k].evictSeq
               /\ use'[u].reused => use'[u].seq < cache'[k].evictSeq
    <2>1. use'[u] = use[u] /\ Armed(u) /\ use[u].key = k
      BY <1>3 DEF Armed
    <2>2. /\ Present(k) /\ use[u].seq <= cache[k].evictSeq
          /\ use[u].reused => use[u].seq < cache[k].evictSeq
      BY <2>1 DEF TimerInv, TimersBehind
    <2> QED
      BY <1>0, <1>1, <1>2, <2>1, <2>2 DEF Held
  <1>4. TimersBehind'
    BY <1>3 DEF TimersBehind
  <1>5. TimersApart'
    <2>1. \A u \in Uses : Armed(u)' => Armed(u) /\ use'[u] = use[u]
      BY DEF Armed
    <2> QED
      BY <2>1 DEF TimerInv, TimersApart
  <1>6. UnarmedUnused'
    BY DEF TimerInv, UnarmedUnused
  <1> QED
    BY <1>4, <1>5, <1>6 DEF TimerInv

LEMMA MountTimers ==
  ASSUME TypeOK, TimerInv, NEW u \in Uses, NEW k \in Keys, MountQuery(u, k)
  PROVE  TimerInv'
  <1>1. /\ use[u].st = "new"
        /\ use'[u] = [use[u] EXCEPT !.st = "mounting", !.key = k]
        /\ \A v \in Uses : v # u =>
             IF Armed(v) /\ use[v].key = k
             THEN use'[v] = [use[v] EXCEPT !.reused = TRUE] ELSE use'[v] = use[v]
    BY DEF MountQuery, Armed
  <1>2. \A v \in Uses : use[v] \in UseRecord
    BY DEF TypeOK
  <1>3. use'[u].st = "mounting" /\ use'[u].reused = use[u].reused
    BY <1>1, <1>2 DEF UseRecord
  <1>4. ASSUME NEW v \in Uses, Armed(v)'
        PROVE  /\ Armed(v) /\ use'[v].key = use[v].key /\ use'[v].seq = use[v].seq
               /\ use[v].key # k => use'[v].reused = use[v].reused
    <2>1. v # u
      BY <1>3, <1>4 DEF Armed
    <2> QED
      BY <1>1, <1>2, <1>4, <2>1 DEF UseRecord, Armed
  <1>5. /\ Present(k)' /\ cache'[k].evictSeq \in Nat
        /\ Present(k) => cache[k].evictSeq \in Nat /\ cache'[k].evictSeq = cache[k].evictSeq + 1
        /\ \A j \in Keys : j # k => cache'[j] = cache[j]
    <2> DEFINE e == EntryOr(k, [FreshEntry EXCEPT !.stale = TRUE])
    <2>1. e \in Entry /\ Subscribed(e) \in Entry /\ (Present(k) => e = cache[k])
      BY FreshTyped, EntryOrTyped, SubscribedTyped DEF EntryOr
    <2>2. cache'[k] = Subscribed(e) /\ \A j \in Keys : j # k => cache'[j] = cache[j]
      BY DEF MountQuery, TypeOK, Cache
    <2>3. Subscribed(e).evictSeq = e.evictSeq + 1 /\ Subscribed(e).evictSeq \in Nat /\ e.evictSeq \in Nat
      <3> HIDE DEF e
      <3> QED
        BY <2>1 DEF Subscribed, Entry
    <2> HIDE DEF e
    <2>4. Present(k)'
      BY <2>1, <2>2, EntryIsPresent DEF Present
    <2> QED
      BY <2>1, <2>2, <2>3, <2>4
  <1>6. ASSUME NEW v \in Uses, NEW j \in Keys, Armed(v)', use'[v].key = j
        PROVE  /\ Present(j)' /\ use'[v].seq <= cache'[j].evictSeq
               /\ use'[v].reused => use'[v].seq < cache'[j].evictSeq
    <2>1. /\ Present(j) /\ use[v].seq <= cache[j].evictSeq /\ use[v].seq \in Nat
          /\ use[v].reused => use[v].seq < cache[j].evictSeq
          /\ use'[v].seq = use[v].seq
      BY <1>2, <1>4, <1>6 DEF TimerInv, TimersBehind, UseRecord
    <2>2. CASE j = k
      BY <1>5, <2>1, <2>2
    <2>3. CASE j # k
      BY <1>4, <1>5, <1>6, <2>1, <2>3 DEF Present
    <2> QED
      BY <2>2, <2>3
  <1>7. TimersBehind'
    BY <1>6 DEF TimersBehind
  <1>8. TimersApart'
    BY <1>4 DEF TimerInv, TimersApart
  <1>9. UnarmedUnused'
    BY <1>1, <1>2, <1>3 DEF TimerInv, UnarmedUnused, UseRecord, Armed
  <1> QED
    BY <1>7, <1>8, <1>9 DEF TimerInv

LEMMA ReleaseTimers ==
  ASSUME TypeOK, TimerInv, NEW u \in Uses, ReleaseLast(u)
  PROVE  TimerInv'
  <1>1. PICK k \in Keys : k = use[u].key
    BY DEF TypeOK, UseRecord
  <1> DEFINE e == Unsubscribed(cache[k])
             n == e.evictSeq + 1
  <1>2. Present(k) /\ cache[k] \in Entry /\ e \in Entry /\ [e EXCEPT !.evictSeq = n] \in Entry
    BY <1>1, PresentTyped, UnsubscribedTyped DEF ReleaseLast
  <1>3. n \in Nat /\ cache[k].evictSeq \in Nat /\ n = cache[k].evictSeq + 1
    BY <1>2 DEF Unsubscribed, Entry
  <1>4. cache' = [cache EXCEPT ![k] = [e EXCEPT !.evictSeq = n]]
    BY <1>1 DEF ReleaseLast
  <1>5. use' = [use EXCEPT ![u] = [use[u] EXCEPT !.st = "released", !.seq = n]] /\ use[u].st = "mounted"
    BY <1>1 DEF ReleaseLast, TypeOK
  <1> HIDE DEF e
  <1>6. cache'[k] = [e EXCEPT !.evictSeq = n] /\ \A j \in Keys : j # k => cache'[j] = cache[j]
    BY <1>4 DEF TypeOK, Cache
  <1>7. cache'[k].evictSeq = n /\ Present(k)'
    BY <1>2, <1>6, EntryIsPresent DEF Entry, Present
  <1>8. /\ use'[u].key = k /\ use'[u].seq = n /\ Armed(u)' /\ use'[u].reused = use[u].reused
        /\ \A v \in Uses : v # u => use'[v] = use[v]
    <2>1. use[u] \in UseRecord
      BY DEF TypeOK
    <2>2. use'[u] = [use[u] EXCEPT !.st = "released", !.seq = n]
          /\ \A v \in Uses : v # u => use'[v] = use[v]
      BY <1>5 DEF TypeOK
    <2> HIDE DEF n
    <2> QED
      BY <1>1, <1>3, <2>1, <2>2 DEF UseRecord, Armed
  <1> HIDE DEF n
  <1>9. ~use'[u].reused
    BY <1>5, <1>8 DEF TimerInv, UnarmedUnused
  <1>10. ASSUME NEW v \in Uses, v # u, Armed(v)'
         PROVE  /\ Armed(v) /\ use'[v] = use[v] /\ use[v].seq \in Nat
                /\ use[v].key = k => use[v].seq < n
    BY <1>3, <1>8, <1>10 DEF TimerInv, TimersBehind, Armed, TypeOK, UseRecord
  <1>11. ASSUME NEW v \in Uses, NEW j \in Keys, Armed(v)', use'[v].key = j
         PROVE  /\ Present(j)' /\ use'[v].seq <= cache'[j].evictSeq
                /\ use'[v].reused => use'[v].seq < cache'[j].evictSeq
    <2>1. CASE v = u
      BY <1>3, <1>7, <1>8, <1>9, <1>11, <2>1
    <2>2. CASE v # u /\ j = k
      BY <1>3, <1>7, <1>10, <1>11, <2>2
    <2>3. CASE v # u /\ j # k
      BY <1>6, <1>10, <1>11, <2>3 DEF TimerInv, TimersBehind, Present
    <2> QED
      BY <2>1, <2>2, <2>3
  <1>12. TimersBehind'
    BY <1>11 DEF TimersBehind
  <1>13. TimersApart'
    BY <1>3, <1>8, <1>10 DEF TimerInv, TimersApart
  <1>14. UnarmedUnused'
    BY <1>8 DEF TimerInv, UnarmedUnused, Armed
  <1> QED
    BY <1>12, <1>13, <1>14 DEF TimerInv

\* The timer that evicts an entry is the last one armed for it.
LEMMA EvictTimers ==
  ASSUME OneCacheTime, TypeOK, TimerInv, NEW u \in Uses, EvictTimer(u)
  PROVE  TimerInv'
  <1>1. PICK k \in Keys : k = use[u].key
    BY DEF TypeOK, UseRecord
  <1>2. /\ Armed(u) /\ NextToFire(u) /\ use' = [use EXCEPT ![u].st = "done"]
        /\ cache' = IF Evictable(k, use[u].seq) THEN [cache EXCEPT ![k] = NoEntry] ELSE cache
    BY <1>1 DEF EvictTimer, Armed
  <1>3. use'[u].st = "done" /\ \A v \in Uses : v # u => use'[v] = use[v]
    BY <1>2 DEF TypeOK, UseRecord
  <1>4. \A v \in Uses : Armed(v)' => v # u /\ use'[v] = use[v] /\ Armed(v)
    BY <1>3 DEF Armed
  <1>5. ASSUME NEW v \in Uses, NEW j \in Keys, Armed(v)', use'[v].key = j
        PROVE  cache'[j] = cache[j]
    <2>1. CASE j = k
      <3>1. v # u /\ Armed(v) /\ use[v].key = k
        BY <1>4, <1>5, <2>1
      <3>2. use[u].seq <= use[v].seq /\ use[v].seq <= cache[k].evictSeq /\ use[v].seq # use[u].seq
        BY <1>1, <1>2, <3>1 DEF NextToFire, TimerInv, TimersBehind, TimersApart, Armed
      <3>3. use[u].seq \in Nat /\ use[v].seq \in Nat
        BY DEF TypeOK, UseRecord
      <3>4. Present(k) => cache[k].evictSeq \in Nat
        BY PresentTyped DEF Entry
      <3>5. ~Evictable(k, use[u].seq)
        BY <3>2, <3>3, <3>4 DEF Evictable
      <3> QED
        BY <1>2, <2>1, <3>5
    <2>2. CASE j # k
      BY <1>2, <2>2 DEF TypeOK, Cache
    <2> QED
      BY <2>1, <2>2
  <1>6. TimersBehind'
    BY <1>4, <1>5 DEF TimerInv, TimersBehind, Present
  <1>7. TimersApart'
    BY <1>4 DEF TimerInv, TimersApart
  <1>8. UnarmedUnused'
    BY <1>3 DEF TimerInv, UnarmedUnused
  <1> QED
    BY <1>6, <1>7, <1>8 DEF TimerInv

LEMMA TimerStep ==
  ASSUME OneCacheTime, TypeOK, TimerInv, ~Clear,
         \A m \in Mutates : ~Rollback(m) /\ ~ApplyOptimistic(m), [Next]_vars
  PROVE  TimerInv'
  <1> SUFFICES ASSUME \A u \in Uses : ~EvictTimer(u) /\ ~ReleaseLast(u),
                      \A u \in Uses, k \in Keys : ~MountQuery(u, k)
               PROVE  TimerInv'
    BY EvictTimers, ReleaseTimers, MountTimers
  <1>1. \A k \in Keys : Held(k)
    BY HeldUnlessEvicted
  <1>0. TypeOK'
    BY StepTyped
  <1>2. CASE use' = use
    BY <1>0, <1>1, <1>2, TimersHeld DEF Armed
  <1>3. ASSUME NEW u \in Uses, FinishMount(u) \/ ReleaseShared(u) PROVE TimerInv'
    <2>1. \/ use' = [use EXCEPT ![u].st = "mounted"] /\ use[u].st = "mounting"
          \/ use' = [use EXCEPT ![u].st = "done"]
      BY <1>3 DEF FinishMount, ReleaseShared
    <2>2. \A v \in Uses : v # u => use'[v] = use[v]
      BY <2>1 DEF TypeOK
    <2>3. use[u] \in UseRecord
      BY DEF TypeOK
    <2>4. \/ use'[u].st = "mounted" /\ use[u].st = "mounting" /\ use'[u].reused = use[u].reused
          \/ use'[u].st = "done"
      BY <2>1, <2>3 DEF TypeOK, UseRecord
    <2> QED
      BY <1>0, <1>1, <2>2, <2>4, TimersHeld DEF Armed
  <1>4. QueryStep => use' = use \/ \E u \in Uses : FinishMount(u) \/ ReleaseShared(u)
    BY DEF QueryStep, StartQueued, Refetch, InvalidateUse
  <1>5. FetchStep \/ ClientStep \/ MutationStep \/ UNCHANGED vars => use' = use
    BY DEF FetchStep, Answer, Complete, Age, ClientStep, Focus, RefetchActive, Clear, MutationStep,
           Begin, ApplyOptimistic, Send, Commit, Reject, Return, Rollback, CallbackInvalidate,
           CallbackSetData, NoCallback, vars
  <1> QED
    BY <1>2, <1>3, <1>4, <1>5 DEF Next

\* Only the timer itself ends the wait of a released use.
LEMMA OnlyTimerEnds ==
  ASSUME TypeOK, NEW u \in Uses, Armed(u), use'[u].st = "done", [Next]_vars
  PROVE  EvictTimer(u)
  <1>1. use[u].st = "released" /\ use[u] \in UseRecord
    BY DEF Armed, TypeOK
  <1>2. ASSUME NEW v \in Uses, NEW k \in Keys, MountQuery(v, k) PROVE FALSE
    BY <1>1, <1>2 DEF MountQuery, TypeOK, UseRecord
  <1>3. ASSUME NEW v \in Uses, FinishMount(v) PROVE FALSE
    BY <1>1, <1>3 DEF FinishMount, TypeOK, UseRecord
  <1>4. ASSUME NEW v \in Uses, ReleaseShared(v) PROVE FALSE
    BY <1>1, <1>4 DEF ReleaseShared, TypeOK, UseRecord
  <1>5. ASSUME NEW v \in Uses, ReleaseLast(v) PROVE FALSE
    <2>1. use[v].st = "mounted" /\ v # u
      BY <1>1, <1>5 DEF ReleaseLast
    <2>2. use'[u] = use[u]
      BY <1>5, <2>1 DEF ReleaseLast, TypeOK
    <2> QED
      BY <1>1, <2>2
  <1>6. ASSUME NEW v \in Uses, EvictTimer(v) PROVE v = u
    BY <1>1, <1>6 DEF EvictTimer, TypeOK, UseRecord
  <1>7. QueryStep => use' = use \/ EvictTimer(u)
    BY <1>2, <1>3, <1>4, <1>5, <1>6 DEF QueryStep, StartQueued, Refetch, InvalidateUse
  <1>8. FetchStep \/ ClientStep \/ MutationStep \/ UNCHANGED vars => use' = use
    BY DEF FetchStep, Answer, Complete, Age, ClientStep, Focus, RefetchActive, Clear, MutationStep,
           Begin, ApplyOptimistic, Send, Commit, Reject, Return, Rollback, CallbackInvalidate,
           CallbackSetData, NoCallback, vars
  <1> QED
    BY <1>1, <1>7, <1>8 DEF Next

(***************************************************************************)
(* A timer evicts only an entry nobody has used since the release that     *)
(* armed it (cache.go, evictSeq), when timers of a key are of one length;  *)
(* without optimistic mutations and Clear, after which an entry counts     *)
(* afresh while timers of the old one are still armed.                     *)
(***************************************************************************)
THEOREM EvictsOnlyUnused ==
  ASSUME Optimistic = {}, Clearable = FALSE, OneCacheTime
  PROVE  Spec => EvictedUnused
  <1> DEFINE IInv == TypeOK /\ NothingToRestore /\ TimerInv
  <1>1. Init => IInv
    <2> SUFFICES ASSUME Init PROVE TimerInv
      BY InitTyped, NothingToRestoreInit
    <2> QED
      BY DEF Init, TimerInv, TimersBehind, TimersApart, UnarmedUnused, Armed
  <1>2. IInv /\ [Next]_vars => IInv'
    <2> SUFFICES ASSUME IInv, [Next]_vars PROVE IInv'
      OBVIOUS
    <2>1. TypeOK' /\ NothingToRestore' /\ \A m \in Mutates : ~Rollback(m) /\ ~ApplyOptimistic(m)
      BY StepTyped, NothingToRestoreStep
    <2>2. ~Clear
      BY DEF Clear
    <2> QED
      BY <2>1, <2>2, TimerStep
  <1>3. IInv /\ [Next]_vars =>
          [\A u \in Uses :
             (/\ use[u].st = "released"
              /\ use'[u].st = "done"
              /\ cache[use[u].key] # NoEntry
              /\ cache'[use[u].key] = NoEntry) => ~use[u].reused]_vars
    <2> SUFFICES ASSUME IInv, [Next]_vars, NEW u \in Uses, use[u].st = "released",
                        use'[u].st = "done", cache[use[u].key] # NoEntry,
                        cache'[use[u].key] = NoEntry
                 PROVE  ~use[u].reused
      OBVIOUS
    <2>1. PICK k \in Keys : k = use[u].key
      BY DEF TypeOK, UseRecord
    <2>2. EvictTimer(u) /\ Armed(u)
      BY OnlyTimerEnds DEF Armed
    <2>3. Evictable(k, use[u].seq)
      BY <2>1, <2>2 DEF EvictTimer
    <2>4. cache[k].evictSeq = use[u].seq /\ use[u].seq \in Nat
      BY <2>3 DEF Evictable, TypeOK, UseRecord
    <2>5. use[u].reused => use[u].seq < cache[k].evictSeq
      BY <2>1, <2>2 DEF TimerInv, TimersBehind
    <2> QED
      BY <2>4, <2>5
  <1> QED
    BY <1>1, <1>2, <1>3, PTL DEF Spec, EvictedUnused

-----------------------------------------------------------------------------
(***************************************************************************)
(* Optimistic edits.  What the cache shows of a mutation was committed, or *)
(* the mutation still holds the snapshot that will take it out again; what *)
(* snapshots and answers show was committed.                               *)
(***************************************************************************)
Committed(m) == m \in server[mut[m].key]

Accounted(m) == Committed(m) \/ snap[m] # NoSnapshot

\* How far m has come, and what of it there is to commit and to restore.
Staged(m) ==
  /\ \A k \in Keys : m \in server[k] =>
       k = mut[m].key /\ mut[m].st \in {"applied", "failed", "succeeded", "done"}
  /\ mut[m].st \in {"applied", "succeeded"} => Committed(m)
  /\ mut[m].st \in {"idle", "done"} => snap[m] = NoSnapshot
  /\ mut[m].st = "snapped" => snap[m] # NoSnapshot
  /\ snap[m] # NoSnapshot => m \in Optimistic

ShownAccounted ==
  \A k \in Keys, n \in Mutates : Present(k) /\ n \in cache[k].data => Accounted(n)

SnapshotsCommitted ==
  \A m, n \in Mutates, k \in Keys :
    snap[m] # NoSnapshot /\ snap[m][k] # NoEntry /\ n \in snap[m][k].data => Committed(n)

AnswersCommitted ==
  \A w \in Workers, n \in Mutates :
    flight[w] # NoFlight /\ flight[w].answered /\ flight[w].ok /\ n \in flight[w].data => Committed(n)

EditInv ==
  (\A m \in Mutates : Staged(m)) /\ ShownAccounted /\ SnapshotsCommitted /\ AnswersCommitted

\* m's own step leaves the other mutations where they are.
LEMMA OthersStaged ==
  ASSUME TypeOK, \A j \in Mutates : Staged(j), NEW m \in Mutates, Staged(m)',
         \A n \in Mutates \ {m} : mut'[n] = mut[n] /\ snap'[n] = snap[n],
         \A n \in Mutates \ {m}, k \in Keys : n \in server'[k] <=> n \in server[k]
  PROVE  \A n \in Mutates : Staged(n)'
  <1> SUFFICES ASSUME NEW n \in Mutates \ {m} PROVE Staged(n)'
    OBVIOUS
  <1>1. mut[n].key \in Keys
    BY DEF TypeOK, MutRecord
  <1> QED
    BY <1>1 DEF Staged, Committed

LEMMA SameStaged ==
  ASSUME TypeOK, \A j \in Mutates : Staged(j), mut' = mut, snap' = snap, server' = server
  PROVE  \A n \in Mutates : Staged(n)'
  BY DEF Staged, Committed

LEMMA MutationStaged ==
  ASSUME TypeOK, \A j \in Mutates : Staged(j), MutationStep
  PROVE  \A n \in Mutates : Staged(n)'
  <1>0. \A m \in Mutates : mut[m] \in MutRecord /\ mut[m].key \in Keys
    BY DEF TypeOK, MutRecord
  <1>1. ASSUME NEW m \in Mutates, NEW k \in Keys, Begin(m, k) PROVE \A n \in Mutates : Staged(n)'
    <2>1. \A n \in Mutates \ {m} : mut'[n] = mut[n] /\ snap'[n] = snap[n]
      BY <1>1 DEF Begin, TypeOK
    <2>2. /\ mut[m].st = "idle" /\ server' = server
          /\ mut'[m].st = IF m \in Optimistic THEN "snapped" ELSE "edited"
          /\ mut'[m].key = k
      BY <1>0, <1>1 DEF Begin, TypeOK, MutRecord
    <2>3. snap'[m] = IF m \in Optimistic THEN cache ELSE snap[m]
      BY <1>1 DEF Begin, TypeOK
    <2>4. cache # NoSnapshot
      BY AssumptionsHold DEF Assumptions, TypeOK
    <2>5. \A j \in Keys : m \notin server[j]
      BY <2>2 DEF Staged
    <2>6. Staged(m)'
      BY <2>2, <2>3, <2>4, <2>5 DEF Staged, Committed
    <2> QED
      BY <2>1, <2>2, <2>6, OthersStaged
  <1>2. ASSUME NEW m \in Mutates, ApplyOptimistic(m) PROVE \A n \in Mutates : Staged(n)'
    <2>1. /\ mut[m].st = "snapped" /\ server' = server /\ snap' = snap
          /\ mut'[m].st = "edited" /\ mut'[m].key = mut[m].key
          /\ \A n \in Mutates \ {m} : mut'[n] = mut[n]
      BY <1>0, <1>2 DEF ApplyOptimistic, TypeOK, MutRecord
    <2>2. Staged(m)'
      BY <2>1 DEF Staged, Committed
    <2> QED
      BY <2>1, <2>2, OthersStaged
  <1>3. ASSUME NEW m \in Mutates, Send(m) PROVE \A n \in Mutates : Staged(n)'
    <2>1. /\ mut[m].st = "edited" /\ server' = server /\ snap' = snap
          /\ mut'[m].st = "sent" /\ mut'[m].key = mut[m].key
          /\ \A n \in Mutates \ {m} : mut'[n] = mut[n]
      BY <1>0, <1>3 DEF Send, TypeOK, MutRecord
    <2>2. Staged(m)'
      BY <2>1 DEF Staged, Committed
    <2> QED
      BY <2>1, <2>2, OthersStaged
  <1>4. ASSUME NEW m \in Mutates, Commit(m) PROVE \A n \in Mutates : Staged(n)'
    <2>1. /\ mut[m].st = "sent" /\ snap' = snap
          /\ server' = [server EXCEPT ![mut[m].key] = server[mut[m].key] \cup {m}]
          /\ mut'[m].st = "applied" /\ mut'[m].key = mut[m].key
          /\ \A n \in Mutates \ {m} : mut'[n] = mut[n]
      BY <1>0, <1>4 DEF Commit, TypeOK, MutRecord
    <2>2. /\ \A j \in Keys : m \in server'[j] <=> j = mut[m].key
          /\ \A n \in Mutates \ {m}, j \in Keys : n \in server'[j] <=> n \in server[j]
      BY <1>0, <2>1 DEF Staged, TypeOK
    <2>3. Staged(m)'
      BY <1>0, <2>1, <2>2 DEF Staged, Committed
    <2> QED
      BY <2>1, <2>2, <2>3, OthersStaged
  <1>5. ASSUME NEW m \in Mutates, Reject(m) PROVE \A n \in Mutates : Staged(n)'
    <2>1. /\ mut[m].st = "sent" /\ server' = server /\ snap' = snap
          /\ mut'[m].st = "rejected" /\ mut'[m].key = mut[m].key
          /\ \A n \in Mutates \ {m} : mut'[n] = mut[n]
      BY <1>0, <1>5 DEF Reject, TypeOK, MutRecord
    <2>2. Staged(m)'
      BY <2>1 DEF Staged, Committed
    <2> QED
      BY <2>1, <2>2, OthersStaged
  <1>6. ASSUME NEW m \in Mutates, NEW failed \in BOOLEAN, Return(m, failed)
        PROVE  \A n \in Mutates : Staged(n)'
    <2>1. /\ mut[m].st \in {"applied", "rejected"} /\ (mut[m].st = "rejected" => failed)
          /\ server' = server /\ snap' = snap
          /\ mut'[m].st = (IF failed THEN "failed" ELSE "succeeded") /\ mut'[m].key = mut[m].key
          /\ \A n \in Mutates \ {m} : mut'[n] = mut[n]
      BY <1>0, <1>6 DEF Return, TypeOK, MutRecord
    <2>2. Staged(m)'
      BY <2>1 DEF Staged, Committed
    <2> QED
      BY <2>1, <2>2, OthersStaged
  <1>7. ASSUME NEW m \in Mutates, Rollback(m) PROVE \A n \in Mutates : Staged(n)'
    <2>1. /\ mut[m].st = "failed" /\ server' = server /\ mut' = mut /\ snap'[m] = NoSnapshot
          /\ \A n \in Mutates \ {m} : snap'[n] = snap[n]
      BY <1>0, <1>7 DEF Rollback, TypeOK
    <2>2. Staged(m)'
      BY <2>1 DEF Staged, Committed
    <2> QED
      BY <2>1, <2>2, OthersStaged
  <1>8. ASSUME NEW m \in Mutates, mut'[m].st = "done", mut'[m].key = mut[m].key,
               mut[m].st \in {"failed", "succeeded"}, snap'[m] = NoSnapshot, server' = server,
               \A n \in Mutates \ {m} : mut'[n] = mut[n] /\ snap'[n] = snap[n]
        PROVE  \A n \in Mutates : Staged(n)'
    <2>1. Staged(m)'
      BY <1>8 DEF Staged, Committed
    <2> QED
      BY <1>8, <2>1, OthersStaged
  <1>9. ASSUME NEW m \in Mutates, NEW p \in Prefixes, CallbackInvalidate(m, p)
        PROVE  \A n \in Mutates : Staged(n)'
    <2> DEFINE i == Found(m, p)
    <2>1. i \in {"none", "idle", "busy"}
      BY DEF Found
    <2>2. mut' = [mut EXCEPT ![m] = [mut[m] EXCEPT !.st = "done", !.inval = i]]
      BY <1>9 DEF CallbackInvalidate, TypeOK
    <2> HIDE DEF i
    <2>3. mut'[m].st = "done" /\ mut'[m].key = mut[m].key
      BY <1>0, <2>2 DEF TypeOK, MutRecord
    <2>4. /\ mut[m].st \in {"failed", "succeeded"} /\ snap'[m] = NoSnapshot /\ server' = server
          /\ \A n \in Mutates \ {m} : mut'[n] = mut[n] /\ snap'[n] = snap[n]
      BY <1>9, <2>2 DEF CallbackInvalidate, InCallback, TypeOK
    <2> QED
      BY <1>8, <2>3, <2>4
  <1>10. ASSUME NEW m \in Mutates, CallbackSetData(m) \/ NoCallback(m)
         PROVE  \A n \in Mutates : Staged(n)'
    <2>1. /\ mut' = [mut EXCEPT ![m].st = "done"] /\ snap' = [snap EXCEPT ![m] = NoSnapshot]
          /\ mut[m].st \in {"failed", "succeeded"} /\ server' = server
      BY <1>10 DEF CallbackSetData, NoCallback, InCallback
    <2>2. /\ mut'[m].st = "done" /\ mut'[m].key = mut[m].key /\ snap'[m] = NoSnapshot
          /\ \A n \in Mutates \ {m} : mut'[n] = mut[n] /\ snap'[n] = snap[n]
      BY <1>0, <2>1 DEF TypeOK, MutRecord
    <2> QED
      BY <1>8, <2>1, <2>2
  <1> QED
    BY <1>1, <1>2, <1>3, <1>4, <1>5, <1>6, <1>7, <1>9, <1>10 DEF MutationStep

LEMMA StepStaged ==
  ASSUME TypeOK, \A j \in Mutates : Staged(j), [Next]_vars
  PROVE  \A n \in Mutates : Staged(n)'
  <1>1. QueryStep \/ FetchStep \/ ClientStep \/ UNCHANGED vars => mut' = mut /\ snap' = snap /\ server' = server
    BY DEF QueryStep, MountQuery, StartQueued, FinishMount, ReleaseShared, ReleaseLast, EvictTimer,
           Refetch, InvalidateUse, FetchStep, Answer, Complete, Age, ClientStep, Focus,
           RefetchActive, Clear, vars
  <1> QED
    BY <1>1, SameStaged, MutationStaged DEF Next

\* What is committed stays so: a key is chosen before, and the backend forgets nothing.
LEMMA CommittedStays ==
  ASSUME TypeOK, \A j \in Mutates : Staged(j), [Next]_vars, NEW m \in Mutates, Committed(m)
  PROVE  Committed(m)'
  <1>1. mut[m].key \in Keys
    BY DEF TypeOK, MutRecord
  <1>2. m \in server'[mut[m].key]
    BY <1>1, ServerGrows DEF Committed
  <1>3. Staged(m)'
    BY StepStaged
  <1> QED
    BY <1>1, <1>2, <1>3 DEF Staged, Committed

LEMMA SnapKinds ==
  ASSUME TypeOK, [Next]_vars
  PROVE  \/ snap' = snap
         \/ \E m \in Mutates : /\ m \in Optimistic /\ mut[m].st = "idle" /\ cache' = cache
                               /\ snap' = [snap EXCEPT ![m] = cache]
         \/ \E m \in Mutates : Rollback(m)
         \/ \E m \in Mutates : /\ InCallback(m) /\ snap' = [snap EXCEPT ![m] = NoSnapshot]
  <1>1. ASSUME MutationStep
        PROVE  \/ snap' = snap
               \/ \E m \in Mutates : /\ m \in Optimistic /\ mut[m].st = "idle" /\ cache' = cache
                                     /\ snap' = [snap EXCEPT ![m] = cache]
               \/ \E m \in Mutates : Rollback(m)
               \/ \E m \in Mutates : /\ InCallback(m) /\ snap' = [snap EXCEPT ![m] = NoSnapshot]
    <2>1. ASSUME NEW m \in Mutates, NEW k \in Keys, Begin(m, k)
          PROVE  \/ snap' = snap
                 \/ /\ m \in Optimistic /\ mut[m].st = "idle" /\ cache' = cache
                    /\ snap' = [snap EXCEPT ![m] = cache]
      BY <2>1 DEF Begin
    <2>2. ASSUME NEW m \in Mutates,
                 (\E p \in Prefixes : CallbackInvalidate(m, p)) \/ CallbackSetData(m) \/ NoCallback(m)
          PROVE  InCallback(m) /\ snap' = [snap EXCEPT ![m] = NoSnapshot]
      BY <2>2 DEF CallbackInvalidate, CallbackSetData, NoCallback, InCallback
    <2>3. ASSUME NEW m \in Mutates,
                 \/ ApplyOptimistic(m) \/ Send(m) \/ Commit(m) \/ Reject(m)
                 \/ \E failed \in BOOLEAN : Return(m, failed)
          PROVE  snap' = snap
      BY <2>3 DEF ApplyOptimistic, Send, Commit, Reject, Return
    <2> QED
      BY <1>1, <2>1, <2>2, <2>3 DEF MutationStep
  <1>2. QueryStep \/ FetchStep \/ ClientStep \/ UNCHANGED vars => snap' = snap
    BY DEF QueryStep, MountQuery, StartQueued, FinishMount, ReleaseShared, ReleaseLast, EvictTimer,
           Refetch, InvalidateUse, FetchStep, Answer, Complete, Age, ClientStep, Focus,
           RefetchActive, Clear, vars
  <1> QED
    BY <1>1, <1>2 DEF Next

LEMMA AccountedStays ==
  ASSUME TypeOK, \A j \in Mutates : Staged(j), [Next]_vars, NEW m \in Mutates, ~Rollback(m),
         Accounted(m)
  PROVE  Accounted(m)'
  <1>1. CASE Committed(m)
    BY <1>1, CommittedStays DEF Accounted
  <1>2. CASE ~Committed(m) /\ snap[m] # NoSnapshot
    <2>1. ~InCallback(m)
      BY <1>2 DEF InCallback, Staged
    <2>2. cache # NoSnapshot
      BY AssumptionsHold DEF Assumptions, TypeOK
    <2>3. \A n \in Mutates : Rollback(n) => snap' = [snap EXCEPT ![n] = NoSnapshot]
      BY DEF Rollback
    <2>4. snap'[m] # NoSnapshot
      BY <1>2, <2>1, <2>2, <2>3, SnapKinds DEF TypeOK
    <2> QED
      BY <2>4 DEF Accounted
  <1> QED
    BY <1>1, <1>2 DEF Accounted

LEMMA ShownStep ==
  ASSUME TypeOK, EditInv, [Next]_vars PROVE ShownAccounted'
  <1> SUFFICES ASSUME NEW k \in Keys, NEW n \in Mutates, Present(k)', n \in cache'[k].data
               PROVE  Accounted(n)'
    BY DEF ShownAccounted
  <1>0. \A j \in Mutates : Staged(j)
    BY DEF EditInv
  <1>1. CASE \E m \in Mutates : Rollback(m)
    <2>1. PICK m \in Mutates : Rollback(m)
      BY <1>1
    <2>2. cache' = snap[m] /\ snap[m] # NoSnapshot
      BY <2>1 DEF Rollback, Restored
    <2>3. Committed(n)
      BY <2>2 DEF EditInv, SnapshotsCommitted, Present
    <2> QED
      BY <1>0, <2>3, CommittedStays DEF Accounted
  <1>2. CASE \A m \in Mutates : ~Rollback(m)
    <2> SUFFICES ASSUME ~(Present(k) /\ n \in cache[k].data) PROVE Accounted(n)'
      BY <1>0, <1>2, AccountedStays DEF EditInv, ShownAccounted
    <2>1. ~Quiet
      BY DEF Quiet, Kept, Keeps
    <2>2. ~Launches
      <3> SUFFICES ASSUME NEW j \in Keys, NEW w \in Workers, Present(j), Launch(j, w) PROVE FALSE
        BY DEF Launches
      <3>1. cache'[j].data = cache[j].data /\ \A i \in Keys : i # j => cache'[i] = cache[i]
        BY Launched
      <3> QED
        BY <3>1 DEF Present
    <2>3. ASSUME NEW w \in Workers, Answer(w) PROVE FALSE
      BY <2>3 DEF Answer, Present
    <2>4. ASSUME NEW w \in Workers, Complete(w) PROVE Accounted(n)'
      <3>1. PICK j \in Keys :
            /\ flight[w] # NoFlight /\ flight[w].answered
            /\ \A i \in Keys : i # j => cache'[i] = cache[i]
            /\ ~Current(w) => cache' = cache
            /\ Current(w) => /\ cache[j] \in Entry
                             /\ IF flight[w].ok THEN cache'[j].data = flight[w].data
                                                ELSE cache'[j].data = cache[j].data
        BY <2>4, Completed
      <3>2. Current(w) /\ flight[w].ok /\ n \in flight[w].data
        BY <3>1, EntryIsPresent DEF Present
      <3>3. Committed(n)
        BY <3>1, <3>2 DEF EditInv, AnswersCommitted
      <3> QED
        BY <1>0, <3>3, CommittedStays DEF Accounted
    <2>5. ASSUME NEW u \in Uses, EvictTimer(u) PROVE FALSE
      <3>1. cache'[k] = cache[k] \/ cache'[k] = NoEntry
        BY <2>5 DEF EvictTimer, TypeOK, UseRecord, Cache
      <3> QED
        BY <3>1 DEF Present
    <2>6. ~Clear
      BY DEF Clear, Present
    <2>7. ASSUME NEW m \in Mutates, ApplyOptimistic(m) \/ CallbackSetData(m) PROVE Accounted(n)'
      <3>1. PICK j \in Keys : SetData(j, m)
        BY <2>7 DEF ApplyOptimistic, CallbackSetData, TypeOK, MutRecord
      <3>2. /\ cache'[j].data = (IF Present(j) THEN cache[j].data ELSE {}) \cup {m}
            /\ \A i \in Keys : i # j => cache'[i] = cache[i]
        BY <3>1, DataSet
      <3>3. n = m
        BY <3>2 DEF Present
      <3>4. Accounted(m)
        BY <1>0, <2>7 DEF Staged, ApplyOptimistic, CallbackSetData, Accounted
      <3> QED
        BY <1>0, <1>2, <3>3, <3>4, AccountedStays
    <2> QED
      BY <1>2, <2>1, <2>2, <2>3, <2>4, <2>5, <2>6, <2>7, StepKinds
  <1> QED
    BY <1>1, <1>2

LEMMA SnapshotStep ==
  ASSUME \A m, n \in Optimistic : m = n, TypeOK, EditInv, [Next]_vars
  PROVE  SnapshotsCommitted'
  <1>0. \A j \in Mutates : Staged(j)
    BY DEF EditInv
  <1> SUFFICES ASSUME NEW m \in Mutates, NEW n \in Mutates, NEW k \in Keys, snap'[m] # NoSnapshot,
                      snap'[m][k] # NoEntry, n \in snap'[m][k].data
               PROVE  Committed(n)
    BY <1>0, CommittedStays DEF SnapshotsCommitted
  <1>1. CASE snap'[m] = snap[m]
    BY <1>1 DEF EditInv, SnapshotsCommitted
  <1>2. CASE snap'[m] # snap[m]
    <2>1. m \in Optimistic /\ mut[m].st = "idle" /\ snap'[m] = cache
      <3>1. \A j \in Mutates : Rollback(j) => snap' = [snap EXCEPT ![j] = NoSnapshot]
        BY DEF Rollback
      <3> QED
        BY <1>2, <3>1, SnapKinds DEF TypeOK
    <2>2. Accounted(n)
      BY <2>1 DEF EditInv, ShownAccounted, Present
    <2>3. snap[n] = NoSnapshot
      BY <1>0, <2>1 DEF Staged
    <2> QED
      BY <2>2, <2>3 DEF Accounted
  <1> QED
    BY <1>1, <1>2

LEMMA AnswersStep ==
  ASSUME TypeOK, EditInv, [Next]_vars PROVE AnswersCommitted'
  <1>0. \A j \in Mutates : Staged(j)
    BY DEF EditInv
  <1> SUFFICES ASSUME NEW w \in Workers, NEW n \in Mutates, flight'[w] # NoFlight,
                      flight'[w].answered, flight'[w].ok, n \in flight'[w].data
               PROVE  Committed(n)
    BY <1>0, CommittedStays DEF AnswersCommitted
  <1>1. CASE flight'[w] = flight[w]
    BY <1>1 DEF EditInv, AnswersCommitted
  <1>2. CASE flight'[w] # flight[w]
    <2>1. ~Launches
      <3> SUFFICES ASSUME NEW j \in Keys, NEW v \in Workers, Present(j), Launch(j, v) PROVE FALSE
        BY DEF Launches
      <3>1. ~flight'[v].answered /\ \A x \in Workers : x # v => flight'[x] = flight[x]
        BY Launched
      <3> QED
        BY <1>2, <3>1
    <2>2. ASSUME NEW v \in Workers, Complete(v) PROVE FALSE
      BY <1>2, <2>2 DEF Complete, TypeOK
    <2>3. ASSUME NEW v \in Workers, Answer(v) PROVE Committed(n)
      <3>1. /\ flight[v] \in Flight /\ flight'[v].ok => flight'[v].data = server[flight[v].key]
            /\ \A x \in Workers : x # v => flight'[x] = flight[x]
        BY <2>3, AnswerGiven
      <3>2. flight[v].key \in Keys
        BY <2>3, AnswerGiven DEF Flight
      <3>3. n \in server[flight[v].key]
        BY <1>2, <2>3, <3>1, AnswerGiven
      <3> QED
        BY <1>0, <3>2, <3>3 DEF Staged, Committed
    <2>4. Quiet \/ (\E u \in Uses : EvictTimer(u)) \/ Clear
            \/ (\E m \in Mutates : ApplyOptimistic(m) \/ CallbackSetData(m) \/ Rollback(m))
          => flight' = flight
      BY DEF Quiet, EvictTimer, Clear, ApplyOptimistic, CallbackSetData, Rollback
    <2> QED
      BY <1>2, <2>1, <2>2, <2>3, <2>4, StepKinds
  <1> QED
    BY <1>1, <1>2

(***************************************************************************)
(* plan/09 T09.8, "after server error, rollback reverts the cache": what a *)
(* rejected mutation had put there optimistically is gone, whatever was    *)
(* fetched, cleared, evicted or invalidated meanwhile (mutation.go); with  *)
(* one optimistic mutation, as another's snapshot may hold the edit.       *)
(***************************************************************************)
THEOREM RejectedEditsGone ==
  ASSUME \A m, n \in Optimistic : m = n
  PROVE  Spec => []NoRejectedEdit
  <1> DEFINE IInv == TypeOK /\ EditInv
  <1>1. Init => IInv
    <2> SUFFICES ASSUME Init PROVE EditInv
      BY InitTyped
    <2> QED
      BY DEF Init, EditInv, Staged, Committed, ShownAccounted, SnapshotsCommitted,
             AnswersCommitted, Present
  <1>2. IInv /\ [Next]_vars => IInv'
    <2> SUFFICES ASSUME IInv, [Next]_vars PROVE IInv'
      OBVIOUS
    <2>1. \A m \in Mutates : Staged(m)'
      BY StepStaged DEF EditInv
    <2>2. ShownAccounted' /\ AnswersCommitted'
      BY ShownStep, AnswersStep
    <2>3. SnapshotsCommitted'
      BY SnapshotStep
    <2>4. TypeOK'
      BY StepTyped
    <2> QED
      BY <2>1, <2>2, <2>3, <2>4 DEF EditInv
  <1>3. IInv => NoRejectedEdit
    <2> SUFFICES ASSUME EditInv, NEW m \in Mutates, RolledBack(m), NEW k \in Keys, Present(k)
                 PROVE  m \notin cache[k].data
      BY DEF NoRejectedEdit
    <2>1. Staged(m) /\ ~Committed(m)
      BY DEF EditInv, RolledBack, Committed
    <2>2. snap[m] = NoSnapshot
      BY <2>1 DEF Staged, RolledBack, InCallback
    <2> QED
      BY <2>1, <2>2 DEF EditInv, ShownAccounted, Accounted
  <1> QED
    BY <1>1, <1>2, <1>3, PTL DEF Spec

-----------------------------------------------------------------------------
(***************************************************************************)
(* Invalidations.  Once one found its key mounted and no fetch in flight,  *)
(* every answer to come shows the mutation; and until one has come, a      *)
(* fetch is running or some caller still owes the startFetch.              *)
(***************************************************************************)
Waiting(m, k) == mut[m].inval = "idle" /\ mut[m].key = k /\ m \in server[k]

InvalidatedDone == \A m \in Mutates : mut[m].inval # "none" => mut[m].st = "done"

AllFetchable == \A k \in Keys : Present(k) => cache[k].fetchable

AnswersShow(m, k) ==
  \A w \in Workers : Flies(w, k) /\ flight[w].answered /\ flight[w].ok => m \in flight[w].data

Owed(m, k) == Present(k) => Shows(k, m) \/ cache[k].fetching \/ Attended(k)

ReachInv ==
  /\ InvalidatedDone
  /\ AllFetchable
  /\ \A m \in Mutates, k \in Keys : Waiting(m, k) => AnswersShow(m, k) /\ Owed(m, k)

\* A step moves at most one mutation on, and it was not done.
LEMMA MutationMoves ==
  ASSUME TypeOK, [Next]_vars
  PROVE  \/ mut' = mut
         \/ \E m \in Mutates :
              /\ mut[m].st # "done"
              /\ \A n \in Mutates \ {m} : mut'[n] = mut[n]
              /\ \/ mut'[m].inval = mut[m].inval
                 \/ mut'[m].st = "done" /\ \E p \in Prefixes : CallbackInvalidate(m, p)
  <1>0. \A m \in Mutates : mut[m] \in MutRecord
    BY DEF TypeOK
  <1>1. ASSUME NEW m \in Mutates, NEW k \in Keys, Begin(m, k)
        PROVE  /\ mut[m].st # "done" /\ mut'[m].inval = mut[m].inval
               /\ \A n \in Mutates \ {m} : mut'[n] = mut[n]
    BY <1>0, <1>1 DEF Begin, TypeOK, MutRecord
  <1>2. ASSUME NEW m \in Mutates, NEW p \in Prefixes, CallbackInvalidate(m, p)
        PROVE  /\ mut[m].st # "done" /\ mut'[m].st = "done"
               /\ \A n \in Mutates \ {m} : mut'[n] = mut[n]
    BY <1>0, <1>2 DEF CallbackInvalidate, InCallback, TypeOK, MutRecord
  <1>3. ASSUME NEW m \in Mutates, NEW s, mut' = [mut EXCEPT ![m].st = s]
        PROVE  mut'[m].inval = mut[m].inval /\ \A n \in Mutates \ {m} : mut'[n] = mut[n]
    BY <1>0, <1>3 DEF TypeOK, MutRecord
  <1>4. ASSUME NEW m \in Mutates,
               \/ ApplyOptimistic(m) \/ Send(m) \/ Commit(m) \/ Reject(m)
               \/ \E failed \in BOOLEAN : Return(m, failed)
               \/ CallbackSetData(m) \/ NoCallback(m)
        PROVE  mut[m].st # "done" /\ \E s : mut' = [mut EXCEPT ![m].st = s]
    BY <1>4 DEF ApplyOptimistic, Send, Commit, Reject, Return, CallbackSetData, NoCallback, InCallback
  <1>5. QueryStep \/ FetchStep \/ ClientStep \/ UNCHANGED vars \/ (\E m \in Mutates : Rollback(m))
          => mut' = mut
    BY DEF QueryStep, MountQuery, StartQueued, FinishMount, ReleaseShared, ReleaseLast, EvictTimer,
           Refetch, InvalidateUse, FetchStep, Answer, Complete, Age, ClientStep, Focus,
           RefetchActive, Clear, vars, Rollback
  <1>6. ASSUME MutationStep, mut' # mut
        PROVE  \E m \in Mutates :
                 /\ mut[m].st # "done"
                 /\ \A n \in Mutates \ {m} : mut'[n] = mut[n]
                 /\ \/ mut'[m].inval = mut[m].inval
                    \/ mut'[m].st = "done" /\ \E p \in Prefixes : CallbackInvalidate(m, p)
    <2>1. \/ \E m \in Mutates, k \in Keys : Begin(m, k)
          \/ \E m \in Mutates, p \in Prefixes : CallbackInvalidate(m, p)
          \/ \E m \in Mutates : \/ ApplyOptimistic(m) \/ Send(m) \/ Commit(m) \/ Reject(m)
                                \/ \E failed \in BOOLEAN : Return(m, failed)
                                \/ CallbackSetData(m) \/ NoCallback(m)
      BY <1>5, <1>6 DEF MutationStep
    <2>2. CASE \E m \in Mutates, k \in Keys : Begin(m, k)
      BY <1>1, <2>2
    <2>3. CASE \E m \in Mutates, p \in Prefixes : CallbackInvalidate(m, p)
      BY <1>2, <2>3
    <2>4. ASSUME NEW m \in Mutates,
                 \/ ApplyOptimistic(m) \/ Send(m) \/ Commit(m) \/ Reject(m)
                 \/ \E failed \in BOOLEAN : Return(m, failed)
                 \/ CallbackSetData(m) \/ NoCallback(m)
          PROVE  /\ mut[m].st # "done" /\ mut'[m].inval = mut[m].inval
                 /\ \A n \in Mutates \ {m} : mut'[n] = mut[n]
      <3>1. mut[m].st # "done" /\ \E s : mut' = [mut EXCEPT ![m].st = s]
        BY <1>4, <2>4
      <3>2. PICK s : mut' = [mut EXCEPT ![m].st = s]
        BY <3>1
      <3> QED
        BY <1>3, <3>1, <3>2
    <2> QED
      BY <2>1, <2>2, <2>3, <2>4
  <1> QED
    BY <1>5, <1>6 DEF Next

LEMMA InvalidatedStep ==
  ASSUME TypeOK, InvalidatedDone, [Next]_vars
  PROVE  /\ InvalidatedDone'
         /\ \A m \in Mutates : mut'[m].inval # "none" =>
              mut'[m] = mut[m] \/ \E p \in Prefixes : CallbackInvalidate(m, p)
  BY MutationMoves DEF InvalidatedDone

\* A mutation that is done commits no more.
LEMMA WaitingFrom ==
  ASSUME TypeOK, InvalidatedDone, [Next]_vars, NEW m \in Mutates, NEW k \in Keys, Waiting(m, k)'
  PROVE  /\ m \in server[k] \/ ~(mut'[m] = mut[m])
         /\ Waiting(m, k) \/ \E p \in Prefixes : CallbackInvalidate(m, p)
  <1>1. mut'[m] = mut[m] \/ \E p \in Prefixes : CallbackInvalidate(m, p)
    BY InvalidatedStep DEF Waiting
  <1>2. ASSUME mut'[m] = mut[m] PROVE m \in server[k]
    <2>1. mut[m].st = "done"
      BY <1>2 DEF Waiting, InvalidatedDone
    <2>2. ASSUME NEW n \in Mutates, Commit(n) PROVE m \in server[k]
      <3>1. n # m /\ server' = [server EXCEPT ![mut[n].key] = server[mut[n].key] \cup {n}]
        BY <2>1, <2>2 DEF Commit
      <3> QED
        BY <3>1 DEF Waiting, TypeOK
    <2> QED
      BY <2>2, ServerGrows DEF Waiting
  <1> QED
    BY <1>1, <1>2 DEF Waiting

LEMMA FetchableStep ==
  ASSUME TypeOK, AllFetchable, \A m \in Mutates : ~Rollback(m) /\ ~ApplyOptimistic(m) /\ ~CallbackSetData(m),
         [Next]_vars
  PROVE  AllFetchable'
  <1> SUFFICES ASSUME NEW k \in Keys, Present(k)' PROVE cache'[k].fetchable
    BY DEF AllFetchable
  <1>1. CASE Quiet
    BY <1>1 DEF Quiet, Kept, Keeps, AllFetchable
  <1>2. CASE Launches
    <2>1. PICK j \in Keys, w \in Workers : Present(j) /\ Launch(j, w)
      BY <1>2 DEF Launches
    <2>2. /\ cache'[j].fetchable = cache[j].fetchable
          /\ \A i \in Keys : i # j => cache'[i] = cache[i]
      BY <2>1, Launched
    <2> QED
      BY <2>1, <2>2 DEF AllFetchable, Present
  <1>3. ASSUME NEW w \in Workers, Answer(w) PROVE cache'[k].fetchable
    BY <1>3 DEF Answer, AllFetchable, Present
  <1>4. ASSUME NEW w \in Workers, Complete(w) PROVE cache'[k].fetchable
    <2>1. PICK j \in Keys :
          /\ \A i \in Keys : i # j => cache'[i] = cache[i]
          /\ ~Current(w) => cache' = cache
          /\ Current(w) => cache[j] \in Entry /\ cache'[j].fetchable = cache[j].fetchable
      BY <1>4, Completed
    <2> QED
      BY <2>1, EntryIsPresent DEF AllFetchable, Present
  <1>5. ASSUME NEW u \in Uses, EvictTimer(u) PROVE cache'[k].fetchable
    <2>1. cache'[k] = cache[k] \/ cache'[k] = NoEntry
      BY <1>5 DEF EvictTimer, TypeOK, UseRecord, Cache
    <2> QED
      BY <2>1 DEF AllFetchable, Present
  <1>6. ~Clear
    BY DEF Clear, Present
  <1> QED
    BY <1>1, <1>2, <1>3, <1>4, <1>5, <1>6, StepKinds

\* Only the startFetch itself settles what is owed.
LEMMA AttendedStays ==
  ASSUME TypeOK, NothingOwedYet, [Next]_vars, NEW k \in Keys, Attended(k)
  PROVE  Attended(k)' \/ \E a \in Actors : StartQueued(a, k)
  <1>1. PICK a \in Actors : k \in todo[a]
    BY DEF Attended
  <1>2. ASSUME k \in todo'[a] PROVE Attended(k)'
    BY <1>2 DEF Attended
  <1>3. ASSUME NEW b \in Actors, NEW s, todo[b] = {}, todo' = [todo EXCEPT ![b] = s]
        PROVE  Attended(k)'
    BY <1>1, <1>2, <1>3 DEF TypeOK
  <1>4. ASSUME NEW b \in Actors, NEW j \in Keys, StartQueued(b, j)
        PROVE  Attended(k)' \/ \E c \in Actors : StartQueued(c, k)
    BY <1>1, <1>2, <1>4 DEF StartQueued, TypeOK
  <1>5. ASSUME NEW u \in Uses, NEW j \in Keys, MountQuery(u, j) PROVE Attended(k)'
    <2>1. todo[u] = {} /\ u \in Actors
      BY <1>5 DEF MountQuery, NothingOwedYet, Actors
    <2>2. \E s : todo' = [todo EXCEPT ![u] = s]
      BY <1>5 DEF MountQuery
    <2> QED
      BY <1>3, <2>1, <2>2
  <1>6. ASSUME NEW u \in Uses, InvalidateUse(u) PROVE Attended(k)'
    BY <1>3, <1>6 DEF InvalidateUse, Actors
  <1>7. ASSUME NEW j \in Keys, RefetchActive(j) PROVE Attended(k)'
    <2>1. todo[Window] = {} /\ Window \in Actors
      BY <1>7 DEF RefetchActive, Actors
    <2>2. \E s : todo' = [todo EXCEPT ![Window] = s]
      BY <1>7 DEF RefetchActive
    <2> QED
      BY <1>3, <2>1, <2>2
  <1>8. ASSUME NEW m \in Mutates, NEW p \in Prefixes, CallbackInvalidate(m, p) PROVE Attended(k)'
    <2>1. todo[m] = {} /\ m \in Actors
      BY <1>8 DEF CallbackInvalidate, InCallback, NothingOwedYet, Actors
    <2> QED
      BY <1>3, <1>8, <2>1 DEF CallbackInvalidate
  <1>9. ASSUME todo' = todo PROVE Attended(k)'
    BY <1>1, <1>2, <1>9
  <1>10. ASSUME QueryStep PROVE Attended(k)' \/ \E c \in Actors : StartQueued(c, k)
    BY <1>4, <1>5, <1>6, <1>9, <1>10 DEF QueryStep, FinishMount, ReleaseShared, ReleaseLast, EvictTimer, Refetch
  <1>11. ASSUME FetchStep \/ ClientStep \/ UNCHANGED vars PROVE Attended(k)'
    BY <1>7, <1>9, <1>11 DEF FetchStep, Answer, Complete, Age, ClientStep, Focus, Clear, vars
  <1>12. ASSUME MutationStep PROVE Attended(k)'
    BY <1>8, <1>9, <1>12 DEF MutationStep, Begin, ApplyOptimistic, Send, Commit, Reject, Return,
                             Rollback, CallbackSetData, NoCallback
  <1> QED
    BY <1>10, <1>11, <1>12 DEF Next

LEMMA StartsFetching ==
  ASSUME TypeOK, AllFetchable, NEW k \in Keys, NEW a \in Actors, StartQueued(a, k), Present(k)'
  PROVE  cache'[k].fetching
  <1>1. CASE Starts(k, FALSE)
    <2>1. PICK w \in Workers : Launch(k, w)
      BY <1>1 DEF StartQueued, StartFetch
    <2> QED
      BY <1>1, <2>1, Launched DEF Starts
  <1>2. CASE ~Starts(k, FALSE)
    <2>1. cache' = cache
      BY <1>2 DEF StartQueued, StartFetch
    <2> QED
      BY <1>2, <2>1 DEF Starts, AllFetchable, Present
  <1> QED
    BY <1>1, <1>2

LEMMA AnswersShowStep ==
  ASSUME TypeOK, [Next]_vars, NEW m \in Mutates, NEW k \in Keys, Waiting(m, k), AnswersShow(m, k)
  PROVE  AnswersShow(m, k)'
  <1> SUFFICES ASSUME NEW w \in Workers, Flies(w, k)', flight'[w].answered, flight'[w].ok
               PROVE  m \in flight'[w].data
    BY DEF AnswersShow
  <1>1. CASE flight'[w] = flight[w]
    BY <1>1 DEF AnswersShow, Flies
  <1>2. CASE flight'[w] # flight[w]
    <2>1. ~Launches
      <3> SUFFICES ASSUME NEW j \in Keys, NEW v \in Workers, Present(j), Launch(j, v) PROVE FALSE
        BY DEF Launches
      <3>1. ~flight'[v].answered /\ \A x \in Workers : x # v => flight'[x] = flight[x]
        BY Launched
      <3> QED
        BY <1>2, <3>1
    <2>2. ASSUME NEW v \in Workers, Complete(v) PROVE FALSE
      BY <1>2, <2>2 DEF Complete, TypeOK, Flies
    <2>3. ASSUME NEW v \in Workers, Answer(v) PROVE m \in flight'[w].data
      <3>1. /\ flight'[v].ok => flight'[v].data = server[flight[v].key]
            /\ flight'[v].key = flight[v].key
            /\ \A x \in Workers : x # v => flight'[x] = flight[x]
        BY <2>3, AnswerGiven
      <3> QED
        BY <1>2, <3>1 DEF Flies, Waiting
    <2>4. Quiet \/ (\E u \in Uses : EvictTimer(u)) \/ Clear
            \/ (\E n \in Mutates : ApplyOptimistic(n) \/ CallbackSetData(n) \/ Rollback(n))
          => flight' = flight
      BY DEF Quiet, EvictTimer, Clear, ApplyOptimistic, CallbackSetData, Rollback
    <2> QED
      BY <1>2, <2>1, <2>2, <2>3, <2>4, StepKinds
  <1> QED
    BY <1>1, <1>2

LEMMA OwedStep ==
  ASSUME TypeOK, NothingOwedYet, AllFetchable, [Next]_vars,
         \A n \in Mutates : ~Rollback(n) /\ ~ApplyOptimistic(n) /\ ~CallbackSetData(n),
         NEW m \in Mutates, NEW k \in Keys, AnswersShow(m, k), Owed(m, k)
  PROVE  Owed(m, k)'
  <1> SUFFICES ASSUME Present(k)', ~cache'[k].fetching, ~Attended(k)' PROVE Shows(k, m)'
    BY DEF Owed
  <1>1. ~Attended(k)
    BY AttendedStays, StartsFetching
  <1>2. ASSUME Present(k), cache'[k].data = cache[k].data, cache'[k].hasData = cache[k].hasData,
               cache'[k].err = cache[k].err, cache'[k].fetching = cache[k].fetching
        PROVE  Shows(k, m)'
    BY <1>1, <1>2 DEF Owed, Shows
  <1>3. CASE Quiet
    BY <1>2, <1>3 DEF Quiet, Kept, Keeps, Shows
  <1>4. CASE Launches
    <2>1. PICK j \in Keys, w \in Workers : Present(j) /\ Launch(j, w)
      BY <1>4 DEF Launches
    <2>2. cache'[j].fetching /\ \A i \in Keys : i # j => cache'[i] = cache[i]
      BY <2>1, Launched
    <2> QED
      BY <1>2, <2>2 DEF Present
  <1>5. ASSUME NEW w \in Workers, Answer(w) PROVE Shows(k, m)'
    BY <1>2, <1>5 DEF Answer, Present
  <1>6. ASSUME NEW w \in Workers, Complete(w) PROVE Shows(k, m)'
    <2>1. PICK j \in Keys :
          /\ flight[w] # NoFlight /\ flight[w].answered /\ j = flight[w].key
          /\ \A i \in Keys : i # j => cache'[i] = cache[i]
          /\ ~Current(w) => cache' = cache
          /\ Current(w) => IF flight[w].ok THEN cache'[j].data = flight[w].data
                                           ELSE cache'[j].err
      BY <1>6, Completed
    <2>2. CASE cache'[k] = cache[k]
      BY <1>2, <2>2 DEF Present
    <2>3. CASE cache'[k] # cache[k]
      <3>1. Current(w) /\ j = k
        BY <2>1, <2>3
      <3>2. flight[w].ok => m \in flight[w].data
        BY <2>1, <3>1 DEF AnswersShow, Flies
      <3> QED
        BY <2>1, <3>1, <3>2 DEF Shows
    <2> QED
      BY <2>2, <2>3
  <1>7. ASSUME NEW u \in Uses, EvictTimer(u) PROVE Shows(k, m)'
    <2>1. cache'[k] = cache[k] \/ cache'[k] = NoEntry
      BY <1>7 DEF EvictTimer, TypeOK, UseRecord, Cache
    <2> QED
      BY <1>2, <2>1 DEF Present
  <1>8. ~Clear
    BY DEF Clear, Present
  <1> QED
    BY <1>3, <1>4, <1>5, <1>6, <1>7, <1>8, StepKinds

\* An Invalidate that finds its key mounted owes it a startFetch.
LEMMA InvalidateOwes ==
  ASSUME TypeOK, AllFetchable, InvalidatedDone, NEW m \in Mutates, NEW p \in Prefixes,
         CallbackInvalidate(m, p), NEW k \in Keys, Waiting(m, k)'
  PROVE  AnswersShow(m, k)' /\ Owed(m, k)'
  <1> DEFINE i == Found(m, p)
  <1>1. mut' = [mut EXCEPT ![m] = [mut[m] EXCEPT !.st = "done", !.inval = i]]
    BY DEF CallbackInvalidate, TypeOK
  <1>2. mut[m] \in MutRecord
    BY DEF TypeOK
  <1> HIDE DEF i
  <1>3. mut'[m].key = mut[m].key /\ mut'[m].inval = i
    BY <1>1, <1>2 DEF TypeOK, MutRecord
  <1>4. Found(m, p) = "idle" /\ mut[m].key = k
    BY <1>3 DEF Waiting, i
  <1>5. k \in Covers[p] /\ Present(k) /\ cache[k].subscribers > 0 /\ ~InFlight(k)
    BY <1>4 DEF Found
  <1>6. k \in Active(p)
    BY <1>5 DEF Active, AllFetchable
  <1>7. flight' = flight /\ todo' = [todo EXCEPT ![m] = Active(p)] /\ m \in Actors
    BY DEF CallbackInvalidate, Actors
  <1>8. Attended(k)'
    BY <1>6, <1>7 DEF Attended, TypeOK
  <1> QED
    BY <1>5, <1>7, <1>8 DEF AnswersShow, Owed, Flies, InFlight

LEMMA ReachStep ==
  ASSUME TypeOK, NothingOwedYet, ReachInv, [Next]_vars,
         \A n \in Mutates : ~Rollback(n) /\ ~ApplyOptimistic(n) /\ ~CallbackSetData(n)
  PROVE  ReachInv'
  <1>1. InvalidatedDone' /\ AllFetchable'
    BY InvalidatedStep, FetchableStep DEF ReachInv
  <1>2. ASSUME NEW m \in Mutates, NEW k \in Keys, Waiting(m, k)'
        PROVE  AnswersShow(m, k)' /\ Owed(m, k)'
    <2>1. CASE Waiting(m, k)
      BY <2>1, AnswersShowStep, OwedStep DEF ReachInv
    <2>2. CASE \E p \in Prefixes : CallbackInvalidate(m, p)
      BY <1>2, <2>2, InvalidateOwes DEF ReachInv
    <2> QED
      BY <1>2, <2>1, <2>2, WaitingFrom DEF ReachInv
  <1> QED
    BY <1>1, <1>2 DEF ReachInv

(***************************************************************************)
(* plan/09 T09.7: an Invalidate that found no fetch of its key in flight   *)
(* reaches every mounted query of it: once the key has settled it shows    *)
(* the mutation, or an error (query.go, Invalidate and startFetch); for    *)
(* applications that never write into the cache themselves, as a SetData   *)
(* without a fetch shows older data as fresh.                              *)
(***************************************************************************)
THEOREM InvalidationAlwaysReaches ==
  ASSUME Optimistic = {}, Writers = {}
  PROVE  Spec => []IdleInvalidationReached
  <1> DEFINE IInv == TypeOK /\ NothingToRestore /\ StaleInv /\ ReachInv
  <1>1. Init => IInv
    <2> SUFFICES ASSUME Init PROVE ReachInv
      BY InitTyped, NothingToRestoreInit, StaleInit
    <2> QED
      BY DEF Init, ReachInv, InvalidatedDone, AllFetchable, Present, Waiting
  <1>2. IInv /\ [Next]_vars => IInv'
    <2> SUFFICES ASSUME IInv, [Next]_vars PROVE IInv'
      OBVIOUS
    <2>1. TypeOK' /\ NothingToRestore' /\ \A m \in Mutates : ~Rollback(m) /\ ~ApplyOptimistic(m)
      BY StepTyped, NothingToRestoreStep
    <2>2. \A m \in Mutates : ~CallbackSetData(m)
      BY DEF CallbackSetData
    <2> QED
      BY <2>1, <2>2, StaleStep, ReachStep DEF StaleInv
  <1>3. Spec => []FetchingHasFlight
    BY FetchingNeverStuck
  <1>4. IInv /\ FetchingHasFlight => IdleInvalidationReached
    <2> SUFFICES ASSUME IInv, FetchingHasFlight, NEW m \in Mutates, mut[m].inval = "idle",
                        NEW k \in Keys, k = mut[m].key, m \in server[k], Present(k), Settled(k)
                 PROVE  Shows(k, m)
      BY DEF IdleInvalidationReached, Reached, TypeOK, MutRecord
    <2>1. ~cache[k].fetching
      BY DEF FetchingHasFlight, Carries, Settled, InFlight
    <2>2. ~Attended(k)
      BY DEF Settled, Attended
    <2> QED
      BY <2>1, <2>2 DEF ReachInv, Waiting, Owed
  <1> QED
    BY <1>1, <1>2, <1>3, <1>4, PTL DEF Spec

=============================================================================
