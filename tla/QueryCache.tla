----------------------------- MODULE QueryCache -----------------------------
(***************************************************************************)
(* pkg/query: the process-wide query cache, its background fetches, its    *)
(* eviction timers, invalidation, focus refetches and mutations.           *)
(*                                                                         *)
(* Every section the code runs under cache.Lock (or RLock) is one action;  *)
(* whatever it does after unlocking is a later action, so that any other   *)
(* goroutine, timer or callback can come in between.                       *)
(*                                                                         *)
(* What the backend knows is the set of mutations it has committed: a      *)
(* query's data is the set of mutations whose effect it shows.             *)
(***************************************************************************)
EXTENDS Integers, FiniteSets

CONSTANTS
  Keys,          \* normalized query keys
  Prefixes,      \* normalized prefixes passed to Invalidate
  Covers,        \* Covers[p]: the keys that have p as a string prefix
  Uses,          \* UseQuery calls, one per mounted component
  FocusUses,     \* the uses with RefetchOnFocus(true)
  Mutates,       \* MutateAsync calls
  Optimistic,    \* the ones whose Mutation has an Optimistic option
  Writers,       \* the ones whose OnSuccess writes the response with SetData
  Workers,       \* goroutines for background fetches: bounds those in flight
  Window,        \* the browser window, which reports focus
  Clearable,     \* may the application call Clear?
  PromptFetches, \* is every fetch shorter than every CacheTime?
  OneCacheTime,  \* do the uses of a key agree on CacheTime?
  MaxCalls,      \* bounds the Refetch, Invalidate, Focus and Clear calls
  NoEntry, NoFlight, NoSnapshot

(***************************************************************************)
(* A cached query. expired says that more than staleTime has passed since  *)
(* fetched; fetchable that fetch is set.                                   *)
(***************************************************************************)
Entry == [data: SUBSET Mutates, hasData: BOOLEAN, err: BOOLEAN,
          stale: BOOLEAN, expired: BOOLEAN, fetching: BOOLEAN,
          fetchable: BOOLEAN, subscribers: Nat, fetchSeq: Nat, evictSeq: Nat]

Cache == [Keys -> Entry \cup {NoEntry}]

(***************************************************************************)
(* A background fetch: the seq it captured and the answer it will apply.   *)
(***************************************************************************)
Flight == [key: Keys, seq: Nat, answered: BOOLEAN, ok: BOOLEAN,
           data: SUBSET Mutates]

Actors == Uses \cup Mutates \cup {Window}

ASSUME KeysAssumption ==
  /\ Keys # {}
  /\ Keys \subseteq Prefixes
  /\ Covers \in [Prefixes -> SUBSET Keys]
  /\ \A k \in Keys : k \in Covers[k]

ASSUME ActorsAssumption ==
  /\ FocusUses \subseteq Uses
  /\ Optimistic \subseteq Mutates
  /\ Writers \subseteq Mutates
  /\ Uses \cap Mutates = {}
  /\ Window \notin Uses \cup Mutates

ASSUME SwitchAssumption ==
  /\ Clearable \in BOOLEAN
  /\ PromptFetches \in BOOLEAN
  /\ OneCacheTime \in BOOLEAN
  /\ MaxCalls \in Nat

ASSUME FiniteAssumption == IsFiniteSet(Uses) /\ IsFiniteSet(Mutates)

ASSUME AbsenceAssumption ==
  NoEntry \notin Entry /\ NoFlight \notin Flight /\ NoSnapshot \notin Cache

VARIABLES
  cache,      \* cache.m
  flight,     \* the background fetch each worker runs
  use,        \* each UseQuery call: stage, key, and the seq of its timer
  mut,        \* each MutateAsync call
  snap,       \* the cache snapshot a pending optimistic call holds
  mutation,   \* the Mutation object the calls share: pending and err
  todo,       \* startFetch(k, false) calls an actor has yet to make
  focus,      \* focus.keys
  focusTodo,  \* keys a running Focus call has yet to look at
  server,     \* the mutations the backend has committed, by key
  calls       \* API calls made so far, against MaxCalls

vars == <<cache, flight, use, mut, snap, mutation, todo, focus, focusTodo,
          server, calls>>

(***************************************************************************)
(* use[u].reused is a history value: the key was used again after u armed  *)
(* its timer.                                                              *)
(***************************************************************************)
UseRecord == [st: {"new", "mounting", "mounted", "released", "done"},
              key: Keys, seq: Nat, reused: BOOLEAN]

(***************************************************************************)
(* mut[m].inval is a history value: how m's callback found its own key     *)
(* when it invalidated it, mounted and with no fetch of the key in flight  *)
(* ("idle"), mounted with one in flight ("busy"), or not at all ("none").  *)
(***************************************************************************)
MutRecord == [st: {"idle", "snapped", "edited", "sent", "applied",
                   "rejected", "failed", "succeeded", "done"},
              key: Keys, inval: {"none", "idle", "busy"}]

TypeOK ==
  /\ cache \in Cache
  /\ flight \in [Workers -> Flight \cup {NoFlight}]
  /\ use \in [Uses -> UseRecord]
  /\ mut \in [Mutates -> MutRecord]
  /\ snap \in [Mutates -> Cache \cup {NoSnapshot}]
  /\ mutation \in [pending: Int, err: BOOLEAN]
  /\ todo \in [Actors -> SUBSET Keys]
  /\ focus \in SUBSET Keys
  /\ focusTodo \in SUBSET Keys
  /\ server \in [Keys -> SUBSET Mutates]
  /\ calls \in 0 .. MaxCalls

AnyKey == CHOOSE k \in Keys : TRUE

Init ==
  /\ cache = [k \in Keys |-> NoEntry]
  /\ flight = [w \in Workers |-> NoFlight]
  /\ use = [u \in Uses |-> [st |-> "new", key |-> AnyKey, seq |-> 0, reused |-> FALSE]]
  /\ mut = [m \in Mutates |-> [st |-> "idle", key |-> AnyKey, inval |-> "none"]]
  /\ snap = [m \in Mutates |-> NoSnapshot]
  /\ mutation = [pending |-> 0, err |-> FALSE]
  /\ todo = [a \in Actors |-> {}]
  /\ focus = {}
  /\ focusTodo = {}
  /\ server = [k \in Keys |-> {}]
  /\ calls = 0

-----------------------------------------------------------------------------
(* Entries *)

Present(k) == cache[k] # NoEntry

\* &entry{key: key}: its zero fetched time is older than any staleTime.
FreshEntry == [data |-> {}, hasData |-> FALSE, err |-> FALSE, stale |-> FALSE,
               expired |-> TRUE, fetching |-> FALSE, fetchable |-> FALSE,
               subscribers |-> 0, fetchSeq |-> 0, evictSeq |-> 0]

\* Wrong: an entry that has no data yet is replaced (SubscribersExact).
EntryOrReset(k, new) ==
  IF Present(k) THEN IF cache[k].hasData THEN cache[k] ELSE new ELSE new

EntryOr(k, new) == IF Present(k) THEN cache[k] ELSE new

\* setData with an updater that adds m's effect to whatever is cached.
SetData(k, m) ==
  LET e == EntryOr(k, FreshEntry)
  IN cache' = [cache EXCEPT ![k] =
                 [e EXCEPT !.data = e.data \cup {m}, !.hasData = TRUE,
                           !.err = FALSE, !.stale = FALSE, !.expired = FALSE]]

InFlight(k) == \E w \in Workers : flight[w] # NoFlight /\ flight[w].key = k

(***************************************************************************)
(* startFetch: a worker takes the fetch, unless nothing is to be done.      *)
(***************************************************************************)
Starts(k, force) ==
  Present(k) /\ cache[k].fetchable /\ (force \/ ~cache[k].fetching)

\* Wrong: a forced fetch takes the seq of the one it supersedes (FetchingExact).
NextSeqKept(e) == IF e.fetching THEN e.fetchSeq ELSE e.fetchSeq + 1

NextSeq(e) == e.fetchSeq + 1

Fetching(e) == [e EXCEPT !.fetching = TRUE, !.fetchSeq = NextSeq(e)]

Launch(k, w) ==
  /\ flight[w] = NoFlight
  /\ cache' = [cache EXCEPT ![k] = Fetching(cache[k])]
  /\ flight' = [flight EXCEPT ![w] =
                  [key |-> k, seq |-> NextSeq(cache[k]),
                   answered |-> FALSE, ok |-> FALSE, data |-> {}]]

StartFetch(k, force) ==
  IF Starts(k, force) THEN \E w \in Workers : Launch(k, w)
                      ELSE UNCHANGED <<cache, flight>>

-----------------------------------------------------------------------------
(* UseQuery and Release *)

\* Wrong: stale is forgotten (StaleAttended, StaleServed).
ShouldFetchUnlessStale(e) == ~e.fetching /\ (~e.hasData \/ e.expired)

\* shouldFetch, evaluated on the entry as the lock section leaves it.
ShouldFetch(e) == ~e.fetching /\ (~e.hasData \/ e.stale \/ e.expired)

Subscribed(e) ==
  [e EXCEPT !.subscribers = e.subscribers + 1, !.fetchable = TRUE,
            !.evictSeq = e.evictSeq + 1]

\* UseQuery up to its Unlock: the entry is found or made and subscribed to.
MountQuery(u, k) ==
  LET e == Subscribed(EntryOr(k, [FreshEntry EXCEPT !.stale = TRUE]))
  IN /\ use[u].st = "new"
     /\ use' = [v \in Uses |->
                  IF v = u THEN [use[u] EXCEPT !.st = "mounting", !.key = k]
                  ELSE IF use[v].st = "released" /\ use[v].key = k
                  THEN [use[v] EXCEPT !.reused = TRUE] ELSE use[v]]
     /\ cache' = [cache EXCEPT ![k] = e]
     /\ todo' = [todo EXCEPT ![u] = IF ShouldFetch(e) THEN {k} ELSE {}]
     /\ UNCHANGED <<flight, mut, snap, mutation, focus, focusTodo, server, calls>>

\* The startFetch(n, false) calls that UseQuery, Invalidate and Focus make
\* once they have unlocked, one at a time (Invalidate: in map order).
StartQueued(a, k) ==
  /\ k \in todo[a]
  /\ todo' = [todo EXCEPT ![a] = todo[a] \ {k}]
  /\ StartFetch(k, FALSE)
  /\ UNCHANGED <<use, mut, snap, mutation, focus, focusTodo, server, calls>>

\* The end of UseQuery: registerFocusKey if the use opted in.
FinishMount(u) ==
  /\ use[u].st = "mounting"
  /\ todo[u] = {}
  /\ use' = [use EXCEPT ![u].st = "mounted"]
  /\ focus' = IF u \in FocusUses THEN focus \cup {use[u].key} ELSE focus
  /\ UNCHANGED <<cache, flight, mut, snap, mutation, todo, focusTodo, server, calls>>

\* Wrong: without the test for subscribers left by Clear (TypeOK).
UnsubscribedBelowZero(e) == [e EXCEPT !.subscribers = e.subscribers - 1]

Unsubscribed(e) ==
  [e EXCEPT !.subscribers = IF e.subscribers > 0 THEN e.subscribers - 1 ELSE 0]

\* Release leaves other subscribers, or no entry to count on.
ReleaseShared(u) ==
  LET k == use[u].key
  IN /\ use[u].st = "mounted"
     /\ todo[u] = {}
     /\ Present(k) => Unsubscribed(cache[k]).subscribers # 0
     /\ use' = [use EXCEPT ![u].st = "done"]
     /\ cache' = IF Present(k)
                 THEN [cache EXCEPT ![k] = Unsubscribed(cache[k])] ELSE cache
     /\ UNCHANGED <<flight, mut, snap, mutation, todo, focus, focusTodo, server, calls>>

\* Release of the last subscriber arms a timer with the entry's new evictSeq.
ReleaseLast(u) ==
  LET k == use[u].key
      e == Unsubscribed(cache[k])
  IN /\ use[u].st = "mounted"
     /\ todo[u] = {}
     /\ Present(k)
     /\ e.subscribers = 0
     /\ use' = [use EXCEPT ![u].st = "released", ![u].seq = e.evictSeq + 1]
     /\ cache' = [cache EXCEPT ![k] = [e EXCEPT !.evictSeq = e.evictSeq + 1]]
     /\ UNCHANGED <<flight, mut, snap, mutation, todo, focus, focusTodo, server, calls>>

\* Wrong: any old timer evicts (EvictedUnused).
EvictableByAnyTimer(k, seq) == Present(k) /\ cache[k].subscribers = 0

Evictable(k, seq) ==
  /\ Present(k)
  /\ cache[k].subscribers = 0
  /\ cache[k].evictSeq = seq

\* Timers of one length fire in the order they were armed.
NextToFire(u) ==
  \A v \in Uses : use[v].st = "released" /\ use[v].key = use[u].key
                   => use[u].seq <= use[v].seq

\* The timer u's Release armed fires, CacheTime later.
EvictTimer(u) ==
  LET k == use[u].key
  IN /\ use[u].st = "released"
     /\ PromptFetches => ~InFlight(k)
     /\ OneCacheTime => NextToFire(u)
     /\ use' = [use EXCEPT ![u].st = "done"]
     /\ cache' = IF Evictable(k, use[u].seq)
                 THEN [cache EXCEPT ![k] = NoEntry] ELSE cache
     /\ UNCHANGED <<flight, mut, snap, mutation, todo, focus, focusTodo, server, calls>>

-----------------------------------------------------------------------------
(* The background fetch *)

\* The backend answers the fetch with what it has committed, or it fails.
Answer(w) ==
  /\ flight[w] # NoFlight
  /\ ~flight[w].answered
  /\ \E ok \in BOOLEAN :
       flight' = [flight EXCEPT
                    ![w].answered = TRUE, ![w].ok = ok,
                    ![w].data = IF ok THEN server[flight[w].key] ELSE {}]
  /\ UNCHANGED <<cache, use, mut, snap, mutation, todo, focus, focusTodo, server, calls>>

\* Wrong: a superseded answer is applied (KeepsPromise).
CurrentAnySeq(w) == Present(flight[w].key)

\* Does the entry the answer finds carry the seq the fetch was started with?
Current(w) ==
  /\ Present(flight[w].key)
  /\ cache[flight[w].key].fetchSeq = flight[w].seq

\* Wrong: a failed fetch leaves fetching set (FetchingHasFlight).
AnsweredKeepingFlag(e, f) ==
  IF f.ok
  THEN [e EXCEPT !.fetching = FALSE, !.err = FALSE, !.data = f.data,
                 !.hasData = TRUE, !.stale = FALSE, !.expired = FALSE]
  ELSE [e EXCEPT !.err = TRUE]

Answered(e, f) ==
  IF f.ok
  THEN [e EXCEPT !.fetching = FALSE, !.err = FALSE, !.data = f.data,
                 !.hasData = TRUE, !.stale = FALSE, !.expired = FALSE]
  ELSE [e EXCEPT !.fetching = FALSE, !.err = TRUE]

\* The goroutine takes the lock and applies its answer, or drops it.
Complete(w) ==
  /\ flight[w] # NoFlight
  /\ flight[w].answered
  /\ flight' = [flight EXCEPT ![w] = NoFlight]
  /\ cache' = IF Current(w)
              THEN [cache EXCEPT ![flight[w].key] =
                      Answered(cache[flight[w].key], flight[w])]
              ELSE cache
  /\ UNCHANGED <<use, mut, snap, mutation, todo, focus, focusTodo, server, calls>>

\* staleTime passes since the entry was fetched.
Age(k) ==
  /\ Present(k)
  /\ ~cache[k].expired
  /\ cache' = [cache EXCEPT ![k].expired = TRUE]
  /\ UNCHANGED <<flight, use, mut, snap, mutation, todo, focus, focusTodo, server, calls>>

-----------------------------------------------------------------------------
(* Calls an application makes at any time *)

MayCall == calls < MaxCalls

Refetch(u) ==
  /\ use[u].st = "mounted"
  /\ todo[u] = {}
  /\ MayCall
  /\ calls' = calls + 1
  /\ StartFetch(use[u].key, TRUE)
  /\ UNCHANGED <<use, mut, snap, mutation, todo, focus, focusTodo, server>>

MarkStale(p) ==
  cache' = [k \in Keys |->
              IF k \in Covers[p] /\ Present(k)
              THEN [cache[k] EXCEPT !.stale = TRUE] ELSE cache[k]]

\* Wrong: data within its staleTime is not refetched (IdleInvalidationReached).
ActiveExpired(p) ==
  {k \in Covers[p] : Present(k) /\ cache[k].subscribers > 0 /\ cache[k].expired}

\* The keys Invalidate(p) collects to refetch after it unlocks.
Active(p) ==
  {k \in Covers[p] : Present(k) /\ cache[k].subscribers > 0 /\ cache[k].fetchable}

\* QueryResult.Invalidate of a mounted use.
InvalidateUse(u) ==
  /\ use[u].st = "mounted"
  /\ todo[u] = {}
  /\ MayCall
  /\ calls' = calls + 1
  /\ MarkStale(use[u].key)
  /\ todo' = [todo EXCEPT ![u] = Active(use[u].key)]
  /\ UNCHANGED <<flight, use, mut, snap, mutation, focus, focusTodo, server>>

\* Focus copies the registered keys and looks at them one by one.
Focus ==
  /\ focusTodo = {}
  /\ todo[Window] = {}
  /\ focus # {}
  /\ MayCall
  /\ calls' = calls + 1
  /\ focusTodo' = focus
  /\ UNCHANGED <<cache, flight, use, mut, snap, mutation, todo, focus, server>>

\* refetchActive(k, true) up to its RUnlock.
RefetchActive(k) ==
  /\ k \in focusTodo
  /\ todo[Window] = {}
  /\ focusTodo' = focusTodo \ {k}
  /\ todo' = [todo EXCEPT ![Window] =
                IF /\ Present(k)
                   /\ cache[k].subscribers > 0
                   /\ cache[k].stale \/ cache[k].expired
                THEN {k} ELSE {}]
  /\ UNCHANGED <<cache, flight, use, mut, snap, mutation, focus, server, calls>>

Clear ==
  /\ Clearable
  /\ MayCall
  /\ calls' = calls + 1
  /\ cache' = [k \in Keys |-> NoEntry]
  /\ UNCHANGED <<flight, use, mut, snap, mutation, todo, focus, focusTodo, server>>

-----------------------------------------------------------------------------
(* Mutations *)

\* MutateAsync begins; an optimistic one snapshots the whole cache.
Begin(m, k) ==
  /\ mut[m].st = "idle"
  /\ mut' = [mut EXCEPT ![m].key = k,
                        ![m].st = IF m \in Optimistic THEN "snapped" ELSE "edited"]
  /\ snap' = IF m \in Optimistic THEN [snap EXCEPT ![m] = cache] ELSE snap
  /\ UNCHANGED <<cache, flight, use, mutation, todo, focus, focusTodo, server, calls>>

\* The Optimistic option edits the cached data through SetData.
ApplyOptimistic(m) ==
  /\ mut[m].st = "snapped"
  /\ mut' = [mut EXCEPT ![m].st = "edited"]
  /\ SetData(mut[m].key, m)
  /\ UNCHANGED <<flight, use, snap, mutation, todo, focus, focusTodo, server, calls>>

\* pending++ and the request leaves.
Send(m) ==
  /\ mut[m].st = "edited"
  /\ mut' = [mut EXCEPT ![m].st = "sent"]
  /\ mutation' = [mutation EXCEPT !.pending = mutation.pending + 1]
  /\ UNCHANGED <<cache, flight, use, snap, todo, focus, focusTodo, server, calls>>

\* The backend commits the mutation, or refuses it.
Commit(m) ==
  /\ mut[m].st = "sent"
  /\ mut' = [mut EXCEPT ![m].st = "applied"]
  /\ server' = [server EXCEPT ![mut[m].key] = server[mut[m].key] \cup {m}]
  /\ UNCHANGED <<cache, flight, use, snap, mutation, todo, focus, focusTodo, calls>>

Reject(m) ==
  /\ mut[m].st = "sent"
  /\ mut' = [mut EXCEPT ![m].st = "rejected"]
  /\ UNCHANGED <<cache, flight, use, snap, mutation, todo, focus, focusTodo, server, calls>>

\* pending-- and the outcome, under the Mutation's own lock.
Finished(failed) == [pending |-> mutation.pending - 1, err |-> failed]

\* fn returns: a committed mutation may still fail, when its reply is lost.
Return(m, failed) ==
  /\ mut[m].st \in {"applied", "rejected"}
  /\ mut[m].st = "rejected" => failed
  /\ mut' = [mut EXCEPT ![m].st = IF failed THEN "failed" ELSE "succeeded"]
  /\ mutation' = Finished(failed)
  /\ UNCHANGED <<cache, flight, use, snap, todo, focus, focusTodo, server, calls>>

\* Wrong: only entries that have gone are put back (NoRejectedEdit).
RestoredIfGone(m) ==
  [k \in Keys |-> IF Present(k) THEN cache[k] ELSE snap[m][k]]

Restored(m) == snap[m]

\* restore(snap): the whole cache goes back to the snapshot.
Rollback(m) ==
  /\ mut[m].st = "failed"
  /\ snap[m] # NoSnapshot
  /\ cache' = Restored(m)
  /\ snap' = [snap EXCEPT ![m] = NoSnapshot]
  /\ UNCHANGED <<flight, use, mut, mutation, todo, focus, focusTodo, server, calls>>

\* The callbacks run once nothing is left to restore.
InCallback(m) ==
  \/ mut[m].st = "succeeded"
  \/ mut[m].st = "failed" /\ snap[m] = NoSnapshot

\* A history value: what Invalidate(p) finds of m's own key.
Found(m, p) ==
  LET k == mut[m].key
  IN IF ~(k \in Covers[p] /\ Present(k) /\ cache[k].subscribers > 0) THEN "none"
     ELSE IF InFlight(k) THEN "busy" ELSE "idle"

\* OnSuccess or OnError calls Invalidate(p).
CallbackInvalidate(m, p) ==
  /\ InCallback(m)
  /\ MarkStale(p)
  /\ todo' = [todo EXCEPT ![m] = Active(p)]
  /\ mut' = [mut EXCEPT ![m].st = "done", ![m].inval = Found(m, p)]
  /\ snap' = [snap EXCEPT ![m] = NoSnapshot]
  /\ UNCHANGED <<flight, use, mutation, focus, focusTodo, server, calls>>

\* OnSuccess writes the response into the cache.
CallbackSetData(m) ==
  /\ mut[m].st = "succeeded"
  /\ m \in Writers
  /\ SetData(mut[m].key, m)
  /\ mut' = [mut EXCEPT ![m].st = "done"]
  /\ snap' = [snap EXCEPT ![m] = NoSnapshot]
  /\ UNCHANGED <<flight, use, mutation, todo, focus, focusTodo, server, calls>>

\* The mutation has no callback for this outcome.
NoCallback(m) ==
  /\ InCallback(m)
  /\ mut' = [mut EXCEPT ![m].st = "done"]
  /\ snap' = [snap EXCEPT ![m] = NoSnapshot]
  /\ UNCHANGED <<cache, flight, use, mutation, todo, focus, focusTodo, server, calls>>

-----------------------------------------------------------------------------
QueryStep ==
  \/ \E u \in Uses, k \in Keys : MountQuery(u, k)
  \/ \E a \in Actors, k \in Keys : StartQueued(a, k)
  \/ \E u \in Uses : FinishMount(u)
  \/ \E u \in Uses : ReleaseShared(u)
  \/ \E u \in Uses : ReleaseLast(u)
  \/ \E u \in Uses : EvictTimer(u)
  \/ \E u \in Uses : Refetch(u)
  \/ \E u \in Uses : InvalidateUse(u)

FetchStep ==
  \/ \E w \in Workers : Answer(w)
  \/ \E w \in Workers : Complete(w)
  \/ \E k \in Keys : Age(k)

ClientStep ==
  \/ Focus
  \/ \E k \in Keys : RefetchActive(k)
  \/ Clear

MutationStep ==
  \/ \E m \in Mutates, k \in Keys : Begin(m, k)
  \/ \E m \in Mutates : ApplyOptimistic(m)
  \/ \E m \in Mutates : Send(m)
  \/ \E m \in Mutates : Commit(m)
  \/ \E m \in Mutates : Reject(m)
  \/ \E m \in Mutates, failed \in BOOLEAN : Return(m, failed)
  \/ \E m \in Mutates : Rollback(m)
  \/ \E m \in Mutates, p \in Prefixes : CallbackInvalidate(m, p)
  \/ \E m \in Mutates : CallbackSetData(m)
  \/ \E m \in Mutates : NoCallback(m)

Next == QueryStep \/ FetchStep \/ ClientStep \/ MutationStep

Spec == Init /\ [][Next]_vars

(***************************************************************************)
(* Goroutines, timers and calls in progress go on: a lock is never held    *)
(* across a wait, every fetch and every mutation function returns.  Mounts, *)
(* releases, mutations and explicit calls may never come.                  *)
(***************************************************************************)
Fairness ==
  /\ \A a \in Actors : WF_vars(\E k \in Keys : StartQueued(a, k))
  /\ \A u \in Uses : WF_vars(FinishMount(u)) /\ WF_vars(EvictTimer(u))
  /\ \A w \in Workers : WF_vars(Answer(w)) /\ WF_vars(Complete(w))
  /\ WF_vars(\E k \in Keys : RefetchActive(k))
  /\ \A m \in Mutates :
       /\ WF_vars(ApplyOptimistic(m)) /\ WF_vars(Send(m))
       /\ WF_vars(Commit(m) \/ Reject(m))
       /\ WF_vars(\E failed \in BOOLEAN : Return(m, failed))
       /\ WF_vars(Rollback(m))
       /\ WF_vars((\E p \in Prefixes : CallbackInvalidate(m, p))
                    \/ CallbackSetData(m) \/ NoCallback(m))

FairSpec == Spec /\ Fairness

-----------------------------------------------------------------------------
(* Properties *)

MountedOn(k) ==
  {u \in Uses : use[u].st \in {"mounting", "mounted"} /\ use[u].key = k}

Carries(w, k) ==
  /\ flight[w] # NoFlight
  /\ flight[w].key = k
  /\ flight[w].seq = cache[k].fetchSeq

(***************************************************************************)
(* However mounts, releases and eviction timers interleave, an entry       *)
(* counts exactly the components that have it mounted, so UseQuery and     *)
(* Release never let one of them lose its entry (query.go, Release).       *)
(***************************************************************************)
SubscribersExact ==
  \A k \in Keys :
    IF Present(k) THEN cache[k].subscribers = Cardinality(MountedOn(k))
                  ELSE MountedOn(k) = {}

(***************************************************************************)
(* docs/query.md: only "after the last mounted query releases" is an entry *)
(* evicted: a component that is mounted has its entry in the cache.        *)
(***************************************************************************)
MountedKept ==
  \A u \in Uses : use[u].st \in {"mounting", "mounted"} => Present(use[u].key)

(***************************************************************************)
(* An entry that says it is fetching is waiting for a fetch that is in     *)
(* flight and whose answer it will accept: startFetch, the completion and  *)
(* eviction never leave the flag up behind them.                           *)
(***************************************************************************)
FetchingHasFlight ==
  \A k \in Keys : Present(k) /\ cache[k].fetching
                    => \E w \in Workers : Carries(w, k)

(***************************************************************************)
(* Stale or missing data of a mounted query is never forgotten: a fetch is *)
(* running, or some caller still owes the startFetch, or the last fetch    *)
(* failed and says so.  It is what makes the gap between the Unlock and    *)
(* the startFetch of UseQuery and Invalidate safe.                         *)
(***************************************************************************)
StaleAttended ==
  \A k \in Keys :
    (/\ Present(k)
     /\ cache[k].subscribers > 0
     /\ cache[k].stale \/ ~cache[k].hasData
     /\ ~cache[k].fetching
     /\ ~cache[k].err) => \E a \in Actors : k \in todo[a]

(***************************************************************************)
(* A timer evicts only an entry nobody has used since the release that     *)
(* armed it: using a query again restarts its CacheTime (evictSeq).        *)
(***************************************************************************)
EvictedUnused ==
  [][\A u \in Uses :
       (/\ use[u].st = "released"
        /\ use'[u].st = "done"
        /\ cache[use[u].key] # NoEntry
        /\ cache'[use[u].key] = NoEntry) => ~use[u].reused]_vars

Settled(k) == ~InFlight(k) /\ \A a \in Actors : k \notin todo[a]

Shows(k, m) == cache[k].err \/ ~cache[k].hasData \/ m \in cache[k].data

(***************************************************************************)
(* plan/09 T09.7: a committed mutation whose callback invalidates its key  *)
(* "causes the todos query to refetch, with observable updated data": once *)
(* the key has settled, a query still mounted shows the mutation.          *)
(***************************************************************************)
Reached(m) ==
  LET k == mut[m].key
  IN m \in server[k] /\ Present(k) /\ cache[k].subscribers > 0 /\ Settled(k)
       => Shows(k, m)

InvalidationReached ==
  \A m \in Mutates : mut[m].inval # "none" => Reached(m)

\* The same of an Invalidate that found no fetch of its key in flight.
IdleInvalidationReached ==
  \A m \in Mutates : mut[m].inval = "idle" => Reached(m)

(***************************************************************************)
(* docs/query.md: "Fetching is true for any in-flight fetch", of the fetch *)
(* that was started last, and false once it has completed.  At most one    *)
(* fetch can still change the entry: every other one in flight was         *)
(* superseded by a forced Refetch and will be dropped.                     *)
(***************************************************************************)
FetchingExact ==
  \A k \in Keys : Present(k) =>
    /\ cache[k].fetching <=> \E w \in Workers : Carries(w, k)
    /\ \A v, w \in Workers : Carries(v, k) /\ Carries(w, k) => v = w

(***************************************************************************)
(* plan/09 T09.8: "After server error, rollback reverts the cache": what a *)
(* rejected mutation had put there optimistically is gone.                 *)
(***************************************************************************)
RolledBack(m) ==
  /\ mut[m].st = "done" \/ InCallback(m)
  /\ m \notin server[mut[m].key]

NoRejectedEdit ==
  \A m \in Mutates : RolledBack(m) =>
    \A k \in Keys : Present(k) => m \notin cache[k].data

(***************************************************************************)
(* A mounted query whose data is stale or missing gets an answer, or shows *)
(* an error, unless everybody unmounts it first.                           *)
(***************************************************************************)
StaleServed ==
  \A k \in Keys :
    (Present(k) /\ cache[k].subscribers > 0 /\ cache[k].stale)
      ~> (Present(k) /\ cache[k].subscribers > 0 => cache[k].err \/ ~cache[k].stale)

(***************************************************************************)
(* An application that only reads through UseQuery, and whose fetches are  *)
(* shorter than its CacheTime, gets what ReadThrough promises: what it     *)
(* shows never goes back to an older state, in whatever order answers come.*)
(***************************************************************************)
Promise ==
  INSTANCE ReadThrough
    WITH Nothing <- NoEntry, truth <- server,
         shown <- [k \in Keys |-> IF Present(k) /\ cache[k].hasData
                                  THEN cache[k].data ELSE NoEntry]

KeepsPromise == Promise!Spec

=============================================================================
