# GoFlex in TLA+

GoFlex is a full-stack Go web framework: a frontend runtime (signals, hooks,
router, forms, query cache), a server runtime (HTTP server, auth, database,
migrations) and a tool chain (dev server, build, generator, CLI). This
directory models the parts of it that keep state, checks them with TLC and
proves theorems about them with TLAPS.

Paths below are relative to the repository. `PROJECT.json` maps every
definition to the lines it models, and lists runs, mutants, findings, hazards
and theorems.

## 1. Inventory

| component | state it keeps | operations | what is hard about it | what makes it correct |
|---|---|---|---|---|
| Query cache `pkg/query` | map of entries (data, stale, fetching, subscribers, fetchSeq, evictSeq), focus keys, per-mutation pending count | UseQuery, Release, Refetch, Invalidate, SetData, Focus, Clear, MutateAsync | goroutines per fetch and mutation, timers, lock dropped between decision and fetch, whole-cache rollback | no lost invalidation, no stuck flag, no eviction of a used entry, data never goes back, rejected edits disappear |
| Dev server `internal/devserver` | SSE clients, last error, status, backend process and readiness, pending file events | handleEvents, watch, rebuild, rebuildServer, stopBackend, start, shutdown | publisher against closing client, full buffers, debounce, process lifecycle against shutdown | the page's overlay agrees with the last build, no orphan backend, no send on a closed channel |
| Signals `pkg/reactive` | value and subscribers per signal, dependencies per effect, the running effect | Get, Set, Effect, dispose | re-entrancy: Set inside effects, dispose while iterating | subscriptions are symmetric; an effect saw the last value of what it read |
| Hooks `pkg/hooks` | fibers with slots, the current fiber | BeginRender, EndRender, Unmount, UseState, UseEffect, UseMemo, UseContext | nested renders, setters after unmount, effects that call hooks | each component's hooks stay in its own slots; every effect is cleaned up once |
| Migrations `pkg/db/migrate` | schema_migrations, the schema itself, files on disk | Create, Up, Down, Status | crash between a migration and its record, concurrent migrators, string order of versions | applied exactly once, in order; rollback undoes what was applied |
| Auth `pkg/auth` | sessions per store, failed attempts per address | Login, Logout, Middleware (Get, Touch), limiter | expiry and deletion racing Touch, Allow and RecordFailure apart | no session outlives logout; at most n failures pass per window |
| HTTP server `pkg/server`, `pkg/httperr` | draining flag, requests in flight | Run/serveHTTP, rejectWhileDraining, noRoute | signal against serve returning, shutdown timeout | Run returns only after draining; static, API and page routes do not shadow each other |
| Router `pkg/router` | current path, state, params; history stack | Navigate, Back, Forward, Outlet | listeners, shared current router | the router's location is the history's entry |
| Forms `pkg/form` | value, errors, touched, submitting | Set, Reset, Submit | submit in flight while edited, reset or submitted again | submitting is true while a submit runs; errors belong to the value shown |
| Typed API `pkg/api`, `pkg/apiclient` | list of registered endpoints | Register, Call, DecodeRequest | encoding round trip | what the client encodes the server decodes |
| Todo example `examples/todo` | users, todos | handlers, store | read-modify-write without transaction | no update lost |
| Build `internal/build` | files, cached Tailwind binary | Build, Production, EnsureTailwind | concurrent downloads into one temporary file | only a verified binary is installed |
| Generator `internal/gen` | generated files | Generate | two files written one after the other | both files describe the same endpoints |
| CLI `internal/cli`, `cmd` | none | new, dev, build, db, generate | scaffolding interrupted | - |
| UI, browser, log, version, test helpers | none, or the DOM | element builders | - | - |

Interactions: browser code calls the query cache with fetches made by the typed
client; the HTTP server serves the handlers through auth's middleware; hooks
are installed into `pkg/ui`'s component renders; `browser` binds signals to the
DOM; the dev server calls the generator and the builds, and starts the
application's backend; the CLI calls all of the tool chain.

## 2. Plan

Done, in order of what the program would suffer from most:

| modules | what they are | proved in |
|---|---|---|
| `QueryCache`, abstract `ReadThrough` | the query cache | `QueryCacheProofs` |
| `DevServer` | watcher, rebuilds, broker, pages | `DevServerProofs` |
| `DevBackend` | the backend process, readiness, shutdown | `DevBackendProofs` |
| `Signals` | signals and effects | `SignalsProofs` |
| `Hooks` | fibers, renders, effects | `HooksProofs` |
| `Migrations` | create, up and down by several processes | `MigrationsProofs` |
| `Requests` | server, auth, limiter and the todo handlers together | `RequestsProofs` |
| `Router`, `Forms`, composed by `WebApp` | the pages of the todo example in a browser | `WebAppProofs` |

Each `MC*` module gives model values and small instances; one run asks all the
questions of a module, but for the query cache, where three instances differ in
what they assume of time and of optimistic edits. Two more runs show disagreements.

Every safety property that a run checks is a theorem; what is not proved is liveness, which
is out of the prover's reach. Left, to model: the Tailwind cache (`EnsureTailwind`), where two
builds share `bin.tmp`: one verifies a file that the other has begun to write again, and may
rename it unfinished; the static files of `noRoute`, and `Tw`, as pure operators.

## 3. The query cache: `QueryCache.tla`

**State.** `cache` is `cache.m`: for each normalized key an entry or `NoEntry`.
An entry's `data` is the set of mutations it shows; `expired` stands for
`now - fetched > staleTime`; `fetchable` for `fetch != nil`. `flight[w]` is a
goroutine running a background fetch; `use[u]` one call of `UseQuery` (a
mounted component) through to its eviction timer; `mut[m]` one call of
`MutateAsync`, `snap[m]` its cache snapshot, `mutation` the fields of the
`Mutation` object all calls share; `todo[a]` the `startFetch` calls that an actor
has decided on under the lock and makes after unlocking; `focus`, `focusTodo` the
focus registry and a running `Focus`. `server` is what the backend has committed.

**Actions.** One action per section under `cache.Lock`, so that everything Go
allows between two sections happens in the model too:

| code | actions |
|---|---|
| `UseQuery` | `MountQuery` (lock section), `StartQueued` (startFetch), `FinishMount` (registerFocusKey) |
| `Release` and its timer | `ReleaseShared`, `ReleaseLast`, `EvictTimer` |
| `startFetch` | `Launch` in `StartFetch`; the goroutine is `Answer` (the fetch function) and `Complete` |
| `Refetch`, `Invalidate` | `Refetch`, `InvalidateUse`, `CallbackInvalidate`, then `StartQueued` per key, in any order |
| `Focus` | `Focus`, `RefetchActive` per key, `StartQueued` |
| `MutateAsync` | `Begin` (snapshot), `ApplyOptimistic`, `Send`, `Commit`/`Reject` (backend), `Return`, `Rollback`, one of the callbacks |
| time | `Age`: staleTime passes; `EvictTimer`: CacheTime passes |

`Answer`, `Commit` and `Reject` are the code's environment and marked external.
A reply may be lost: a committed mutation may `Return` failed. A callback invalidates
once or writes once; `SetData` is an updater that adds the mutation's effect.

Two switches are about time, which the model does not count. `PromptFetches`
says that no fetch takes longer than any CacheTime (five minutes by default), so
a timer does not fire while a fetch of its key is in flight. `OneCacheTime` says that
the uses of a key agree on CacheTime, so their timers fire in the order they
were armed. Each run states which it assumes. Of the theorems, `FetchingAlwaysExact` and
`PromiseKept` assume the first, `EvictsOnlyUnused` the second, the others neither.

`use[u].reused` and `mut[m].inval` are history values, used only by properties.

**Instances.** `MCQueryCache.tla` gives the model values, the prefixes and the
symmetry. All runs have `CHECK_DEADLOCK FALSE`: when every component is done and
every call has been made, nothing is left to do.

## 4. What the runs of the query cache show

| run | instance | shows |
|---|---|---|
| QueryReads | fair; 1 key, 2 uses, 1 mutation, 2 fetches at once, 1 free call; fetches may outlive evictions | `SubscribersExact`, `FetchingHasFlight`, `StaleAttended`, `IdleInvalidationReached`, `EvictedUnused`, and that stale data is refetched in the end (`StaleServed`) |
| QueryPromise | 2 uses, 1 mutation, 2 fetches at once, 2 forced refetches; `PromptFetches` | `FetchingExact`, and the refinement `KeepsPromise` |
| QueryEdits | focus, Clear, an optimistic mutation against one that writes its response | `TypeOK`, `NoRejectedEdit` |
| QueryInvalidationLost | 1 use, 1 mutation | violated: an Invalidate during a fetch is lost |

**Bounds.** `Workers` bounds fetches in flight: one to be superseded and one
that supersedes it are the interesting case, and a third behaves as the second.
Two uses are what it takes for a mount between the two releases of a pair;
`MaxCalls` bounds explicit calls, which otherwise could repeat for ever. A
worker must be free for a startFetch to begin: with all of them busy the
model delays the fetch, which any scheduler may do too. All runs have one key:
keys meet only in prefixes, snapshots and Clear, which treat each of them alike; the
proofs hold for any number of keys and every `Covers`.

**Fairness** (`FairSpec`): goroutines that have begun go on, timers fire, fetch
and mutation functions return. It is weak fairness only, of single actors: the Go
scheduler runs every runnable goroutine, no lock is held across a wait. Nothing
makes a component mount, release, refetch or mutate.

**The finding** is about `docs/query.md`: `startFetch(k, false)` returns at once if
a fetch is running, and that fetch's answer, from before the mutation, clears
`stale`. The same property for an Invalidate that found no fetch in flight
(`IdleInvalidationReached`) holds, which places the fault exactly. Section 14 has
three more, all from `restore` replacing the whole map by the snapshot: they are why
most theorems below assume `Optimistic = {}`.

## 5. What is proved of the query cache

For every value of the constants that satisfies the module's assumptions:

| theorem of `QueryCacheProofs` | assumes | says |
|---|---|---|
| `TypeCorrect` | - | `Spec => []TypeOK` |
| `FetchingNeverStuck` | `Optimistic = {}` | `Spec => []FetchingHasFlight` |
| `StaleNeverForgotten` | `Optimistic = {}` | `Spec => []StaleAttended` |
| `SubscribersCounted` | `Optimistic = {}`, no Clear | `Spec => []SubscribersExact` |
| `FetchingAlwaysExact` | `Optimistic = {}`, no Clear, `PromptFetches` | `Spec => []FetchingExact` |
| `EvictsOnlyUnused` | `Optimistic = {}`, no Clear, `OneCacheTime` | `Spec => EvictedUnused`, an action property |
| `InvalidationAlwaysReaches` | `Optimistic = {}`, `Writers = {}` | `Spec => []IdleInvalidationReached` |
| `PromiseKept` | `Optimistic = {}`, `Writers = {}`, no Clear, `PromptFetches` | `Spec => KeepsPromise`, the refinement of `ReadThrough` |
| `RejectedEditsGone` | at most one optimistic mutation | `Spec => []NoRejectedEdit` |

*The argument.* `TypeOK` is inductive; the work is in nested records and in
subscriber counts that never go below zero. Most proofs after it share one
classification: with no optimistic mutation no snapshot is ever restored
(`NothingToRestore`), and every step then is quiet for a key, or one launch, one
completion, or a removal of entries (`Quiet`, `Launches`, `Kept`), whichever action it was.

`FetchingHasFlight` alone is not inductive: an eviction or Clear removes an
entry and a mount makes it anew with `fetchSeq = 0`, and a completing fetch must
be shown not to be the one another entry waits for. The only step that
clears a flight is `Complete`, which either carries the entry's seq and clears the
flag, or does not and leaves its carrier in flight.

`FetchingExact` and the refinement rest on the numbers of fetches (`NumberInv`): fetches of a
key in flight have different numbers, none above the entry's `fetchSeq`, and the flag is set
only while the one with that number flies. This needs `PromptFetches`: a fetch that
outlives its entry meets an entry whose numbers begin again at one. For the
refinement, what an entry shows and what an answer carries was committed by the server, and
the answer the entry waits for has no less than what it shows (`Truthful`): each step maps to a
step of `ReadThrough` or a stutter.

`SubscribersExact` compares a counter with the cardinality of a set that grows
and shrinks by one element; the lemmas on `MountedOn` reduce each action to
`FS_AddElement` or `FS_RemoveElement`. Clear breaks it by design
(it forgets counts of mounted components), hence the hypothesis. `EvictedUnused` adds
that armed timers of a key carry different numbers, none above the entry's `evictSeq`, and that
the number is below it if the key was used again since (`TimerInv`).

`StaleAttended` needs two more facts: a use that has finished mounting owes no
fetch (so the actions that overwrite `todo[u]` overwrite nothing), and an
entry with subscribers has its fetch function set (so Invalidate's filter and
startFetch's guard never refuse it). `IdleInvalidationReached` follows its mutation through
the rest (`ReachInv`): from the Invalidate on, the entry of its key shows the mutation,
is fetching or is owed a fetch, and every answer of that key that has come contains it. With
`Writers` it is false: a SetData on an evicted key makes an entry of older data that
nothing calls stale.

`NoRejectedEdit` speaks of the edit before its fate is known, so the invariant (`EditInv`) says
where an edit that the server does not have may be: only in entries, while the mutation still
holds the snapshot that its rollback will restore; snapshots and answers hold none. With two
optimistic mutations a snapshot may hold the other's edit (section 14).

*Only model-checked:* `StaleServed`, liveness.

## 6. The dev server: `DevServer.tla`

**State.** `todo` is the rest of `initialBuild` or `rebuild`: stages in the order
gen, server, frontend, tailwind, then `clear` for `clearError`. `fsq` and
`pending` are the watcher's channel and the debounced paths; the timer runs when
there are some. `pub` is a `publish` in progress: the event, and the clients it
has copied and not yet sent to. `conn[c]` is one run of `handleEvents` with its
channel, `page[p]` what the browser shows. `fault[f]` says whether a file compiles,
`dir[d]` whether a new directory is there and watched, `dirty` which outputs are
older than a file they depend on.

| code | actions |
|---|---|
| `initialBuild`, `rebuild` | `Succeed`, `Fail` per stage, `ClearError` |
| `start` | `Listen` |
| `watch` | `StartWatch`, `WatchFails`, `WatchEvent`, `WatcherError`, `Fire` |
| `publish` | announced by the action that calls it, `CopyClients` (lock), `Send`, `DropEvent` or `SendOnClosed` per client |
| `handleEvents` | `Connect` (subscribe), `Greet` (current error), `Forward`, `Leave` (unsubscribe) |
| `runtimeJS` | `Received`, and the overlay of `LoseConnection` |
| user, browser | `Edit`, `MakeDir`, `Navigate`, `LoseConnection` |

A project is given by where its files are and who reads them: `Place` is what
`classifyChange` sees in a path, `Classify` what it orders for it (together `Triggers`),
`Readers` the stages whose output depends on the file. `Stray` are the files that are read by a
stage which their place does not order, such as the scaffold's own `internal/web/page.go`.
`Generated` and `Scratch` are what the gen and tailwind stages write back. `NewDirs` are
directories made while the server runs, `Inside` the files written in them.
`MCDevServer.tla` has seven files, most of them of a scaffolded project, and a directory.
`Scratch = {}` is a machine with no Tailwind binary, where the build writes a fallback style sheet.

An edit raises an event if the watcher is there and watches the file's directory (`Seen`). A new
directory is watched from the handling of its own Create event on (`WatchEvent`;
devserver.go:349-353): what is written in it before is not seen, and the error of adding the watch
is dropped, so it may never be. Files of a new directory that are edited later raise their
own events. Directories are not removed or renamed.

A stage is one step: edits during a compilation are edits before or after it. A stage must fail
if a file it reads does not compile, and any stage may fail for another reason: a
missing tool, an I/O error, a backend that is not ready in time (`Fail`).

`excused`, `bundle` and `lost` are history values, used only by properties. `excused` holds the
stages left out of date by a failed batch, by an event that an overflowing watcher has lost,
by an edit that raised none (before the watcher, or before the watch of a new directory), and by a
stray file whose event does not order them.

| run | instance | shows |
|---|---|---|
| DevLive | fair; the shared file, the generated client, a backend package that is out of place in a new directory, 1 page, 2 streams, buffer 1, 2 moves, early edits | `OverlayAgrees`, `ReloadOnItsWay` with slow and leaving clients; `ChangeAccounted` when a stage writes what the others read, an event orders too little, or there is none; `Settles`, `OverlaySettles` |
| DevClosedChannel | 1 file, 2 moves | violated: send on a closed channel |

**Bounds.** `MaxMoves` bounds edits, new directories, watcher errors, navigations and lost
connections; two are a directory and a file in it, on either side of the directory's event; everything else follows from them. `Buffer` is 16 in the code; with
1 or 2 it fills after as many events as one rebuild publishes, which is the case
that matters. Two streams of a page are the one that has been left and has not been
noticed, and its successor; pages do not affect each other but through the order of
`publish`. Rest is legal, so deadlock is not checked.

**Fairness**: the watch goroutine, timers, publish and the stream handlers go
on; the browser connects a page and reports what has left. Edits, failures of
the watcher and broken connections are not fair. `Send` may panic in the code, as
DevClosedChannel shows; the fair properties say what holds unless it does.

`OverlayAgrees` is the heart: a stream subscribes before it reads the error, so an
event published in between is delivered twice rather than never. The exception in it
is a status event dropped on a full buffer: nothing repeats it.

## 7. The backend process: `DevBackend.tla`

**State.** `rb` is where `rebuildServer` is, `stopper[a]` a call of `stopBackend` by it
or by the shutdown goroutine, `main` where `start`, `wait` and `Run` are, `proc` the
operating system's view of the processes, `ctx` the context that SIGINT cancels.

| code | actions |
|---|---|
| `start`, `wait`, `Run`, the CLI's context | `InitialRebuild`, `Listen`, `ListenFails`, `WatchRebuild`, `Shutdown`, `Exit`, `Cancel` |
| `stopBackend` | `Unready`, `Take`, `Interrupt`, then `Reaped` or `KillLate` |
| `rebuildServer` | `CompileFails`, `Compiled`, `Start`, `StartFails`, `StoreCmd`, `MarkReady` |
| `waitForBackend` | `Dialled`, `GiveUp` |
| `exec.CommandContext` | `ContextKill` |
| the process | `Bind`, `BindFails`, `Drain`, `Die` |

| run | instance | shows |
|---|---|---|
| BackendRestarts | fair; 3 processes, crashes, port possibly taken | `OneBackend`, `GatedWhileReplaced`, `Reachable`, `CancelExits` |

`Procs` bounds restarts: three are one that is being stopped, one that took its
place, and one after an ending that left no process. With fair processes the three
must be told apart, so the run has no symmetry. Fairness: goroutines and
timers go on, a compilation ends, and a killed process dies; an interrupted one need
not. Not in the model: a terminal's Ctrl-C also signals the whole process group.

## 8. What is proved of the dev server

| theorem | module | assumes | says |
|---|---|---|---|
| `TypeCorrect` | DevBackendProofs | - | `Spec => []TypeOK` |
| `NeverLost` | DevBackendProofs | - | `Spec => []Reachable` |
| `OneAtATime` | DevBackendProofs | - | `Spec => []OneBackend` |
| `AlwaysGated` | DevBackendProofs | - | `Spec => []GatedWhileReplaced` |
| `TypeCorrect` | DevServerProofs | - | `Spec => []TypeOK` |
| `OverlaysAlwaysAgree` | DevServerProofs | - | `Spec => []OverlayAgrees` |
| `ReloadsAlwaysOnTheirWay` | DevServerProofs | - | `Spec => []ReloadOnItsWay` |
| `ChangesAccounted` | DevServerProofs | - | `Spec => []ChangeAccounted` |

*Backend.* `Reachable` names the places where a living backend can be: in
`backendCmd`, just started, or in the hands of a `stopBackend`. `HandOver` says they
exclude one another, which gives `OneBackend`. That needs `AfterCancel`: the
shutdown's `stopBackend` runs only when the context is done and exec starts
nothing more. Both hold for any number of restarts, hence beyond the bound above.

*Changes.* The theorem holds for every project. `LayoutAssumption`, an assumption on the
constants that TLC evaluates in each run, says that strays apart a file orders all its readers: any
project satisfies it with its misplaced files in `Stray`. Beyond that it says of the stages
themselves that gen does not read what it writes and that nothing reads the scratch files. The
invariant (`Accounted`) owes each stage out of date a build (`Owed`): it is in the batch that runs, or
an event or a pending path of a file it reads will order it, or it is excused; and in
the initial build, without a watcher, gen comes before all that read its output (`Phases`).

*Pages.* The invariant is `Paged`. A page has at most one stream that has not been left
(`OneStream`), so what that stream delivers last is what the page shows last. For each such stream
(`Told`) the last status in its channel is the current error's, or there is none and the page, once
greeted, shows it, unless the publish under way still has the stream to serve or an event was dropped. The order within `handleEvents` is what makes it
inductive: it subscribes, then reads the error. `ReloadOnItsWay` is part of the same
invariant: a page's stream is where its reload comes from.

*Only model-checked:* `Settles`, `OverlaySettles`, `CancelExits`, all liveness.

## 9. Signals: `Signals.tla`

**State.** `value` and `subs` per signal, a record per effect (made, dispose handed
out, `deps`, disposed, running), `current`, the effect that reads are attributed to,
and `stack`, the calls of Set and `effect.run` that have not returned: everything runs on
the browser's event loop, so the interleavings are those of re-entrant calls. `saw` and
`excused` are history.

| code | actions |
|---|---|
| `Get` in an effect; `Set`, `Update` | `Get`; `Set`, then `RunNext` per subscriber it copied, `SetReturns` |
| `Effect`, `effect.run` | `NewEffect`, `Enter`, `Return` |
| `DisposeFunc`, `unsubscribe` | `Dispose`, `Unsubscribed` |
| a panic in an effect's function | `Panic`: only deferred functions run |

Run **SignalGraph**: 2 signals, 3 effects, bodies of 2 calls. `Symmetric`: subscriptions
and dependencies agree, at every moment. `ReadsTracked`: reads are attributed to the right
effect. `StaleIsOwed`: an effect that has read an old value will be run. `Settled`: nothing
is left running or current. Three effects are one that sets, one it runs,
and one that disposes of or is run by either. Two calls are a read and a set. Both
signals are `Incomparable` (`NewSignalFunc` without an equal), so each Set runs effects
whether or not the value changes; a Set that is refused changes nothing.

`StaleIsOwed` excuses two kinds of effects, because the code leaves them behind: one that
sets what it has read (`run` returns at once, signal.go:101), and those that a panic kept a
Set from running.

*Proved* (`SignalsProofs`), for any signals, effects and body length:

- `AlwaysSymmetric`, `Spec => []Symmetric`. The invariant (`Linked`) adds only that both
  sides are tables. That what `unsubscribe` removes is all there is (`UnsubscribedFrom`) needs
  `Symmetric` itself: it walks over `deps`, not over the signals.
- `TypeCorrect` and `AlwaysSettled`, from `Shape`: a Set is called by a run or by nobody, a run's
  saved `prev` is the run below it, an effect is on the stack at most once and is marked running
  exactly then, and `current` is the topmost run. A panic unwinds to nothing left.
- `AlwaysTracked`, `Spec => []ReadsTracked` (`Attributed`): with `Shape`, a read is attributed to
  the effect whose body made it.
- `AlwaysOwed`, `Spec => []StaleIsOwed` (`Told`): an effect that is running has read nothing old,
  or is excused, and a Set that changed a value has in its `todo` every living reader it has not
  reached. This uses all of the above: the copy of the subscribers is complete by `Symmetric`.

## 10. Hooks: `Hooks.tla`

**State.** `fiber` by name, with cursor, expected number of hooks and slots; `current`;
`stack`, the renders, calls of UseEffect and of Unmount under way. `handles` are the State
values handed out.

| code | actions |
|---|---|
| `ui.Component`, `BeginRender`, `EndRender` | `Render`, `RenderChild`, `EndRender` |
| `claimSlot` | `Claims`, `Claim`, `KindChanged` |
| `UseState` (`UseReducer`), `UseMemo` (`UseCallback`), `UseRef` | the actions of the name |
| `UseEffect` | `UseEffect` up to the call of its function, `EffectReturns` |
| `State.Set`, `Update`, dispatch | `SetState` |
| `Unmount` | `Unmount`, `RunCleanup`, `UnmountReturns` |
| a panic | `CodePanics`, `KindChanged`, `EndRender` with another number of hooks |

Run **HookRuntime**: a parent with three hooks and two children that share a fiber, the
child with hooks in one order or the other or fewer; 3 renders, 2 calls of setters or
Unmount, 4 runs of effects. Deadlock is not checked: when the bounds are
reached nothing happens. `OwnSlots`: a component has the slots of its own hooks.
`CleanupExact`: a run of an effect is cleaned up exactly once, or still held.
`CurrentExact`: the current fiber is mounted, and is that of the innermost render under way or the
default one; none is current at rest. Within a render there may be none, as after a child's
`EndRender` (runtime.go:57). Development mode is on.

Not in the model: contexts (a Provider sets the current value and nothing sets it back),
warnings, the render request. UseMemo's function is a value: in the code it runs inside the hook
(memo.go:10), and could call hooks, set or panic there. A parent with children is never checked for its number
of hooks, as the child's `EndRender` leaves no current fiber. `Update` calls its function
with the runtime's mutex held: one that uses hooks waits for ever.

*Proved* (`HooksProofs`), for any components, bodies and effects:

- `AlwaysCurrent`, `Spec => []CurrentExact`. A first invariant (`Bracketed`) says where calls come
  from: what was entered first is a render, whose end leaves nobody current, or an Unmount from a
  handler, inside which nothing renders. On it rests the second (`Scoped`): only the beginning of
  a render makes a component current, its own; after a child's `EndRender`, and whenever a panic
  unwinds a render, none is until the next one begins.
- `CleanupAlwaysOnce`, `Spec => []CleanupExact`. The invariant (`Accounted`) counts: a run that
  is not excused is held by at most one slot, or waits in at most one Unmount, never both
  (`Once`); it has been cleaned up as often as that leaves (`Balanced`); and the slot an effect's
  call will write on return still holds the run it replaced, unless that fiber was unmounted
  meanwhile, which excuses both (`Attached`).

- `RegularOwnsSlots`: a component that keeps the rules of hooks has, when nothing runs and its
  last render has ended, the slots of one of its bodies, in their order and no other, whatever
  the other components do. `AlwaysOwnSlots` is `Spec => []OwnSlots` for components that all do.
  To keep the rules (`Regular`) is that all the component's bodies begin with the same number of
  hooks, of any kinds, and go on with nothing but children. The invariant (`Owned`) is about who
  claims: while such a component's fiber is current the last render is its own, and its cursor
  and what is left of that render's body make up the body (`Amid`); a render below it has called
  all its hooks (`Over`); so no claim, and no State value that outlives its mount, reaches a
  slot beyond the component's number of hooks (`Fitting`).

*Only model-checked:* `OwnSlots` of the run's child, which does not keep the rules: it also has
a body with fewer hooks, and the check at `EndRender` panics. Where a hook follows a child the
code breaks it (section 14).

## 11. Migrations: `Migrations.tla`

**State.** The directory (`disk`, `down`), the table `schema_migrations` (`recorded`),
`schema`, how often each migration's effect is there, and the processes. A migration and
its record are two transactions.

| code | actions |
|---|---|
| `Create` | `Create`, `WriteUp`, `WriteDown` |
| `UpWith` | `StartUp`, `CheckApplied`, `ExecUp`, `Record`, `Finished` |
| `DownWith` | `StartDown`, `SkipDown`, `ExecDown`, `Unrecord` |
| errors, crashes | `QueryFails` (of `applied`), `Refused`, `Abort` |

Run **MigrateRuns**: two processes, versions 998 and 999, two names, 2 crashes or failing
queries of the ledger, 2 rollbacks.
`LedgerExact`: the table tells the schema. `InOrder`: as an action property, of both
directions. `Converges`: migrating again ends, under fairness that processes go on and that
somebody migrates while there is something to migrate. `torn` marks versions where a process
ended between the two transactions; nothing is promised of them. The constants say what
the run assumes of its users: migrations that fail when repeated (`Strict`), a driver that
takes `?` (`Understood`), files at most one directory deep, rollbacks while nobody
migrates (`DownAlone`). Each assumption is needed, see section 14.
A migration is one transaction, all of it or nothing: MySQL commits each DDL statement by
itself, so there a script that fails halfway stays half applied (migrate.go:210-222); the model
is of databases with transactional DDL.

*Proved* (`MigrationsProofs`), for any number of processes, names, versions and crashes:

- `TypeCorrect`, `Spec => []TypeOK`, with `Numbered`: the numbers on disk have no gap, so that the
  number after the last is free.
- `LedgerAlwaysExact`, `Spec => []LedgerExact`, assuming `Strict` and `DownAlone`. The invariant
  (`Ledger`) says of every version not torn how its one effect, its record and the process amid its two
  transactions relate. `Strict` is what makes the second of two processes fail rather than apply twice.
- `AlwaysInOrder`, `Spec => InOrder`, assuming `DownAlone` and `Last <= 999`. The files are read as
  sorted (`Climbs`, `Descends`), and `Less` orders by `Key`, which is the number's order up to 999 only:
  the hypothesis is the code's own limit (section 14).

*Only model-checked:* `Converges`, liveness.

## 12. The server: `Requests.tla`

pkg/server, pkg/auth with its stores and limiter, and the handlers and store of the todo
example, composed as `examples/todo/cmd/server/main.go` does.

**State.** serveHTTP's goroutine (`waiter`), the listeners, `result`; each request `req[r]`
with where it is in the chain; the session store, the limiter's failures, the tables `secret`
(users) and `rows` (todos), `failToggle`. The rest is history: what sessions were issued,
used and ended, guesses, and `promised`, the todos as the answers describe them.

| code | actions |
|---|---|
| `Run`, `serveHTTP` | `Signal`, `Shutdown`, `Drained`, `Expire`, `ListenerFails`, `Return` |
| `rejectWhileDraining` | `Admit` |
| `Auth.Middleware`, the stores | `Lookup` (Get), `DeleteExpired`, `Renew` (the clock read again), `Touch` and UserLoader, `Cleanup` |
| `RequireUser`, `CSRFMiddleware`, `decode`, `validate` | `Refuse`, the guard `Handles` |
| `LoginHandler` and limiter | `Allow`, `Verify` |
| `signup`, `login`, `logout`, `me`, `changePassword` | `SignUp`, `SignIn`, `Grant` (Auth.Login), `Logout`, `Me`, `ChangePassword`, `StorePassword` |
| the todo handlers | `ListTodos`, `GetTodo`, `CreateTodo`, `ReadTodo` and `SaveTodo` (UpdateTodo), `DeleteTodo`, `SetToggleFailure` |

Run **Serving**: two requests at a time, the memory and the database store. `MCRequests` has
four kinds of clients (`mix`): sessions as time passes, guesses, accounts, and todos while
the server is stopped. They are apart because their tables do not meet; the database store is
the first one's, as the others' properties do not tell the stores apart. 4 requests in all (3 of
todos), limit 1, window 2, sessions of 1 in a time of 2.

Any statement of the database store may fail (a locked database, a cancelled request): the errors
of `Set`, `Touch` and `Delete` are dropped (auth.go:59,110,116), so a login may hand out a session that is
not stored, and a logout may be answered ok and leave its session.

`ServedByRight`: nobody is served by a session that is not his, over, or deleted by a logout
(one whose Delete failed is not counted, see section 14).
`GuessesBounded`, `ReturnsClean`, `PromisesKept` (what `ListTodos` answers, under each filter, is
what earlier answers said), `OwnRowsOnly` (an action property), `Stops` (liveness).
Fairness is of serveHTTP's goroutine and of Shutdown's deadline; handlers may hang. Deadlock
is not checked: a server stops.

*Proved* (`RequestsProofs`), for any number of requests, sessions, users and todos:

- `AlwaysClean`, `Spec => []ReturnsClean`. The invariant `Stopping` ties the goroutine's place to
  the listeners: once they are closed no request arrives, so `AllIdle`, true when Shutdown
  returned, stays true. Any request's step needs a request that is not idle (`StepNeedsRequest`).
- `AlwaysServedByRight`, `Spec => []ServedByRight`, assuming a store that can forget
  (`"cookie" \notin Stores`; section 14 has the other). `Known` says that what a request has read
  of its session stays true of it while others touch, end or clean up sessions, and while statements
  fail unheeded: an identifier is issued once, to one user, and `late` records a logout that deleted
  the session before the request came.
- `PromisesAlwaysKept` and `AlwaysOwnRows`, from `Kept`: the rows are what was promised, or
  excused; a copy that `UpdateTodo` has read and not saved belongs to the user who asked
  (`CopiesOK`), so a save never gives a row to another; and the password compared is the one
  stored, or a change has overtaken it (`SecretsOK`).
- `GuessesAlwaysBounded`, `Spec => []GuessesBounded`, for finitely many requests. The bound is
  the limit and all but one of the requests served at a time, which Allow may let in before the
  first of them has failed. `Counted` shows it: the failures remembered are those made in the window, and
  with the requests now verifying they are never more than that.

*Only model-checked:* `Stops`, liveness.

What reading it brought up: while draining, `{prefix}/healthz` gets the API's
error rather than the health handler's 503; the example's own login has no limiter; sessions
survive a change of password; the middleware renews the session (auth.go:59) but not the cookie, whose
Expires stays that of the login (auth.go:112); two changes of one password can both succeed,
the later one compared with a password that is no longer stored.

## 13. The browser: `Router.tla`, `Forms.tla`, `WebApp.tla`

`Router` has the choice of a route (`matchPattern`, `matchChain` as functions over the paths),
the memory history and its listeners; `Forms` one form with its submits in two lock
sections. Both are operations, `WebApp` says who calls them: the pages of
`examples/todo/internal/web` in one tab.

| code | actions |
|---|---|
| `Root`, `Outlet`, `homePage`, `RequireLogin` | `Render`, with a redirect instead of a page |
| `App` again, on an injected history or not | `App` |
| `Link`, `filterButton`, Back, Forward | `FollowLink`, `Filter`, `BackOrForward` |
| form fields, `Reset` | `Edit` (`Set`, `SetInvalid`, `Reset`) |
| `Submit`, `loginPage`, `signupPage` | `Login`, `Answer` (the server, external), `LoggedIn` |
| the logout button | `Logout`, `Answer`, `LoggedOut` |
| the browser | `CookieEnds`, at the Expires that `Auth.Login` wrote |

Run **WebPages**: `MCWebApp` has the example's routes, with a child route and a wildcard added,
and a form with a plain and a pointer field. Three kinds of use (`mix`): working on the form
with overlapping submits; going about the pages, with two history entries and two routers, one
submit at a time; two people, one of whom signs up, whose browser may have a session when the page is
loaded, drop its cookie, or lose an answer. `Located`, `OneHop` (a redirect never meets
another), `SubmittingExact`, `ErrorsFit`, `UserIsSessions`.

A call ends in an answer that it was done, in a refusal that names fields or none (examples/todo/internal/api/todos.go:97), or in an
error because the answer or the call itself was lost, before or after the server did it. The logout
button takes every outcome for done. The history variables `given` (whom the server last gave a
session), `together` (calls overlap) and `parted` say from when the pages may show another user:
from a call that overlaps another, a page load in a browser with a session, or an outcome the page
does not see, to the next call that ran alone and was done. Those of the form do the same for
`SubmittingExact` and `ErrorsFit`. What the properties so leave out is in section 14.

*Proved* (`WebAppProofs`), for any routes, fields, users and submits, and however long the
history:

- `AlwaysLocated` and `AlwaysOneHop` (`Routed`): the current router's location is the history's entry after
  each operation that moves either, and where a redirect has landed nothing redirects, for the
  user who stands there.
- `SubmittingAlwaysExact` (`Submits`): until submits overlap at most one runs.
- `ErrorsAlwaysFit` (`Fits`), for forms that validate on change (`~OnSubmitOnly`): a submit under
  way whose form was not edited has sent the value shown.
- `UserAlwaysSessions` (`Sessions`): the pages show whom the server last gave a session, and the
  browser has that session or its cookie has ended. A call that runs alone has found the two alike
  or settles them when it is done; every other is `together` or `parted`, and the invariant says which.

The proofs use nothing of which route `matchChain` chooses.

Also seen: a panic in `onSubmit` leaves `submitting` true (form.go:144-148; the model's functions
return); after the page is loaded again `frontendUser` is nil though the session lives, and nothing calls Me (README.md:173 lists "session refresh"); `RequireLogin(todosContent())` starts
the fetch before the check; `norm` drops the query, so a filter never reaches the URL; an
index child (`/` under a parent) ties with its parent and is never chosen; navigation
does not render by itself.

## 14. Disagreements without a run

Besides the findings in `PROJECT.json`, TLC finds these violated. To see one, put the property
into the run named, changed as said; a property not in the modules is described.

Query cache and dev server:

| property | run, changed | what happens | what is said of it |
|---|---|---|---|
| `FetchingHasFlight` | QueryEdits | a rollback restores the fetching flag of a fetch that has completed: only a forced Refetch can ever fetch again | `docs/query.md:17`: "true for any in-flight fetch" |
| `NoRejectedEdit` | QueryEdits, `Optimistic` = {m1, m2}, `Writers` = {} | the second one's snapshot holds the first one's edit, and its rollback brings it back | `plan/09-query-cache-layer.md:123`: "rollback reverts the cache to the original list" |
| `MountedKept` | QueryEdits, `Clearable` = FALSE | a component that mounts between snapshot and rollback loses its entry | `docs/query.md:54`: evicted "after the last mounted query releases" |
| `QuietIsCurrent` | DevClosedChannel, `Files` and `GoFiles` = {web, api} | one batch's error is cleared by the next, of other files: no error shown, nothing running, an output old | `docs/dev-mode.md` on the overlay |
| `ChangeAccounted` without excusing strays | DevLive | an edit of a backend package in a place of its own, or of the scaffold's `internal/web/page.go`, orders a frontend build and no backend build | `docs/dev-mode.md:9`: "server Go files -> go build + backend restart" |
| `ChangeAccounted` without excusing unseen edits | DevLive | a file written in a new directory before the directory's event is handled is never built (devserver.go:349-353) | `docs/dev-mode.md:9` |
| `Settles` | DevLive, `Files` = {web, input}, `GoFiles` = {web}, `NewDirs`, `Stray`, `Generated` = {}, `Scratch` = {input}, `Conns` = {c1}, `MaxMoves` = 1 | with a Tailwind binary each build writes a style sheet that the watcher takes for an edit: it rebuilds for ever | - |
| `OverlayMeansFailure` | DevLive | a broken event stream is also an `error` event to the page's listener, which says that the build failed | `docs/dev-mode.md:36` |
| `NoOrphan` | BackendRestarts | SIGINT between `Start` and `StoreCmd`: the shutdown finds no command and exits, the backend lives on. Or the server's own port is taken: `start` returns, and nobody stops the backend | `plan/14-dev-mode-hot-reload.md:140`: SIGINT "terminates all child processes" |
| `ReadyHasBound` | BackendRestarts | a killed backend that has not died answers for its successor | `devserver.go:523`: "the only mechanism that gates requests on the backend actually being ready" |

Signals, hooks and migrations:

| property | run, changed | what happens | what is said of it |
|---|---|---|---|
| `StaleIsOwed` for all effects | SignalGraph | an effect that sets what it has read keeps the old value | - |
| `OwnSlots` | HookRuntime, `Bodies <- LateHookBodies` | hooks after a child go to the default fiber, which all such components share | `docs/hooks.md:81`: "scoped by component name during the component render" |
| `OwnState` | HookRuntime | a setter called after Unmount makes a fiber that the next mount inherits | `runtime.go:80`: "drops its hook state" |
| `CountsReal` | HookRuntime | a panic in a first render records the hooks so far as the expected number | `docs/hooks.md:79` |
| `CleanupAlwaysExact` | HookRuntime | an effect whose component is unmounted, or that panics, inside its own call is cleaned up twice or never | `docs/hooks.md:32` |
| `AppliedOnce` | MigrateRuns, `Strict` = FALSE | two processes both find a version not applied and apply it | `docs/db.md:58`: "already-applied versions are skipped" |
| `NoneSkipped` | MigrateRuns | two developers take the same number, and one file is never applied | - |
| `InOrder` | MigrateRuns, `Last` = 1000 | "1000" sorts before "999" | - |
| `Converges` | MigrateRuns, `Depth` = 2 | `**` matches one directory only, and nothing is found | `migrate.go:268`: "rooted at the app" |
| `OnlyAbortsTear` | MigrateRuns, `Understood` = FALSE, `Name` = {users} | with pgx the query of the ledger fails, counts as not applied, and the record fails after the migration has run | `docs/db.md:58` configures Postgres |
| `LedgerExact` | MigrateRuns, `DownAlone` = FALSE | a rollback and a migration at once leave a record without its effect | - |

The server and the browser:

| property | run, changed | what happens | what is said of it |
|---|---|---|---|
| `ServedByRight` | Serving, `Stores` = {"cookie"} | a copied cookie serves after logout | `docs/auth.md:59`: "when applicable" |
| `ServedByRight` with a logout that failed counted | Serving | the database store's Delete fails, the logout is answered ok (pkg/auth/handlers.go:45, examples/todo/internal/api/todos.go:107), and the session serves on | `docs/auth.md:59`: "deletes the server-side session when applicable" |
| `PromisesKept` with no row excused | Serving | of two updates at once one is lost, or a deleted row inserted again | - |
| `ReturnsClean` without `gaveUp` | Serving | ten seconds are over, requests run, serveHTTP returns nil | `docs/server.md:49`: "allows up to 10 seconds" |
| a session in use lives on for `Duration` | Serving | one request reads an expired row, another extends it, the first deletes it by id | - |
| `SubmittingExact` without `mixed` | WebPages | the first of two submits to end turns it off | `docs/forms.md:40`: "toggles `IsSubmitting`" |
| `ErrorsFit` without `torn`, without `edited`, or with `OnSubmitOnly` = TRUE | WebPages | no error though the value is bad; a refusal shown beside a value that was never sent | - |
| `UserIsSessions` without `parted` | WebPages | a page is loaded while the session lives: it shows nobody. Or, from `cookie = None`: a logout fails, or a login answers after a logout, and the pages show nobody while the cookie says somebody, or the reverse | - |
| `LogoutEnds`: with `user` = None and no call under way, `cookie` = None | WebPages, from `cookie = None` | the logout failed or was lost; the button shows nobody, and the cookie still logs in | - |
| `UserHasSession`: `UserIsSessions` with `cookie = user` | WebPages | the cookie ends at the login's Expires (auth.go:112), however the session was used since; the pages go on showing the user, and every call is refused | - |
| `Located` when `Render` takes any router | WebPages | rendering an older router makes it the current one (router.go:127); the example renders only its last | - |
| text typed stays, pages left stay left | WebPages | rendering a form page anew makes its form anew; a late login answer navigates away | - |

## 15. Type invariants

Each module but `Router`, `Forms`, `Requests` and `WebApp` states one. Those of `QueryCache`,
`DevBackend`, `DevServer`, `Signals` and `Migrations` are proved, each as `TypeCorrect`;
`QueryCache`'s is checked too. `Hooks` and the four have the types their proofs need within
their invariants. Runs spend their time on the hazards instead.

## 16. What is not modelled

In `pkg/query`: what the getters return, keys as strings (a prefix such as `1`
also covers the string key `10`; `Covers` may express that), uses of one key
with different StaleTime, updaters of another type, `Inspector` and `Provider`, a Refetch called
on a result that has been released (query.go:71).
In the dev server: the counters of `status.json`, static files, proxying and
the injection of the runtime into pages, removed and renamed directories, error parsing, the snapshot of form values
around a reload. The code's panic ends the process at once, backend included or
not. In migrations: `StatusWith`, which reads only, names and the parsing of file names.
In auth: hashing and the cookie store's cipher, library calls. In the server: static files,
request ids, logging and CORS headers. In forms: the built-in rules, which are pure, the marks
per field, and a function that panics. Of the browser's history only what the memory history does.

The typed client and the API registry are encodings of one request around a list with a mutex.
The build's downloads are in the plan. The CLI, the scaffolding, the generator, the UI element
builders, `pkg/browser`, database opening, logging and the test helpers keep no state of their
own or only call tools.
