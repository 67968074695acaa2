------------------------------- MODULE Router -------------------------------
(***************************************************************************)
(* pkg/router: histories, the routers that listen to them, and the choice   *)
(* of a route.  Each operation maps the state `nav' to the next; a module that  *)
(* extends this one says who takes them.  Paths are sequences of segments,  *)
(* normalised; "/" is <<"">>.                                               *)
(***************************************************************************)
EXTENDS Integers, Sequences, SequencesExt, FiniteSets, FiniteSetsExt

CONSTANTS
  Routes,     \* in order of registration: [pattern, page, children]
  Path,       \* bound: paths that occur
  Wildcard,   \* parameters a pattern may hold, as ":id"
  MaxStack    \* bound: entries of the history

Root == <<"">>

ASSUME RouterAssumption == Root \in Path

VARIABLE
  nav   \* stack, idx: the history; routers: those that listen to it, oldest
        \* first, [path, params]; current: the package's current one

-----------------------------------------------------------------------------
(* Children are routes of their own, under the parent's pattern and page.   *)

Joined(base, child) == IF base = Root THEN child ELSE base \o child

Entries ==
  FlattenSeq([i \in DOMAIN Routes |->
    <<[pattern |-> Routes[i].pattern, chain |-> <<Routes[i].page>>]>>
      \o [j \in DOMAIN Routes[i].children |->
            LET c == Routes[i].children[j] IN
            [pattern |-> Joined(Routes[i].pattern, c.pattern),
             chain |-> <<Routes[i].page, c.page>>]]])

\* matchPattern: up to a "*" segments agree or are parameters.
Prefix(ps) == LET stars == {i \in DOMAIN ps : ps[i] = "*"} IN
  IF stars = {} THEN Len(ps) ELSE Min(stars) - 1

Matches(ps, xs) ==
  /\ ps = Root => xs = Root
  /\ Prefix(ps) <= Len(xs)
  /\ Prefix(ps) = Len(ps) => Len(xs) = Len(ps)
  /\ \A i \in 1..Prefix(ps) : ps[i] \in Wildcard \cup {xs[i]}

Score(ps) ==
  IF ps = Root THEN 10000
  ELSE LET n == Prefix(ps)
           m == Cardinality({i \in 1..n : ps[i] \in Wildcard}) IN
       100 * (n - m) + 10 * m + (IF n = Len(ps) THEN 1000 ELSE 1)

\* matchChain: the first of the entries with the best score, 0 if none matches.
BestEntry[path \in Path] ==
  LET fit == {i \in DOMAIN Entries : Matches(Entries[i].pattern, path)}
      best == {i \in fit : \A j \in fit : Score(Entries[j].pattern) <= Score(Entries[i].pattern)} IN
  IF fit = {} THEN 0 ELSE Min(best)

Chain[path \in Path] == IF BestEntry[path] = 0 THEN <<>> ELSE Entries[BestEntry[path]].chain

\* What the parameters of that entry capture.
Params[path \in Path] ==
  LET e == BestEntry[path] IN
  IF e = 0 THEN {}
  ELSE LET ps == Entries[e].pattern IN
       {<<ps[i], path[i]>> : i \in {j \in 1..Prefix(ps) : ps[j] \in Wildcard}}
         \cup (IF Prefix(ps) = Len(ps) THEN {}
               ELSE {<<"*", SubSeq(path, Prefix(ps) + 1, Len(path))>>})

-----------------------------------------------------------------------------
At(path) == [path |-> path, params |-> Params[path]]

Fresh == [stack |-> <<Root>>, idx |-> 1, routers |-> <<At(Root)>>, current |-> 1]

\* New on a history of its own, or on the one that was injected before.  Root()
\* follows at once and fills in the parameters.
Made(h, injected) ==
  IF ~injected THEN Fresh
  ELSE [h EXCEPT !.routers = Append(@, At(h.stack[h.idx])),
                 !.current = Len(h.routers) + 1]

\* Navigate: Push drops the entries ahead, Replace keeps them; the other
\* listeners of the history are not told.
Navigated(h, path, replace) ==
  [h EXCEPT !.stack = IF replace THEN [@ EXCEPT ![h.idx] = path]
                      ELSE Append(SubSeq(@, 1, h.idx), path),
            !.idx = IF replace THEN @ ELSE @ + 1,
            !.routers[h.current] = At(path)]

\* Wrong: only the first router made on a history listens (Located).
OldestListens(h) == {1}

Listening(h) == DOMAIN h.routers

\* Back and Forward call every listener, each of which becomes the current one.
Gone(h, step) ==
  [h EXCEPT !.idx = @ + step,
            !.routers = [i \in DOMAIN @ |-> IF i \in Listening(h)
                                               THEN At(h.stack[h.idx + step]) ELSE @[i]],
            !.current = Len(h.routers)]

(* The current router stands where its history does, with the parameters of *)
(* that place, whichever routers were made on the history, navigated, or     *)
(* were sent back and forward.                                               *)
Located == nav.routers[nav.current] = At(nav.stack[nav.idx])

=============================================================================
