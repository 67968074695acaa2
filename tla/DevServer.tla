----------------------------- MODULE DevServer -----------------------------
(***************************************************************************)
(* `goflex dev`: internal/devserver/devserver.go.                          *)
(*                                                                         *)
(* One goroutine watches the project, collects changed files, and after    *)
(* 200 ms of silence rebuilds the outputs they affect, one stage after the *)
(* other.  It publishes what happened to the browser pages, each of which  *)
(* holds an event stream: a handler goroutine that subscribes a buffered   *)
(* channel, greets with the current error, and forwards events until the   *)
(* page has gone.  The backend process is in module DevBackend.            *)
(***************************************************************************)
EXTENDS Naturals, Sequences, FiniteSets, SequencesExt

CONSTANTS
  Files,      \* files of the project that matter here
  GoFiles,    \* those with Go source, which may be wrong
  NewDirs,    \* directories that are made while the server runs
  Inside,     \* new directory -> the files written in it
  Place,      \* path -> what classifyChange sees in it
  Readers,    \* path -> stages whose output depends on it
  Stray,      \* files that some stage reads from a place that does not order it
  Generated,  \* files the gen stage writes, if their content changes
  Scratch,    \* files the tailwind stage writes whenever it runs
  Pages,      \* browser pages
  Conns,      \* event streams that exist at once
  Buffer,     \* events a client's channel holds: 16
  EarlyEdits, \* whether files are edited before the watcher is set up
  MaxMoves,   \* bound on edits, watcher errors, navigations and lost connections
  NoPage

Stage == {"gen", "server", "frontend", "tailwind"}
Errors == Stage \cup {"watcher"}
Faults == {"none", "type", "syntax"}
Status == Errors \cup {"ok"}
Events == Status \cup {"reload", "css"}

Paths == Files \cup NewDirs

\* What a change of a path orders, by its place in the project.
Classify ==
  [shared |-> Stage, server |-> {"server", "tailwind"}, other |-> {"frontend", "tailwind"},
   style |-> {"tailwind"}, directory |-> {}]

ASSUME FilesAssumption ==
  /\ GoFiles \subseteq Files
  /\ Generated \subseteq Files
  /\ Scratch \subseteq Files
  /\ Stray \subseteq Files
  /\ Place \in [Paths -> DOMAIN Classify]
  /\ Readers \in [Paths -> SUBSET Stage]

ASSUME DirectoriesAssumption ==
  /\ NewDirs \cap Files = {}
  /\ Inside \in [NewDirs -> SUBSET (Files \ (Generated \cup Scratch))]
  /\ \A d \in NewDirs : Place[d] = "directory" /\ Readers[d] = {}

\* The stages a change of a path orders.
Triggers == [x \in Paths |-> Classify[Place[x]]]

\* Strays apart, a file orders all stages that read it.  What gen writes it does not read;
\* the stages that do read it come after gen.  Nothing else reads the scratch files.
ASSUME LayoutAssumption ==
  /\ \A f \in Files \ (Stray \cup Generated) : Readers[f] \subseteq Triggers[f]
  /\ \A f \in Generated : "gen" \notin Readers[f]
  /\ \A f \in Scratch : Readers[f] = {}

ASSUME ClientsAssumption ==
  /\ NoPage \notin Pages
  /\ Buffer \in Nat \ {0}
  /\ EarlyEdits \in BOOLEAN
  /\ MaxMoves \in Nat

VARIABLES
  fault,     \* what is wrong in each file
  dir,       \* new directories: "none", "made", and "watched" by the watcher
  dirty,     \* stages whose output is older than a file it depends on
  excused,   \* history: stages left out of date by a failed or unseen change
  watch,     \* the watch goroutine: "building" (initialBuild), "unset", "on", "off"
  fsq,       \* paths with an event in the watcher's channel
  pending,   \* the debounced paths; the timer runs iff there are some
  todo,      \* what rebuild still does: stages, and "clear" for clearError
  lastErr,   \* the error shown, by the stage that failed, or "none"
  pub,       \* a publish in progress: the event, and the clients copied
  conn,      \* event streams
  page,      \* what each browser page shows and runs
  panicked,
  moves

buildVars == <<fault, dir, dirty, excused>>
watchVars == <<watch, fsq, pending, todo>>
vars == <<fault, dir, dirty, excused, watch, fsq, pending, todo, lastErr, pub, conn, page,
          panicked, moves>>

Publication == [event : Events \cup {"nothing"}, copied : BOOLEAN, to : SUBSET Conns]
NoPub == [event |-> "nothing", copied |-> FALSE, to |-> {}]

\* gone: the page has left; lost: the last status event found the buffer full.
ConnRecord ==
  [state : {"free", "subscribed", "open"}, page : Pages \cup {NoPage}, gone : BOOLEAN,
   queue : Seq(Events), lost : BOOLEAN]
FreeConn ==
  [state |-> "free", page |-> NoPage, gone |-> FALSE, queue |-> <<>>, lost |-> FALSE]

\* bundle: the page runs the built app.js, is owed a reload, or has missed it.
PageRecord ==
  [overlay : Errors \cup {"none", "lost"}, bundle : {"current", "owed", "missed"}]
LoadedPage == [overlay |-> "none", bundle |-> "current"]

TypeOK ==
  /\ fault \in [Files -> Faults]
  /\ dir \in [NewDirs -> {"none", "made", "watched"}]
  /\ dirty \subseteq Stage
  /\ excused \subseteq Stage
  /\ watch \in {"building", "unset", "on", "off"}
  /\ fsq \subseteq Paths
  /\ pending \subseteq Paths
  /\ todo \subseteq Stage \cup {"clear"}
  /\ lastErr \in Errors \cup {"none"}
  /\ pub \in Publication
  /\ conn \in [Conns -> ConnRecord]
  /\ \A c \in Conns : Len(conn[c].queue) <= Buffer
  /\ page \in [Pages -> PageRecord]
  /\ panicked \in BOOLEAN
  /\ moves \in 0..MaxMoves

Init ==
  /\ fault \in [Files -> Faults]
  /\ \A f \in Files : f \notin GoFiles \/ (\E d \in NewDirs : f \in Inside[d]) => fault[f] = "none"
  /\ dir = [d \in NewDirs |-> "none"]
  /\ dirty = Stage
  /\ excused = {}
  /\ watch = "building"
  /\ fsq = {}
  /\ pending = {}
  /\ todo = Stage \cup {"clear"}
  /\ lastErr = "none"
  /\ pub = NoPub
  /\ conn = [c \in Conns |-> FreeConn]
  /\ page = [p \in Pages |-> LoadedPage]
  /\ panicked = FALSE
  /\ moves = 0

-----------------------------------------------------------------------------
(* Files and the watcher. *)

Move == moves < MaxMoves /\ moves' = moves + 1

ReadersOf(fs) == UNION {Readers[f] : f \in fs}
Ordered(fs) == UNION {Triggers[f] : f \in fs}

\* The watch goroutine is in its select.
Idle == watch = "on" /\ todo = {} /\ pub = NoPub

\* There is a watcher, and it watches the directory the file is in.
Seen(f) == watch = "on" /\ \A d \in NewDirs : f \in Inside[d] => dir[d] = "watched"

\* Editing or adding a file sends an event if its directory is watched: not before the
\* watcher is set up, nor in a new directory whose own event has not been handled yet.
\* The stages that read the file and that its event does not order are not told either.
Edit(f) ==
  /\ Move
  /\ f \notin Generated \cup Scratch
  /\ \A d \in NewDirs : f \in Inside[d] => dir[d] # "none"
  /\ watch = "on" \/ EarlyEdits
  /\ \E x \in Faults : (f \in GoFiles \/ x = "none") /\ fault' = [fault EXCEPT ![f] = x]
  /\ dirty' = dirty \cup Readers[f]
  /\ \/ /\ Seen(f)
        /\ fsq' = fsq \cup {f}
        /\ excused' = excused \cup (IF f \in Stray THEN Readers[f] \ Triggers[f] ELSE {})
     \/ /\ ~Seen(f)
        /\ excused' = excused \cup Readers[f]
        /\ UNCHANGED fsq
  /\ UNCHANGED <<dir, watch, pending, todo, lastErr, pub, conn, page, panicked>>

\* A directory is made; its parent is watched, once there is a watcher.
MakeDir(d) ==
  /\ Move
  /\ dir[d] = "none"
  /\ watch = "on" \/ EarlyEdits
  /\ dir' = [dir EXCEPT ![d] = "made"]
  /\ fsq' = IF watch = "on" THEN fsq \cup {d} ELSE fsq
  /\ UNCHANGED <<fault, dirty, excused, watch, pending, todo, lastErr, pub, conn, page, panicked>>

\* publish begins: the clients are copied in a later step.
Announce(e) == pub' = [event |-> e, copied |-> FALSE, to |-> {}]

SetError(e) == lastErr' = e /\ Announce(e)

\* start listens when initialBuild is done, and runs watch.
Listen ==
  /\ watch = "building" /\ todo = {} /\ pub = NoPub
  /\ watch' = "unset"
  /\ UNCHANGED <<buildVars, fsq, pending, todo, lastErr, pub, conn, page, panicked, moves>>

\* addWatchDirs walks over the directories there are.
StartWatch ==
  /\ watch = "unset"
  /\ watch' = "on"
  /\ dir' = [d \in NewDirs |-> IF dir[d] = "made" THEN "watched" ELSE dir[d]]
  /\ UNCHANGED <<fault, dirty, excused, fsq, pending, todo, lastErr, pub, conn, page, panicked, moves>>

\* NewWatcher or addWatchDirs fails: nothing is watched, for ever.
WatchFails ==
  /\ watch = "unset"
  /\ watch' = "off"
  /\ SetError("watcher")
  /\ UNCHANGED <<buildVars, fsq, pending, todo, conn, page, panicked, moves>>

Collected(x) == pending \cup {x}

\* An event is collected and (re)starts the timer.  For a new directory its watch is added,
\* which may fail unheeded; the files already in it are not looked at.
WatchEvent(x) ==
  /\ Idle
  /\ x \in fsq
  /\ fsq' = fsq \ {x}
  /\ pending' = Collected(x)
  /\ \/ x \in NewDirs /\ dir' = [dir EXCEPT ![x] = "watched"]
     \/ UNCHANGED dir
  /\ UNCHANGED <<fault, dirty, excused, watch, todo, lastErr, pub, conn, page, panicked, moves>>

\* The watcher reports an error, such as a queue that has overflowed with events lost.
WatcherError ==
  /\ Idle
  /\ Move
  /\ \E gone \in SUBSET fsq :
       /\ fsq' = fsq \ gone
       /\ excused' = excused \cup ReadersOf(gone)
  /\ SetError("watcher")
  /\ UNCHANGED <<fault, dir, dirty, watch, pending, todo, conn, page, panicked>>

\* What a batch of paths makes rebuild do; nothing at all if no stage is ordered.
Batch(fs) == IF Ordered(fs) = {} THEN {} ELSE Ordered(fs) \cup {"clear"}

\* Wrong: the paths stay pending and the timer is armed again (Settles).
FireAgain ==
  /\ Idle
  /\ pending # {}
  /\ todo' = Batch(pending)
  /\ UNCHANGED <<buildVars, watch, fsq, pending, lastErr, pub, conn, page, panicked, moves>>

\* 200 ms after the last event, the timer fires.
Fire ==
  /\ Idle
  /\ pending # {}
  /\ todo' = Batch(pending)
  /\ pending' = {}
  /\ UNCHANGED <<buildVars, watch, fsq, lastErr, pub, conn, page, panicked, moves>>

-----------------------------------------------------------------------------
(* initialBuild and rebuild: stages in order, up to the first that fails. *)

\* Wrong: code is generated after it is compiled (ChangeAccounted).
EarlierGenLast ==
  [server |-> {}, frontend |-> {"server"}, gen |-> {"server", "frontend"},
   tailwind |-> {"gen", "server", "frontend"}]
Earlier ==
  [gen |-> {}, server |-> {"gen"}, frontend |-> {"gen", "server"},
   tailwind |-> {"gen", "server", "frontend"}]

Turn(s) == s \in todo /\ Earlier[s] \cap todo = {} /\ pub = NoPub

\* gen and tailwind parse every Go file; the compilers check what they import.
Refuses(s, f) ==
  \/ fault[f] = "syntax" /\ s \in {"gen", "tailwind"} \cup Readers[f]
  \/ fault[f] = "type" /\ s \in {"server", "frontend"} \cap Readers[f]

Outputs(s) ==
  CASE s = "gen"      -> {Generated, {}}
    [] s = "tailwind" -> {Scratch}
    [] OTHER          -> {{}}

\* Only rebuild tells the pages; initialBuild runs before there are any.
Built(s) ==
  IF watch = "building" \/ s \notin {"frontend", "tailwind"}
    THEN UNCHANGED <<pub, page>>
    ELSE /\ Announce(IF s = "frontend" THEN "reload" ELSE "css")
         /\ page' = IF s = "frontend"
                      THEN [p \in Pages |-> [page[p] EXCEPT !.bundle = "owed"]]
                      ELSE page

Succeed(s) ==
  /\ Turn(s)
  /\ \A f \in Files : ~Refuses(s, f)
  /\ todo' = todo \ {s}
  /\ excused' = excused \ {s}
  /\ \E out \in Outputs(s) :
       /\ dirty' = (dirty \ {s}) \cup ReadersOf(out)
       /\ fsq' = IF watch = "on" THEN fsq \cup out ELSE fsq
  /\ Built(s)
  /\ UNCHANGED <<fault, dir, watch, pending, lastErr, conn, panicked, moves>>

\* A stage fails, and the rest of the batch is forgotten: it refuses a file, the backend
\* does not become ready, a tool is missing, a file cannot be read or written.
Fail(s) ==
  /\ Turn(s)
  /\ excused' = excused \cup (todo \ {"clear"})
  /\ todo' = {}
  /\ SetError(s)
  /\ UNCHANGED <<fault, dir, dirty, watch, fsq, pending, conn, page, panicked, moves>>

ClearError ==
  /\ todo = {"clear"} /\ pub = NoPub
  /\ todo' = {}
  /\ lastErr' = "none"
  /\ Announce("ok")
  /\ UNCHANGED <<buildVars, watch, fsq, pending, conn, page, panicked, moves>>

-----------------------------------------------------------------------------
(* The broker. *)

Live(p, c) == conn[c].state # "free" /\ conn[c].page = p /\ ~conn[c].gone
Connected(p) == \E c \in Conns : Live(p, c)

Clients == {c \in Conns : conn[c].state # "free"}

\* The reload passes by the pages in P.
Missed(P) ==
  [p \in Pages |-> IF p \in P /\ page[p].bundle = "owed"
                     THEN [page[p] EXCEPT !.bundle = "missed"] ELSE page[p]]

\* publish copies the clients under the lock, and sends without it.
CopyClients ==
  /\ pub # NoPub /\ ~pub.copied
  /\ pub' = IF Clients = {} THEN NoPub ELSE [pub EXCEPT !.copied = TRUE, !.to = Clients]
  /\ page' = IF pub.event = "reload"
               THEN Missed({p \in Pages : ~Connected(p)}) ELSE page
  /\ UNCHANGED <<buildVars, watchVars, lastErr, conn, panicked, moves>>

\* Wrong: publish stops after one client (ReloadOnItsWay).
SentToOne(c) == NoPub
SentTo(c) == IF pub.to = {c} THEN NoPub ELSE [pub EXCEPT !.to = @ \ {c}]

Room(c) == Len(conn[c].queue) < Buffer

Send(c) ==
  /\ c \in pub.to /\ conn[c].state # "free"
  /\ Room(c)
  /\ pub' = SentTo(c)
  /\ conn' = [conn EXCEPT ![c].queue = Append(@, pub.event),
                          ![c].lost = @ /\ pub.event \notin Status]
  /\ UNCHANGED <<buildVars, watchVars, lastErr, page, panicked, moves>>

\* select's default: the buffer is full, the event is dropped.
DropEvent(c) ==
  /\ c \in pub.to /\ conn[c].state # "free"
  /\ ~Room(c)
  /\ pub' = SentTo(c)
  /\ conn' = [conn EXCEPT ![c].lost = @ \/ pub.event \in Status]
  /\ page' = IF pub.event = "reload" THEN Missed({p \in Pages : Live(p, c)}) ELSE page
  /\ UNCHANGED <<buildVars, watchVars, lastErr, panicked, moves>>

\* unsubscribe has closed the channel since it was copied.
SendOnClosed(c) ==
  /\ c \in pub.to /\ conn[c].state = "free"
  /\ panicked' = TRUE
  /\ UNCHANGED <<buildVars, watchVars, lastErr, pub, conn, page, moves>>

-----------------------------------------------------------------------------
(* handleEvents, and the runtime in the page. *)

\* A page opens its event stream, at load or after it was lost.  A channel that
\* publish has yet to send to is not the slot of a new stream.
Connect(p, c) ==
  /\ watch # "building"
  /\ ~Connected(p)
  /\ conn[c].state = "free" /\ c \notin pub.to
  /\ conn' = [conn EXCEPT ![c] = [FreeConn EXCEPT !.state = "subscribed", !.page = p]]
  /\ UNCHANGED <<buildVars, watchVars, lastErr, pub, page, panicked, moves>>

\* Wrong: a new stream is always told that all is well (OverlayAgrees).
GreetingOk == "none"
Greeting == lastErr

\* The handler, already subscribed, reads the current error and sends it.
Greet(c) ==
  /\ conn[c].state = "subscribed"
  /\ conn' = [conn EXCEPT ![c].state = "open"]
  /\ page' = [p \in Pages |-> IF Live(p, c)
                                THEN [page[p] EXCEPT !.overlay = Greeting] ELSE page[p]]
  /\ UNCHANGED <<buildVars, watchVars, lastErr, pub, panicked, moves>>

\* Wrong: ok does not clear the overlay (OverlaySettles).
ReceivedButOk(e, pg) ==
  CASE e = "reload" -> LoadedPage
    [] e \in Errors -> [pg EXCEPT !.overlay = e]
    [] OTHER        -> pg

\* What an event does to the page that receives it.
Received(e, pg) ==
  CASE e = "reload"  -> LoadedPage
    [] e = "ok"      -> [pg EXCEPT !.overlay = "none"]
    [] e \in Errors  -> [pg EXCEPT !.overlay = e]
    [] OTHER         -> pg

Forward(c) ==
  /\ conn[c].state = "open" /\ conn[c].queue # <<>>
  /\ LET e == Head(conn[c].queue) IN
       /\ conn' = [conn EXCEPT ![c].queue = Tail(@), ![c].gone = @ \/ e = "reload"]
       /\ page' = [p \in Pages |-> IF Live(p, c) THEN Received(e, page[p]) ELSE page[p]]
  /\ UNCHANGED <<buildVars, watchVars, lastErr, pub, panicked, moves>>

\* The handler sees that its request has ended: it unsubscribes, the channel is closed.
Leave(c) ==
  /\ conn[c].state = "open" /\ conn[c].gone
  /\ conn' = [conn EXCEPT ![c] = FreeConn]
  /\ UNCHANGED <<buildVars, watchVars, lastErr, pub, page, panicked, moves>>

HangUp(p) ==
  conn' = [c \in Conns |-> IF Live(p, c) THEN [conn[c] EXCEPT !.gone = TRUE] ELSE conn[c]]

\* The user reloads the page or opens another.
Navigate(p) ==
  /\ watch # "building"
  /\ Move
  /\ HangUp(p)
  /\ page' = [page EXCEPT ![p] = LoadedPage]
  /\ UNCHANGED <<buildVars, watchVars, lastErr, pub, panicked>>

\* The connection breaks.  EventSource reports it to the listener for "error" events,
\* which shows an overlay, and will connect again.
LoseConnection(p) ==
  /\ Move
  /\ Connected(p)
  /\ HangUp(p)
  /\ page' = [Missed({p}) EXCEPT ![p].overlay = "lost"]
  /\ UNCHANGED <<buildVars, watchVars, lastErr, pub, panicked>>

-----------------------------------------------------------------------------
Rebuild(s) == Succeed(s) \/ Fail(s)

WatchStep ==
  \/ Listen \/ StartWatch \/ WatchFails \/ WatcherError \/ Fire \/ ClearError
  \/ \E x \in Paths : WatchEvent(x)
  \/ \E s \in Stage : Rebuild(s)

BrokerStep == CopyClients \/ \E c \in Conns : Send(c) \/ DropEvent(c) \/ SendOnClosed(c)

StreamStep ==
  \/ \E c \in Conns : Greet(c) \/ Forward(c) \/ Leave(c)
  \/ \E p \in Pages, c \in Conns : Connect(p, c)

UserStep ==
  \/ \E f \in Files : Edit(f)
  \/ \E d \in NewDirs : MakeDir(d)
  \/ \E p \in Pages : Navigate(p) \/ LoseConnection(p)

\* A panic in the watch goroutine ends the process.
Next == ~panicked /\ (WatchStep \/ BrokerStep \/ StreamStep \/ UserStep)

Spec == Init /\ [][Next]_vars

Fairness ==
  /\ WF_vars(~panicked /\ (Listen \/ StartWatch \/ Fire \/ ClearError \/ CopyClients))
  /\ \A x \in Paths : WF_vars(~panicked /\ WatchEvent(x))
  /\ \A s \in Stage : WF_vars(~panicked /\ Rebuild(s))
  /\ \A c \in Conns :
       /\ WF_vars(~panicked /\ (Send(c) \/ DropEvent(c) \/ SendOnClosed(c)))
       /\ WF_vars(~panicked /\ Greet(c))
       /\ WF_vars(~panicked /\ Forward(c))
       /\ WF_vars(~panicked /\ Leave(c))
  /\ \A p \in Pages : WF_vars(~panicked /\ \E c \in Conns : Connect(p, c))

FairSpec == Spec /\ Fairness

-----------------------------------------------------------------------------
(* Properties. *)

\* A page whose stream is open and drained shows the current error, or none, whatever
\* order greeting, publishing and subscribing came in -- unless the last status event
\* was dropped on a full buffer.  handleEvents subscribes before it reads the error.
OverlayAgrees ==
  \A p \in Pages, c \in Conns :
    Live(p, c) /\ conn[c].state = "open" /\ conn[c].queue = <<>> /\ ~conn[c].lost
      /\ pub = NoPub => page[p].overlay = lastErr

\* A page with an event stream when app.js is rebuilt gets the reload: while one is owed,
\* it is being published, or waits in the page's channel -- unless the buffer was full or the
\* connection was lost, which counts as missed.
ReloadOnItsWay ==
  \A p \in Pages : page[p].bundle = "owed" =>
    \/ pub.event = "reload" /\ (~pub.copied \/ \E c \in pub.to : Live(p, c))
    \/ \E c \in Conns : Live(p, c) /\ Contains(conn[c].queue, "reload")

\* An output that is out of date will be rebuilt by the batch that runs, or by one that
\* a file event or a pending path will start -- unless a batch failed before it got there,
\* the event was lost, or there was none: the watcher was not there yet, or did not yet
\* watch the file's new directory, or the file is one that classifyChange misplaces.
ChangeAccounted ==
  dirty \subseteq excused \cup todo \cup Ordered(fsq \cup pending)

\* Nothing is left to do, and no error is shown: all outputs are up to date.
Rest == watch # "building" /\ fsq = {} /\ pending = {} /\ todo = {} /\ pub = NoPub
QuietIsCurrent == Rest /\ lastErr = "none" => dirty = {}

\* An overlay that says "GoFlex build failed" is shown only if something failed.
OverlayMeansFailure == \A p \in Pages : page[p].overlay # "lost"

\* The development server keeps running: publish never sends on a closed channel.
NeverPanics == ~panicked

\* Once the user stops editing, the watcher and the rebuilds come to rest: what the
\* stages write into the project does not make them run for ever.
Settles == <>[](panicked \/ Rest)

\* Once the user has stopped, every page is connected and shows what lastErr says.
Shown(p) ==
  \E c \in Conns : Live(p, c) /\ (conn[c].lost \/ page[p].overlay = lastErr)
OverlaySettles == \A p \in Pages : <>[](panicked \/ Shown(p))

=============================================================================
