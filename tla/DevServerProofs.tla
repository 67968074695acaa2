-------------------------- MODULE DevServerProofs --------------------------
(***************************************************************************)
(* For any files, pages, streams and buffer.                                *)
(*                                                                          *)
(* No change is forgotten unless something fails, an event is lost, or none *)
(* comes that orders the stage.  ChangeAccounted is not inductive by itself: *)
(* an event that orders a stage but that the stage does not depend on may be *)
(* lost, hence Accounted, which counts only what an event orders of the      *)
(* stages that read its file (Owed).  And what gen writes is accounted for   *)
(* because all other stages are still to come (Phases).                      *)
(*                                                                          *)
(* Pages get what is published, in any project.  OverlayAgrees speaks of a  *)
(* moment of rest; Told says of every moment where the current error is:    *)
(* shown, last in the page's channel, or being published to it.             *)
(***************************************************************************)
EXTENDS DevServer, TLAPS

\* The stages that events of these paths order and that read them.
Owed(fs) == UNION {Readers[x] \cap Triggers[x] : x \in fs}

Accounted == dirty \subseteq excused \cup todo \cup Owed(fsq \cup pending)

Phases ==
  /\ "gen" \in todo => Stage \subseteq todo
  /\ watch \in {"unset", "off"} => todo = {}

Shape ==
  /\ watch \in {"building", "unset", "on", "off"}
  /\ dirty \subseteq Stage
  /\ todo \subseteq Stage \cup {"clear"}
  /\ fsq \subseteq Paths
  /\ pending \subseteq Paths

IInv == Shape /\ Phases /\ Accounted

-----------------------------------------------------------------------------
(* Sets of paths. *)

LEMMA ReadersWithin ==
  ASSUME NEW F \in SUBSET Paths
  PROVE  ReadersOf(F) \subseteq Stage /\ Ordered(F) \subseteq Stage
<1>1. \A x \in Paths : Triggers[x] \subseteq Stage
  BY FilesAssumption DEF Triggers, Classify, Stage
<1>q. QED
  BY <1>1, FilesAssumption DEF ReadersOf, Ordered

LEMMA OwedOfUnion ==
  ASSUME NEW F, NEW G
  PROVE  Owed(F \cup G) = Owed(F) \cup Owed(G)
BY DEF Owed

\* A batch does all that its paths order, and gen only with everything.
LEMMA BatchDoes ==
  ASSUME NEW F \in SUBSET Paths
  PROVE  /\ Owed(F) \subseteq Batch(F)
         /\ Batch(F) \subseteq Stage \cup {"clear"}
         /\ "gen" \in Batch(F) => Stage \subseteq Batch(F)
<1>1. Owed(F) \subseteq Ordered(F)
  BY DEF Owed, Ordered
<1>2. "gen" \in Ordered(F) => Stage \subseteq Ordered(F)
  <2> SUFFICES ASSUME "gen" \in Ordered(F) PROVE Stage \subseteq Ordered(F)
    OBVIOUS
  <2>1. PICK x \in F : "gen" \in Triggers[x]
    BY DEF Ordered
  <2>2. Triggers[x] = Stage
    BY <2>1, FilesAssumption DEF Triggers, Classify
  <2>q. QED
    BY <2>2 DEF Ordered
<1>q. QED
  BY <1>1, <1>2, ReadersWithin DEF Batch

-----------------------------------------------------------------------------
(* One lemma for each action that changes more than the phase. *)

LEMMA EditAccounted ==
  ASSUME IInv, NEW f \in Files, Edit(f)
  PROVE  IInv'
<1>1. Readers[f] \subseteq Stage /\ f \in Paths
  BY FilesAssumption DEF Paths
<1>2. UNCHANGED <<watch, pending, todo>> /\ dirty' = dirty \cup Readers[f]
  BY DEF Edit
<1>3. CASE Seen(f)
  <2>1. /\ fsq' = fsq \cup {f}
        /\ excused' = excused \cup (IF f \in Stray THEN Readers[f] \ Triggers[f] ELSE {})
    BY <1>3 DEF Edit
  <2>2. Owed(fsq' \cup pending) = Owed(fsq \cup pending) \cup (Readers[f] \cap Triggers[f])
    BY <2>1 DEF Owed
  <2>3. f \in Stray \/ Readers[f] \subseteq Triggers[f]
    BY LayoutAssumption DEF Edit
  <2>4. Shape' /\ Phases'
    BY <1>1, <1>2, <2>1 DEF IInv, Shape, Phases
  <2>5. Readers[f] \subseteq excused' \cup (Readers[f] \cap Triggers[f]) /\ excused \subseteq excused'
    BY <2>1, <2>3
  <2>q. QED
    BY <1>2, <2>2, <2>4, <2>5 DEF IInv, Accounted
<1>4. CASE ~Seen(f)
  <2>1. fsq' = fsq /\ excused' = excused \cup Readers[f]
    BY <1>4 DEF Edit
  <2>q. QED
    BY <1>1, <1>2, <2>1 DEF IInv, Shape, Phases, Accounted
<1>q. QED
  BY <1>3, <1>4

LEMMA MakeDirAccounted ==
  ASSUME IInv, NEW d \in NewDirs, MakeDir(d)
  PROVE  IInv'
<1>1. UNCHANGED <<watch, pending, todo, dirty, excused>> /\ fsq \subseteq fsq' /\ fsq' \subseteq fsq \cup {d}
  BY DEF MakeDir
<1>2. Owed(fsq \cup pending) \subseteq Owed(fsq' \cup pending)
  BY <1>1 DEF Owed
<1>3. d \in Paths
  BY DEF Paths
<1>q. QED
  BY <1>1, <1>2, <1>3 DEF IInv, Shape, Phases, Accounted

LEMMA WatchEventAccounted ==
  ASSUME IInv, NEW x \in Paths, WatchEvent(x)
  PROVE  IInv'
<1>1. fsq' = fsq \ {x} /\ pending' = pending \cup {x} /\ x \in fsq
  BY DEF WatchEvent, Collected
<1>2. fsq' \cup pending' = fsq \cup pending
  BY <1>1
<1>3. UNCHANGED <<dirty, excused, watch, todo>>
  BY DEF WatchEvent
<1>q. QED
  BY <1>1, <1>2, <1>3 DEF IInv, Shape, Phases, Accounted

LEMMA WatcherErrorAccounted ==
  ASSUME IInv, WatcherError
  PROVE  IInv'
<1>1. PICK lost \in SUBSET fsq : fsq' = fsq \ lost /\ excused' = excused \cup ReadersOf(lost)
  BY DEF WatcherError
<1>2. UNCHANGED <<dirty, watch, pending, todo>>
  BY DEF WatcherError
<1>3. Owed(fsq \cup pending) \subseteq Owed(fsq' \cup pending) \cup ReadersOf(lost)
  BY <1>1 DEF ReadersOf, Owed
<1>4. ReadersOf(lost) \subseteq Stage
  BY ReadersWithin DEF IInv, Shape
<1>q. QED
  BY <1>1, <1>2, <1>3, <1>4 DEF IInv, Shape, Phases, Accounted

LEMMA FireAccounted ==
  ASSUME IInv, Fire
  PROVE  IInv'
<1>1. todo' = Batch(pending) /\ pending' = {} /\ watch = "on" /\ todo = {}
  BY DEF Fire, Idle
<1>2. UNCHANGED <<dirty, excused, watch, fsq>>
  BY DEF Fire, buildVars
<1>3. Owed(fsq \cup pending) = Owed(fsq) \cup Owed(pending)
  BY OwedOfUnion
<1>4. Owed(fsq' \cup pending') = Owed(fsq)
  BY <1>1, <1>2 DEF Owed
<1>5. /\ Owed(pending) \subseteq todo' /\ todo' \subseteq Stage \cup {"clear"}
      /\ "gen" \in todo' => Stage \subseteq todo'
  BY <1>1, BatchDoes DEF IInv, Shape
<1>q. QED
  BY <1>1, <1>2, <1>3, <1>4, <1>5 DEF IInv, Shape, Phases, Accounted

LEMMA SucceedAccounted ==
  ASSUME IInv, NEW s \in Stage, Succeed(s)
  PROVE  IInv'
<1>1. PICK out \in Outputs(s) :
        /\ dirty' = (dirty \ {s}) \cup ReadersOf(out)
        /\ fsq' = IF watch = "on" THEN fsq \cup out ELSE fsq
  BY DEF Succeed
<1>2. s \in todo /\ todo' = todo \ {s} /\ excused' = excused \ {s}
  BY DEF Succeed, Turn
<1>3. UNCHANGED <<watch, pending>>
  BY DEF Succeed
<1>4. out = {} \/ (s = "gen" /\ out = Generated) \/ (s = "tailwind" /\ out = Scratch)
  <2>1. CASE s = "gen"
    BY <1>1, <2>1 DEF Outputs
  <2>2. CASE s = "tailwind"
    BY <1>1, <2>2 DEF Outputs
  <2>3. CASE s \notin {"gen", "tailwind"}
    BY <1>1, <2>3 DEF Outputs
  <2>q. QED
    BY <2>1, <2>2, <2>3
<1>5. out \subseteq Paths
  BY <1>4, FilesAssumption DEF Paths
<1>6. ReadersOf(out) \subseteq Stage
  BY <1>5, ReadersWithin
<1>7. Shape'
  BY <1>1, <1>2, <1>3, <1>5, <1>6 DEF IInv, Shape
<1>8. Phases'
  <2>1. s = "gen" \/ "gen" \notin todo
    BY DEF Succeed, Turn, Earlier, Stage
  <2>q. QED
    BY <1>2, <1>3, <2>1 DEF IInv, Phases
<1>9. ReadersOf(out) \subseteq todo'
  <2>1. CASE out = {}
    BY <2>1 DEF ReadersOf
  <2>2. CASE s = "gen" /\ out = Generated
    <3>1. Stage \subseteq todo
      BY <1>2, <2>2 DEF IInv, Phases
    <3>2. "gen" \notin ReadersOf(out)
      BY <2>2, LayoutAssumption DEF ReadersOf
    <3>q. QED
      BY <1>2, <1>6, <2>2, <3>1, <3>2
  <2>3. CASE s = "tailwind" /\ out = Scratch
    BY <2>3, LayoutAssumption DEF ReadersOf
  <2>q. QED
    BY <1>4, <2>1, <2>2, <2>3
<1>10. Owed(fsq \cup pending) \subseteq Owed(fsq' \cup pending)
  <2>1. fsq \subseteq fsq'
    BY <1>1
  <2>q. QED
    BY <2>1 DEF Owed
<1>q. QED
  BY <1>1, <1>2, <1>3, <1>7, <1>8, <1>9, <1>10 DEF IInv, Accounted

LEMMA FailAccounted ==
  ASSUME IInv, NEW s \in Stage, Fail(s)
  PROVE  IInv'
<1>1. excused' = excused \cup (todo \ {"clear"}) /\ todo' = {}
  BY DEF Fail
<1>2. UNCHANGED <<dirty, watch, fsq, pending>>
  BY DEF Fail
<1>3. "clear" \notin Stage
  BY DEF Stage
<1>q. QED
  BY <1>1, <1>2, <1>3 DEF IInv, Shape, Phases, Accounted

LEMMA ClearErrorAccounted ==
  ASSUME IInv, ClearError
  PROVE  IInv'
<1>1. todo = {"clear"} /\ todo' = {}
  BY DEF ClearError
<1>2. UNCHANGED <<dirty, excused, watch, fsq, pending>>
  BY DEF ClearError, buildVars
<1>3. "clear" \notin Stage
  BY DEF Stage
<1>q. QED
  BY <1>1, <1>2, <1>3 DEF IInv, Shape, Phases, Accounted

\* The watcher is set up when nothing is being built.
LEMMA WatchSetUpAccounted ==
  ASSUME IInv, Listen \/ StartWatch \/ WatchFails
  PROVE  IInv'
<1>1. UNCHANGED <<dirty, excused, fsq, pending, todo>>
  BY DEF Listen, StartWatch, WatchFails, buildVars
<1>2. todo = {}
  BY DEF Listen, StartWatch, WatchFails, IInv, Phases
<1>3. watch' \in {"unset", "on", "off"}
  BY DEF Listen, StartWatch, WatchFails
<1>q. QED
  BY <1>1, <1>2, <1>3 DEF IInv, Shape, Phases, Accounted

LEMMA OthersAccounted ==
  ASSUME IInv, UNCHANGED <<dirty, excused, watch, fsq, pending, todo>>
  PROVE  IInv'
BY DEF IInv, Shape, Phases, Accounted

-----------------------------------------------------------------------------

\* An output that is out of date is going to be rebuilt, unless a batch failed before it, or the
\* change had no event that orders it: lost, unseen in a new directory or before there was a
\* watcher, or of a stray file.  For any files, directories, pages and buffers.
THEOREM ChangesAccounted == Spec => []ChangeAccounted
<1>1. Init => IInv
  BY DEF Init, IInv, Shape, Phases, Accounted, Stage
<1>2. IInv /\ [Next]_vars => IInv'
  <2> SUFFICES ASSUME IInv, [Next]_vars PROVE IInv'
    OBVIOUS
  <2>1. CASE WatchStep
    <3>1. CASE Listen \/ StartWatch \/ WatchFails
      BY <3>1, WatchSetUpAccounted
    <3>2. CASE WatcherError
      BY <3>2, WatcherErrorAccounted
    <3>3. CASE Fire
      BY <3>3, FireAccounted
    <3>4. CASE ClearError
      BY <3>4, ClearErrorAccounted
    <3>5. CASE \E x \in Paths : WatchEvent(x)
      BY <3>5, WatchEventAccounted
    <3>6. CASE \E s \in Stage : Rebuild(s)
      BY <3>6, SucceedAccounted, FailAccounted DEF Rebuild
    <3>q. QED
      BY <2>1, <3>1, <3>2, <3>3, <3>4, <3>5, <3>6 DEF WatchStep
  <2>2. CASE (\E f \in Files : Edit(f)) \/ \E d \in NewDirs : MakeDir(d)
    BY <2>2, EditAccounted, MakeDirAccounted
  <2>3. CASE BrokerStep
    <3>1. UNCHANGED <<dirty, excused, watch, fsq, pending, todo>>
      BY <2>3 DEF BrokerStep, CopyClients, Send, DropEvent, SendOnClosed, buildVars, watchVars
    <3>q. QED
      BY <3>1, OthersAccounted
  <2>4. CASE StreamStep
    <3>1. UNCHANGED <<dirty, excused, watch, fsq, pending, todo>>
      BY <2>4 DEF StreamStep, Greet, Forward, Leave, Connect, buildVars, watchVars
    <3>q. QED
      BY <3>1, OthersAccounted
  <2>5. CASE \E p \in Pages : Navigate(p) \/ LoseConnection(p)
    <3>1. UNCHANGED <<dirty, excused, watch, fsq, pending, todo>>
      BY <2>5 DEF Navigate, LoseConnection, buildVars, watchVars
    <3>q. QED
      BY <3>1, OthersAccounted
  <2>6. CASE UNCHANGED vars
    <3>1. UNCHANGED <<dirty, excused, watch, fsq, pending, todo>>
      BY <2>6 DEF vars
    <3>q. QED
      BY <3>1, OthersAccounted
  <2>q. QED
    BY <2>1, <2>2, <2>3, <2>4, <2>5, <2>6 DEF Next, UserStep
<1>3. IInv => ChangeAccounted
  <2> SUFFICES ASSUME IInv PROVE ChangeAccounted
    OBVIOUS
  <2>1. Owed(fsq \cup pending) \subseteq Ordered(fsq \cup pending)
    BY DEF Owed, Ordered
  <2>q. QED
    BY <2>1 DEF IInv, Accounted, ChangeAccounted
<1>q. QED
  BY <1>1, <1>2, <1>3, PTL DEF Spec

-----------------------------------------------------------------------------
(***************************************************************************)
(* Types.                                                                   *)
(***************************************************************************)
BuildTypes ==
  /\ fault \in [Files -> Faults]
  /\ dir \in [NewDirs -> {"none", "made", "watched"}]
  /\ dirty \subseteq Stage /\ excused \subseteq Stage
  /\ watch \in {"building", "unset", "on", "off"}
  /\ fsq \subseteq Paths /\ pending \subseteq Paths
  /\ todo \subseteq Stage \cup {"clear"}
  /\ lastErr \in Errors \cup {"none"}
  /\ panicked \in BOOLEAN /\ moves \in 0..MaxMoves

\* An event that is being sent is an event, and is sent to the clients that were copied.
StreamTypes ==
  /\ pub \in Publication
  /\ ~pub.copied \/ pub.event = "nothing" => pub.to = {}
  /\ conn \in [Conns -> ConnRecord]
  /\ \A c \in Conns : Len(conn[c].queue) <= Buffer
  /\ page \in [Pages -> PageRecord]

LEMMA BuildTypesNext ==
  ASSUME BuildTypes, [Next]_vars
  PROVE  BuildTypes'
<1> USE DEF BuildTypes
<1>1. CASE UNCHANGED vars
  BY <1>1 DEF vars
<1>2. CASE \E f \in Files : Edit(f)
  <2>1. PICK f \in Files : Edit(f)
    BY <1>2
  <2>2. Readers[f] \subseteq Stage /\ f \in Paths
    BY FilesAssumption DEF Paths
  <2>3. fault' \in [Files -> Faults]
    BY <2>1 DEF Edit
  <2>4. moves' \in 0..MaxMoves
    BY <2>1, ClientsAssumption DEF Edit, Move
  <2>5. dirty' \subseteq Stage /\ excused' \subseteq Stage /\ fsq' \subseteq Paths
    BY <2>1, <2>2 DEF Edit
  <2> QED
    BY <2>1, <2>3, <2>4, <2>5 DEF Edit
<1>3. CASE Listen \/ StartWatch \/ WatchFails \/ ClearError
  BY <1>3 DEF Listen, StartWatch, WatchFails, ClearError, SetError, Errors, buildVars
<1>4. CASE WatcherError
  <2>1. PICK gone \in SUBSET fsq : fsq' = fsq \ gone /\ excused' = excused \cup ReadersOf(gone)
    BY <1>4 DEF WatcherError
  <2>2. ReadersOf(gone) \subseteq Stage
    BY ReadersWithin
  <2>3. moves' \in 0..MaxMoves
    BY <1>4, ClientsAssumption DEF WatcherError, Move
  <2> QED
    BY <1>4, <2>1, <2>2, <2>3 DEF WatcherError, SetError, Errors
<1>5. CASE Fire
  <2>1. Batch(pending) \subseteq Stage \cup {"clear"}
    BY ReadersWithin DEF Batch
  <2> QED
    BY <1>5, <2>1 DEF Fire, buildVars
<1>6. CASE \E x \in Paths : WatchEvent(x)
  <2>1. PICK x \in Paths : WatchEvent(x)
    BY <1>6
  <2>2. dir' \in [NewDirs -> {"none", "made", "watched"}]
    BY <2>1 DEF WatchEvent
  <2> QED
    BY <2>1, <2>2 DEF WatchEvent, Collected
<1>7. CASE \E s \in Stage : Succeed(s)
  <2>1. PICK s \in Stage : Succeed(s)
    BY <1>7
  <2>2. PICK out \in Outputs(s) :
          /\ dirty' = (dirty \ {s}) \cup ReadersOf(out)
          /\ fsq' = IF watch = "on" THEN fsq \cup out ELSE fsq
    BY <2>1 DEF Succeed
  <2>3. out \subseteq Paths
    <3>1. Outputs(s) \subseteq SUBSET Paths
      BY FilesAssumption DEF Outputs, Paths
    <3> QED
      BY <2>2, <3>1
  <2>4. ReadersOf(out) \subseteq Stage
    BY <2>3, ReadersWithin
  <2> QED
    BY <2>1, <2>2, <2>3, <2>4 DEF Succeed
<1>8. CASE \E s \in Stage : Fail(s)
  BY <1>8 DEF Fail, SetError, Errors
<1>9. CASE BrokerStep \/ StreamStep
  BY <1>9 DEF BrokerStep, CopyClients, Send, DropEvent, SendOnClosed, StreamStep, Greet, Forward, Leave,
              Connect, buildVars, watchVars
<1>10. CASE \E p \in Pages : Navigate(p) \/ LoseConnection(p)
  BY <1>10, ClientsAssumption DEF Navigate, LoseConnection, Move, buildVars, watchVars
<1>11. CASE \E d \in NewDirs : MakeDir(d)
  <2>1. PICK d \in NewDirs : MakeDir(d)
    BY <1>11
  <2>2. dir' \in [NewDirs -> {"none", "made", "watched"}] /\ fsq' \subseteq Paths
    BY <2>1 DEF MakeDir, Paths
  <2>3. moves' \in 0..MaxMoves
    BY <2>1, ClientsAssumption DEF MakeDir, Move
  <2> QED
    BY <2>1, <2>2, <2>3 DEF MakeDir
<1> QED
  BY <1>1, <1>2, <1>3, <1>4, <1>5, <1>6, <1>7, <1>8, <1>9, <1>10, <1>11
  DEF Next, WatchStep, Rebuild, UserStep

\* What the watch goroutine says: an error or that all is well, or that an output is new.
LEMMA WatchSays ==
  ASSUME BuildTypes, StreamTypes, WatchStep
  PROVE  /\ conn' = conn
         /\ \/ UNCHANGED <<pub, page, lastErr>>
            \/ \E e \in Status :
                 /\ Announce(e) /\ page' = page
                 /\ lastErr' = IF e = "ok" THEN "none" ELSE e
            \/ Announce("css") /\ UNCHANGED <<page, lastErr>>
            \/ /\ Announce("reload") /\ UNCHANGED lastErr
               /\ page' = [p \in Pages |-> [page[p] EXCEPT !.bundle = "owed"]]
<1>1. CASE Listen \/ StartWatch \/ Fire \/ \E x \in Paths : WatchEvent(x)
  BY <1>1 DEF Listen, StartWatch, Fire, WatchEvent
<1>2. CASE WatchFails \/ WatcherError \/ \E s \in Stage : Fail(s)
  <2>1. PICK e \in Errors : SetError(e)
    BY <1>2 DEF WatchFails, WatcherError, Fail, Errors
  <2>2. e \in Status /\ e # "ok"
    BY DEF Status, Errors, Stage
  <2>3. UNCHANGED <<conn, page>>
    BY <1>2 DEF WatchFails, WatcherError, Fail
  <2> QED
    BY <2>1, <2>2, <2>3 DEF SetError
<1>3. CASE ClearError
  BY <1>3 DEF ClearError, Status
<1>4. CASE \E s \in Stage : Succeed(s)
  BY <1>4 DEF Succeed, Built
<1> QED
  BY <1>1, <1>2, <1>3, <1>4 DEF WatchStep, Rebuild

\* Sending or dropping an event takes the client off the list.
LEMMA SentClient ==
  ASSUME StreamTypes, NEW c \in pub.to
  PROVE  /\ SentTo(c) \in Publication /\ pub.copied /\ pub.event \in Events
         /\ SentTo(c).to = pub.to \ {c}
         /\ SentTo(c) # NoPub => SentTo(c).event = pub.event /\ SentTo(c).copied
         /\ SentTo(c) = NoPub => pub.to = {c}
<1>1. pub \in Publication /\ pub.copied /\ pub.event \in Events
  BY DEF StreamTypes, Publication
<1>2. CASE pub.to = {c}
  <2>1. SentTo(c) = NoPub
    BY <1>2 DEF SentTo
  <2>2. NoPub \in Publication /\ NoPub.to = {}
    BY DEF NoPub, Publication
  <2>3. SentTo(c) \in Publication /\ SentTo(c).to = pub.to \ {c}
    BY <1>2, <2>1, <2>2
  <2> QED
    BY <1>1, <1>2, <2>1, <2>3
<1>3. CASE pub.to # {c}
  <2> DEFINE x == [pub EXCEPT !.to = @ \ {c}]
  <2>1. x \in Publication /\ x.to = pub.to \ {c} /\ x.event = pub.event /\ x.copied
    BY <1>1 DEF Publication
  <2>2. x # NoPub
    BY <1>1, <2>1 DEF NoPub
  <2> QED
    BY <1>1, <1>3, <2>1, <2>2 DEF SentTo
<1> QED
  BY <1>2, <1>3

\* A stream with an event more.
LEMMA SentStream ==
  ASSUME StreamTypes, NEW c \in Conns, Send(c)
  PROVE  /\ conn' \in [Conns -> ConnRecord]
         /\ \A d \in Conns \ {c} : conn'[d] = conn[d]
         /\ conn'[c].state = conn[c].state /\ conn'[c].page = conn[c].page /\ conn'[c].gone = conn[c].gone
         /\ conn'[c].queue = Append(conn[c].queue, pub.event)
         /\ conn'[c].lost = (conn[c].lost /\ pub.event \notin Status)
         /\ Len(conn'[c].queue) <= Buffer
<1> DEFINE l == conn[c].lost /\ pub.event \notin Status
           q == Append(conn[c].queue, pub.event)
           x == [conn[c] EXCEPT !.queue = q, !.lost = l]
<1>1. conn \in [Conns -> ConnRecord] /\ conn[c] \in ConnRecord /\ conn[c].queue \in Seq(Events)
  BY DEF StreamTypes, ConnRecord
<1>2. pub.event \in Events
  BY SentClient DEF Send
<1>3. q \in Seq(Events) /\ Len(q) = Len(conn[c].queue) + 1 /\ l \in BOOLEAN
  BY <1>1, <1>2
<1>4. Len(q) <= Buffer
  BY <1>1, <1>3, ClientsAssumption DEF Send, Room
<1>5. conn' = [conn EXCEPT ![c] = x]
  BY <1>1 DEF Send, ConnRecord
<1> HIDE DEF l, q
<1>6. /\ x \in ConnRecord /\ x.state = conn[c].state /\ x.page = conn[c].page /\ x.gone = conn[c].gone
      /\ x.queue = q /\ x.lost = l
  BY <1>1, <1>3 DEF ConnRecord
<1> HIDE DEF x
<1>7. conn'[c] = x /\ conn' \in [Conns -> ConnRecord] /\ \A d \in Conns \ {c} : conn'[d] = conn[d]
  BY <1>1, <1>5, <1>6
<1> QED
  BY <1>4, <1>6, <1>7 DEF q, l

LEMMA DroppedStream ==
  ASSUME StreamTypes, NEW c \in Conns, DropEvent(c)
  PROVE  /\ conn' \in [Conns -> ConnRecord]
         /\ \A d \in Conns \ {c} : conn'[d] = conn[d]
         /\ conn'[c].state = conn[c].state /\ conn'[c].page = conn[c].page /\ conn'[c].gone = conn[c].gone
         /\ conn'[c].queue = conn[c].queue
         /\ conn'[c].lost = (conn[c].lost \/ pub.event \in Status)
<1> DEFINE l == conn[c].lost \/ pub.event \in Status
           x == [conn[c] EXCEPT !.lost = l]
<1>1. conn \in [Conns -> ConnRecord] /\ conn[c] \in ConnRecord
  BY DEF StreamTypes
<1>2. conn' = [conn EXCEPT ![c] = x] /\ l \in BOOLEAN
  BY <1>1 DEF DropEvent, ConnRecord
<1> HIDE DEF l
<1>3. /\ x \in ConnRecord /\ x.state = conn[c].state /\ x.page = conn[c].page /\ x.gone = conn[c].gone
      /\ x.queue = conn[c].queue /\ x.lost = l
  BY <1>1, <1>2 DEF ConnRecord
<1> HIDE DEF x
<1>4. conn'[c] = x /\ conn' \in [Conns -> ConnRecord] /\ \A d \in Conns \ {c} : conn'[d] = conn[d]
  BY <1>1, <1>2, <1>3
<1> QED
  BY <1>3, <1>4 DEF l

LEMMA ForwardedStream ==
  ASSUME StreamTypes, NEW c \in Conns, Forward(c)
  PROVE  /\ conn[c].queue \in Seq(Events) /\ conn[c].queue # <<>> /\ Head(conn[c].queue) \in Events
         /\ conn' \in [Conns -> ConnRecord]
         /\ \A d \in Conns \ {c} : conn'[d] = conn[d]
         /\ conn'[c].state = conn[c].state /\ conn'[c].page = conn[c].page /\ conn'[c].lost = conn[c].lost
         /\ conn'[c].queue = Tail(conn[c].queue)
         /\ conn'[c].gone = (conn[c].gone \/ Head(conn[c].queue) = "reload")
         /\ Len(conn'[c].queue) <= Buffer
<1> DEFINE e == Head(conn[c].queue)
           g == conn[c].gone \/ e = "reload"
           q == Tail(conn[c].queue)
           x == [conn[c] EXCEPT !.queue = q, !.gone = g]
<1>1. /\ conn \in [Conns -> ConnRecord] /\ conn[c] \in ConnRecord /\ conn[c].queue \in Seq(Events)
      /\ conn[c].queue # <<>> /\ Len(conn[c].queue) <= Buffer
  BY DEF StreamTypes, ConnRecord, Forward
<1>2. q \in Seq(Events) /\ Len(q) <= Buffer /\ g \in BOOLEAN /\ e \in Events
  BY <1>1, ClientsAssumption
<1>3. conn' = [conn EXCEPT ![c] = x]
  BY <1>1 DEF Forward, ConnRecord
<1> HIDE DEF g, q, e
<1>4. /\ x \in ConnRecord /\ x.state = conn[c].state /\ x.page = conn[c].page /\ x.gone = g
      /\ x.queue = q /\ x.lost = conn[c].lost
  BY <1>1, <1>2 DEF ConnRecord
<1> HIDE DEF x
<1>5. conn'[c] = x /\ conn' \in [Conns -> ConnRecord] /\ \A d \in Conns \ {c} : conn'[d] = conn[d]
  BY <1>1, <1>3, <1>4
<1> QED
  BY <1>1, <1>2, <1>4, <1>5 DEF g, q, e

\* The streams that a page opens, that greets it, and that leaves; and those it hangs up.
LEMMA OneStreamChanges ==
  ASSUME StreamTypes, NEW c \in Conns, Greet(c) \/ Leave(c) \/ \E p \in Pages : Connect(p, c)
  PROVE  /\ conn' \in [Conns -> ConnRecord]
         /\ \A d \in Conns \ {c} : conn'[d] = conn[d]
         /\ Greet(c) => /\ conn'[c].state = "open" /\ conn'[c].page = conn[c].page
                        /\ conn'[c].gone = conn[c].gone /\ conn'[c].lost = conn[c].lost
                        /\ conn'[c].queue = conn[c].queue
         /\ Leave(c) => conn'[c] = FreeConn
         /\ \A p \in Pages : Connect(p, c) =>
              /\ conn'[c].state = "subscribed" /\ conn'[c].page = p /\ ~conn'[c].gone
              /\ conn'[c].queue = <<>>
         /\ Len(conn'[c].queue) <= Buffer
<1>0. conn \in [Conns -> ConnRecord] /\ conn[c] \in ConnRecord /\ Len(conn[c].queue) <= Buffer
  BY DEF StreamTypes
<1>f. FreeConn \in ConnRecord /\ FreeConn.queue = <<>> /\ Len(<<>>) <= Buffer /\ FreeConn.state = "free"
  BY ClientsAssumption DEF FreeConn, ConnRecord
<1>1. CASE Greet(c)
  <2> DEFINE x == [conn[c] EXCEPT !.state = "open"]
  <2>1. conn' = [conn EXCEPT ![c] = x] /\ conn[c].state = "subscribed"
    BY <1>1 DEF Greet
  <2>2. /\ x \in ConnRecord /\ x.state = "open" /\ x.page = conn[c].page /\ x.gone = conn[c].gone
        /\ x.queue = conn[c].queue /\ x.lost = conn[c].lost
    BY <1>0 DEF ConnRecord
  <2> HIDE DEF x
  <2>3. conn'[c] = x /\ conn' \in [Conns -> ConnRecord] /\ \A d \in Conns \ {c} : conn'[d] = conn[d]
    BY <1>0, <2>1, <2>2
  <2>4. ~Leave(c) /\ \A p \in Pages : ~Connect(p, c)
    BY <2>1 DEF Leave, Connect
  <2> QED
    BY <1>0, <2>2, <2>3, <2>4
<1>2. CASE Leave(c)
  <2>1. conn' = [conn EXCEPT ![c] = FreeConn] /\ conn[c].state = "open"
    BY <1>2 DEF Leave
  <2>2. ~Greet(c) /\ \A p \in Pages : ~Connect(p, c)
    BY <2>1 DEF Greet, Connect
  <2> QED
    BY <1>0, <1>f, <2>1, <2>2
<1>3. CASE \E p \in Pages : Connect(p, c)
  <2>1. PICK p \in Pages : Connect(p, c)
    BY <1>3
  <2> DEFINE x == [FreeConn EXCEPT !.state = "subscribed", !.page = p]
  <2>2. conn' = [conn EXCEPT ![c] = x] /\ conn[c].state = "free"
    BY <2>1 DEF Connect
  <2>3. x \in ConnRecord /\ x.state = "subscribed" /\ x.page = p /\ ~x.gone /\ x.queue = <<>>
    BY <1>f DEF ConnRecord, FreeConn
  <2> HIDE DEF x
  <2>4. conn'[c] = x /\ conn' \in [Conns -> ConnRecord] /\ \A d \in Conns \ {c} : conn'[d] = conn[d]
    BY <1>0, <2>2, <2>3
  <2>5. ~Greet(c) /\ ~Leave(c)
    BY <2>2 DEF Greet, Leave
  <2>6. ASSUME NEW r \in Pages, Connect(r, c)
        PROVE  conn'[c].page = r
    BY <1>0, <1>f, <2>6 DEF Connect, ConnRecord, FreeConn
  <2> QED
    BY <1>f, <2>3, <2>4, <2>5, <2>6
<1> QED
  BY <1>1, <1>2, <1>3

LEMMA HungUp ==
  ASSUME StreamTypes, NEW p \in Pages, HangUp(p)
  PROVE  /\ conn' \in [Conns -> ConnRecord]
         /\ \A c \in Conns :
              /\ conn'[c].state = conn[c].state /\ conn'[c].page = conn[c].page
              /\ conn'[c].queue = conn[c].queue /\ conn'[c].lost = conn[c].lost
              /\ conn'[c].gone = (conn[c].gone \/ Live(p, c))
<1> SUFFICES ASSUME NEW c \in Conns
             PROVE  /\ conn'[c] \in ConnRecord
                    /\ conn'[c].state = conn[c].state /\ conn'[c].page = conn[c].page
                    /\ conn'[c].queue = conn[c].queue /\ conn'[c].lost = conn[c].lost
                    /\ conn'[c].gone = (conn[c].gone \/ Live(p, c))
  BY DEF HangUp
<1>1. conn[c] \in ConnRecord /\ conn'[c] = IF Live(p, c) THEN [conn[c] EXCEPT !.gone = TRUE] ELSE conn[c]
  BY DEF HangUp, StreamTypes
<1>2. CASE Live(p, c)
  <2> DEFINE x == [conn[c] EXCEPT !.gone = TRUE]
  <2>1. /\ x \in ConnRecord /\ x.state = conn[c].state /\ x.page = conn[c].page
        /\ x.queue = conn[c].queue /\ x.lost = conn[c].lost /\ x.gone
    BY <1>1 DEF ConnRecord
  <2> HIDE DEF x
  <2>2. x.gone = (conn[c].gone \/ Live(p, c))
    BY <1>2, <2>1 DEF ConnRecord
  <2>3. conn'[c] = x
    BY <1>1, <1>2 DEF x
  <2> QED
    BY <2>1, <2>2, <2>3
<1>3. CASE ~Live(p, c)
  <2>1. conn'[c] = conn[c] /\ conn[c].gone \in BOOLEAN
    BY <1>1, <1>3 DEF ConnRecord
  <2> QED
    BY <1>1, <1>3, <2>1
<1> QED
  BY <1>2, <1>3

\* What becomes of the pages.
LEMMA MissedPages ==
  ASSUME StreamTypes, NEW P \in SUBSET Pages
  PROVE  /\ Missed(P) \in [Pages -> PageRecord]
         /\ \A p \in Pages : /\ Missed(P)[p].overlay = page[p].overlay
                             /\ Missed(P)[p].bundle = "owed" <=> page[p].bundle = "owed" /\ p \notin P
<1> SUFFICES ASSUME NEW p \in Pages
             PROVE  /\ Missed(P)[p] \in PageRecord
                    /\ Missed(P)[p].overlay = page[p].overlay
                    /\ Missed(P)[p].bundle = "owed" <=> page[p].bundle = "owed" /\ p \notin P
  BY DEF Missed
<1>1. page[p] \in PageRecord
  BY DEF StreamTypes
<1> QED
  BY <1>1 DEF Missed, PageRecord

LEMMA ReceivedPage ==
  ASSUME NEW pg \in PageRecord, NEW e \in Events
  PROVE  /\ Received(e, pg) \in PageRecord
         /\ e # "reload" => Received(e, pg).bundle = pg.bundle
         /\ e = "reload" => Received(e, pg).bundle = "current"
         /\ e \in Status => Received(e, pg).overlay = IF e = "ok" THEN "none" ELSE e
         /\ e \notin Status /\ e # "reload" => Received(e, pg).overlay = pg.overlay
<1>0. ASSUME NEW o \in Errors \cup {"none"}
      PROVE  /\ [pg EXCEPT !.overlay = o] \in PageRecord
             /\ [pg EXCEPT !.overlay = o].overlay = o /\ [pg EXCEPT !.overlay = o].bundle = pg.bundle
  BY DEF PageRecord
<1>1. CASE e = "reload"
  BY <1>1 DEF Received, LoadedPage, PageRecord, Status, Errors, Stage
<1>2. CASE e = "ok"
  <2>1. Received(e, pg) = [pg EXCEPT !.overlay = "none"]
    BY <1>2 DEF Received, Errors, Stage
  <2> QED
    BY <1>0, <1>2, <2>1 DEF Status
<1>3. CASE e \in Errors
  <2>1. e # "ok" /\ e # "reload"
    BY <1>3 DEF Errors, Stage
  <2>2. Received(e, pg) = [pg EXCEPT !.overlay = e]
    BY <1>3, <2>1 DEF Received
  <2> QED
    BY <1>0, <1>3, <2>1, <2>2 DEF Status
<1>4. CASE e = "css"
  <2>1. e \notin Status
    BY <1>4 DEF Status, Errors, Stage
  <2>2. Received(e, pg) = pg
    BY <1>4, <2>1 DEF Received, Status, Errors, Stage
  <2> QED
    BY <1>4, <2>1, <2>2
<1> QED
  BY <1>1, <1>2, <1>3, <1>4 DEF Events, Status

LEMMA StreamTypesNext ==
  ASSUME BuildTypes, StreamTypes, [Next]_vars
  PROVE  StreamTypes'
<1>0. \A e \in Events : LET n == [event |-> e, copied |-> FALSE, to |-> {}] IN
        n \in Publication /\ n.event = e /\ n.to = {}
  BY DEF Publication
<1>1. CASE WatchStep
  <2>1. conn' = conn
    BY <1>1, WatchSays
  <2>2. CASE UNCHANGED <<pub, page, lastErr>>
    BY <2>1, <2>2 DEF StreamTypes
  <2>3. CASE \E e \in Status \cup {"css", "reload"} : Announce(e)
    <3>1. PICK e \in Events : pub' = [event |-> e, copied |-> FALSE, to |-> {}]
      BY <2>3 DEF Announce, Events
    <3>2. pub' \in Publication /\ pub'.to = {}
      BY <1>0, <3>1
    <3>3. page' \in [Pages -> PageRecord]
      <4>1. CASE page' = page
        BY <4>1 DEF StreamTypes
      <4>2. CASE page' = [p \in Pages |-> [page[p] EXCEPT !.bundle = "owed"]]
        <5>1. \A p \in Pages : [page[p] EXCEPT !.bundle = "owed"] \in PageRecord
          BY DEF StreamTypes, PageRecord
        <5> QED
          BY <4>2, <5>1
      <4>3. page' = page \/ page' = [p \in Pages |-> [page[p] EXCEPT !.bundle = "owed"]]
        BY <1>1, WatchSays
      <4> QED
        BY <4>1, <4>2, <4>3
    <3> QED
      BY <2>1, <3>2, <3>3 DEF StreamTypes
  <2> QED
    BY <1>1, <2>2, <2>3, WatchSays
<1>2. CASE CopyClients
  <2>1. conn' = conn /\ pub # NoPub /\ ~pub.copied
    BY <1>2 DEF CopyClients
  <2>2. page' \in [Pages -> PageRecord]
    BY <1>2, MissedPages DEF CopyClients, StreamTypes
  <2>3. NoPub \in Publication /\ NoPub.to = {}
    BY DEF NoPub, Publication
  <2>4. CASE Clients = {}
    BY <1>2, <2>1, <2>2, <2>3, <2>4 DEF CopyClients, StreamTypes
  <2>5. CASE Clients # {}
    <3> DEFINE x == [pub EXCEPT !.copied = TRUE, !.to = Clients]
    <3>1. x \in Publication /\ x.copied /\ x.event = pub.event
      BY DEF StreamTypes, Publication, Clients
    <3>2. pub' = x
      BY <1>2, <2>5 DEF CopyClients
    <3>3. pub.event # "nothing"
      <4> SUFFICES ASSUME pub.event = "nothing"
                   PROVE  FALSE
        OBVIOUS
      <4>1. pub.to = {} /\ pub.copied = FALSE /\ pub \in Publication
        BY <2>1 DEF StreamTypes, Publication
      <4>2. pub = [event |-> pub.event, copied |-> pub.copied, to |-> pub.to]
        BY <4>1 DEF Publication
      <4> QED
        BY <2>1, <4>1, <4>2 DEF NoPub
    <3> HIDE DEF x
    <3> QED
      BY <2>1, <2>2, <3>1, <3>2, <3>3 DEF StreamTypes
  <2> QED
    BY <2>4, <2>5
<1>3. CASE \E c \in Conns : Send(c) \/ DropEvent(c)
  <2>1. PICK c \in Conns : Send(c) \/ DropEvent(c)
    BY <1>3
  <2>2. pub' = SentTo(c) /\ c \in pub.to
    BY <2>1 DEF Send, DropEvent
  <2>3. /\ pub' \in Publication
        /\ ~pub'.copied \/ pub'.event = "nothing" => pub'.to = {}
    BY <2>2, SentClient DEF NoPub, StreamTypes
  <2>4. /\ conn' \in [Conns -> ConnRecord]
        /\ \A d \in Conns : Len(conn'[d].queue) <= Buffer
    BY <2>1, SentStream, DroppedStream DEF StreamTypes
  <2>5. page' \in [Pages -> PageRecord]
    BY <2>1, MissedPages DEF Send, DropEvent, StreamTypes
  <2> QED
    BY <2>3, <2>4, <2>5 DEF StreamTypes
<1>4. CASE \E c \in Conns : SendOnClosed(c)
  BY <1>4 DEF SendOnClosed, StreamTypes
<1>5. CASE \E c \in Conns : Forward(c)
  <2>1. PICK c \in Conns : Forward(c)
    BY <1>5
  <2>2. /\ conn' \in [Conns -> ConnRecord]
        /\ \A d \in Conns : Len(conn'[d].queue) <= Buffer
    BY <2>1, ForwardedStream DEF StreamTypes
  <2>3. \A p \in Pages : Received(Head(conn[c].queue), page[p]) \in PageRecord
    BY <2>1, ForwardedStream, ReceivedPage DEF StreamTypes
  <2>4. page' \in [Pages -> PageRecord] /\ pub' = pub
    BY <2>1, <2>3 DEF Forward, StreamTypes
  <2> QED
    BY <2>2, <2>4 DEF StreamTypes
<1>6. CASE \E c \in Conns : Greet(c) \/ Leave(c) \/ \E p \in Pages : Connect(p, c)
  <2>1. PICK c \in Conns : Greet(c) \/ Leave(c) \/ \E p \in Pages : Connect(p, c)
    BY <1>6
  <2>2. /\ conn' \in [Conns -> ConnRecord]
        /\ \A d \in Conns : Len(conn'[d].queue) <= Buffer
    BY <2>1, OneStreamChanges DEF StreamTypes
  <2>3. \A p \in Pages : [page[p] EXCEPT !.overlay = lastErr] \in PageRecord
    BY DEF StreamTypes, BuildTypes, PageRecord
  <2>4. page' \in [Pages -> PageRecord] /\ pub' = pub
    BY <2>1, <2>3 DEF Greet, Greeting, Leave, Connect, StreamTypes
  <2> QED
    BY <2>2, <2>4 DEF StreamTypes
<1>7. CASE \E p \in Pages : Navigate(p) \/ LoseConnection(p)
  <2>1. PICK p \in Pages : Navigate(p) \/ LoseConnection(p)
    BY <1>7
  <2>2. HangUp(p) /\ pub' = pub
    BY <2>1 DEF Navigate, LoseConnection
  <2>3. /\ conn' \in [Conns -> ConnRecord]
        /\ \A d \in Conns : Len(conn'[d].queue) <= Buffer
    BY <2>2, HungUp DEF StreamTypes
  <2>4. page' \in [Pages -> PageRecord]
    <3>1. CASE Navigate(p)
      BY <3>1 DEF Navigate, StreamTypes, LoadedPage, PageRecord
    <3>2. CASE LoseConnection(p)
      <4>1. Missed({p}) \in [Pages -> PageRecord]
        BY MissedPages
      <4>2. [Missed({p})[p] EXCEPT !.overlay = "lost"] \in PageRecord
        BY <4>1 DEF PageRecord
      <4> QED
        BY <3>2, <4>1, <4>2 DEF LoseConnection
    <3> QED
      BY <2>1, <3>1, <3>2
  <2> QED
    BY <2>2, <2>3, <2>4 DEF StreamTypes
<1>8. CASE (\E f \in Files : Edit(f)) \/ (\E d \in NewDirs : MakeDir(d)) \/ UNCHANGED vars
  BY <1>8 DEF Edit, MakeDir, vars, StreamTypes
<1> QED
  BY <1>1, <1>2, <1>3, <1>4, <1>5, <1>6, <1>7, <1>8 DEF Next, BrokerStep, StreamStep, UserStep

LEMMA TypesInit ==
  Init => BuildTypes /\ StreamTypes
<1> SUFFICES ASSUME Init
             PROVE  BuildTypes /\ StreamTypes
  OBVIOUS
<1>1. BuildTypes
  <2>1. moves \in 0..MaxMoves
    BY ClientsAssumption DEF Init
  <2>2. fault \in [Files -> Faults]
    BY DEF Init
  <2>3. /\ dir \in [NewDirs -> {"none", "made", "watched"}]
        /\ dirty \subseteq Stage /\ excused \subseteq Stage /\ fsq \subseteq Paths /\ pending \subseteq Paths
    BY DEF Init
  <2>4. /\ watch \in {"building", "unset", "on", "off"} /\ lastErr \in Errors \cup {"none"}
        /\ panicked \in BOOLEAN /\ todo \subseteq Stage \cup {"clear"}
    BY DEF Init
  <2> QED
    BY <2>1, <2>2, <2>3, <2>4 DEF BuildTypes
<1>2. NoPub \in Publication /\ NoPub.to = {}
  BY DEF NoPub, Publication
<1>3. FreeConn \in ConnRecord /\ Len(FreeConn.queue) <= Buffer
  BY ClientsAssumption DEF FreeConn, ConnRecord
<1>4. LoadedPage \in PageRecord
  BY DEF LoadedPage, PageRecord
<1> QED
  BY <1>1, <1>2, <1>3, <1>4 DEF Init, StreamTypes

(***************************************************************************)
(* Every variable keeps its type, and no client's channel holds more than   *)
(* its buffer.                                                              *)
(***************************************************************************)
THEOREM TypeCorrect == Spec => []TypeOK
<1>1. BuildTypes /\ StreamTypes => TypeOK
  BY DEF BuildTypes, StreamTypes, TypeOK
<1> QED
  BY <1>1, TypesInit, BuildTypesNext, StreamTypesNext, PTL DEF Spec

-----------------------------------------------------------------------------
(***************************************************************************)
(* A reload that a page is owed.                                            *)
(***************************************************************************)
OnItsWay(p) ==
  \/ pub.event = "reload" /\ (~pub.copied \/ \E c \in pub.to : Live(p, c))
  \/ \E c \in Conns : Live(p, c) /\ Contains(conn[c].queue, "reload")

LEMMA ContainsAppend ==
  ASSUME NEW q \in Seq(Events), NEW x \in Events, NEW e
  PROVE  Contains(q, e) \/ x = e => Contains(Append(q, x), e)
<1>1. Len(Append(q, x)) = Len(q) + 1 /\ Len(q) \in Nat
  BY DEF Events
<1>2. ASSUME x = e
      PROVE  Append(q, x)[Len(q) + 1] = e
  BY <1>2
<1>3. \A i \in 1..Len(q) : i \in 1..(Len(q) + 1) /\ Append(q, x)[i] = q[i]
  BY <1>1
<1> QED
  BY <1>1, <1>2, <1>3 DEF Contains

LEMMA ContainsTail ==
  ASSUME NEW q \in Seq(Events), q # <<>>, NEW e, e # Head(q), Contains(q, e)
  PROVE  Contains(Tail(q), e)
<1>1. PICK i \in 1..Len(q) : q[i] = e
  BY DEF Contains
<1>2. i # 1 /\ Len(q) \in Nat
  BY <1>1
<1>3. i - 1 \in 1..Len(Tail(q)) /\ Tail(q)[i - 1] = q[i]
  BY <1>1, <1>2
<1> QED
  BY <1>1, <1>3 DEF Contains

LEMMA OwedWatch ==
  ASSUME BuildTypes, StreamTypes, ReloadOnItsWay, WatchStep, watch = "unset" => pub = NoPub
  PROVE  ReloadOnItsWay'
<1>1. conn' = conn /\ (pub = NoPub \/ UNCHANGED <<pub, page>>)
  BY DEF WatchStep, Listen, StartWatch, WatchFails, WatcherError, Fire, ClearError, WatchEvent, Rebuild,
         Succeed, Fail, Turn, Idle, Built
<1>3. CASE UNCHANGED <<pub, page>>
  BY <1>1, <1>3 DEF ReloadOnItsWay, Live
<1>4. CASE pub = NoPub /\ page' = page
  BY <1>1, <1>4 DEF ReloadOnItsWay, Live, NoPub
<1>5. CASE Announce("reload")
  <2>1. pub'.event = "reload" /\ ~pub'.copied
    BY <1>5 DEF Announce
  <2> QED
    BY <2>1 DEF ReloadOnItsWay
<1> QED
  BY <1>1, <1>3, <1>4, <1>5, WatchSays

LEMMA OwedBroker ==
  ASSUME StreamTypes, ReloadOnItsWay, BrokerStep
  PROVE  ReloadOnItsWay'
<1> SUFFICES ASSUME NEW p \in Pages, page'[p].bundle = "owed"
             PROVE  OnItsWay(p)'
  BY DEF ReloadOnItsWay, OnItsWay
<1> USE DEF OnItsWay
<1>o. page[p].bundle = "owed" => OnItsWay(p)
  BY DEF ReloadOnItsWay
<1>1. CASE CopyClients
  <2>1. conn' = conn /\ ~pub.copied
    BY <1>1 DEF CopyClients
  <2>2. CASE pub.event # "reload"
    <3>1. page' = page
      BY <1>1, <2>2 DEF CopyClients
    <3> QED
      BY <1>o, <2>1, <2>2, <3>1 DEF Live
  <2>3. CASE pub.event = "reload"
    <3>1. page[p].bundle = "owed" /\ Connected(p)
      BY <1>1, <2>3, MissedPages DEF CopyClients
    <3>2. PICK c \in Conns : Live(p, c)
      BY <3>1 DEF Connected
    <3>3. pub' = [pub EXCEPT !.copied = TRUE, !.to = Clients] /\ c \in Clients
      BY <1>1, <3>2 DEF CopyClients, Clients, Live
    <3>4. pub'.event = "reload" /\ pub'.to = Clients
      BY <2>3, <3>3 DEF StreamTypes, Publication
    <3> QED
      BY <2>1, <3>2, <3>3, <3>4 DEF Live
  <2> QED
    BY <2>2, <2>3
<1>2. ASSUME NEW c \in Conns, Send(c)
      PROVE  OnItsWay(p)'
  <2>1. /\ page' = page /\ c \in pub.to /\ pub' = SentTo(c) /\ pub.copied /\ pub.event \in Events
    BY <1>2, SentClient DEF Send
  <2>4. conn[c].queue \in Seq(Events) /\ conn'[c].queue = Append(conn[c].queue, pub.event)
    BY <1>2, SentStream DEF StreamTypes, ConnRecord
  <2>5. \A d \in Conns : (Live(p, d)' <=> Live(p, d)) /\ (d # c => conn'[d].queue = conn[d].queue)
    BY <1>2, SentStream DEF Live
  <2>2. CASE \E d \in Conns : Live(p, d) /\ Contains(conn[d].queue, "reload")
    <3>1. PICK d \in Conns : Live(p, d) /\ Contains(conn[d].queue, "reload")
      BY <2>2
    <3>2. Contains(conn'[d].queue, "reload")
      BY <2>1, <2>4, <2>5, <3>1, ContainsAppend
    <3> QED
      BY <2>5, <3>1, <3>2
  <2>3. CASE pub.event = "reload" /\ \E d \in pub.to : Live(p, d)
    <3>1. PICK d \in pub.to : Live(p, d)
      BY <2>3
    <3>2. CASE d = c
      <4>1. Contains(conn'[c].queue, "reload")
        BY <2>1, <2>3, <2>4, ContainsAppend
      <4> QED
        BY <2>5, <3>1, <3>2, <4>1
    <3>3. CASE d # c
      <4>1. d \in pub'.to /\ pub'.event = "reload" /\ d \in Conns
        BY <2>1, <2>3, <3>1, <3>3, SentClient DEF NoPub, StreamTypes, Publication
      <4> QED
        BY <2>5, <3>1, <4>1
    <3> QED
      BY <3>2, <3>3
  <2> QED
    BY <1>o, <2>1, <2>2, <2>3
<1>3. ASSUME NEW c \in Conns, DropEvent(c)
      PROVE  OnItsWay(p)'
  <2>1. /\ c \in pub.to /\ pub' = SentTo(c)
        /\ \A d \in Conns : Live(p, d)' = Live(p, d) /\ conn'[d].queue = conn[d].queue
        /\ pub.copied /\ pub.event \in Events
    BY <1>3, DroppedStream, SentClient DEF DropEvent, Live
  <2>2. page[p].bundle = "owed" /\ (pub.event = "reload" => ~Live(p, c))
    BY <1>3, MissedPages DEF DropEvent
  <2>3. CASE \E d \in Conns : Live(p, d) /\ Contains(conn[d].queue, "reload")
    BY <2>1, <2>3
  <2>4. CASE pub.event = "reload" /\ \E d \in pub.to : Live(p, d)
    <3>1. PICK d \in pub.to : Live(p, d)
      BY <2>4
    <3>2. d # c
      BY <2>2, <2>4, <3>1
    <3>3. d \in pub'.to /\ pub'.event = "reload" /\ d \in Conns
      BY <2>1, <2>4, <3>1, <3>2, SentClient DEF NoPub, StreamTypes, Publication
    <3> QED
      BY <2>1, <3>1, <3>3
  <2> QED
    BY <1>o, <2>1, <2>2, <2>3, <2>4
<1>4. CASE \E c \in Conns : SendOnClosed(c)
  BY <1>o, <1>4 DEF SendOnClosed, Live
<1> QED
  BY <1>1, <1>2, <1>3, <1>4 DEF BrokerStep

LEMMA OwedStreams ==
  ASSUME StreamTypes, ReloadOnItsWay,
         StreamStep \/ \E p \in Pages : Navigate(p) \/ LoseConnection(p)
  PROVE  ReloadOnItsWay'
<1> SUFFICES ASSUME NEW p \in Pages, page'[p].bundle = "owed"
             PROVE  OnItsWay(p)'
  BY DEF ReloadOnItsWay, OnItsWay
<1>t. page \in [Pages -> PageRecord] /\ pub.to \subseteq Conns
  BY DEF StreamTypes, Publication
<1>s. ASSUME page[p].bundle = "owed", pub' = pub,
             \A d \in Conns : Live(p, d) => Live(p, d)',
             \A d \in Conns : Live(p, d) /\ Contains(conn[d].queue, "reload") => Contains(conn'[d].queue, "reload")
      PROVE  OnItsWay(p)'
  <2>1. OnItsWay(p)
    BY <1>s DEF ReloadOnItsWay, OnItsWay
  <2> QED
    BY <1>s, <1>t, <2>1 DEF OnItsWay
<1>1. ASSUME NEW c \in Conns, Forward(c)
      PROVE  OnItsWay(p)'
  <2> DEFINE e == Head(conn[c].queue)
  <2>1. /\ pub' = pub /\ page' = [r \in Pages |-> IF Live(r, c) THEN Received(e, page[r]) ELSE page[r]]
        /\ e \in Events
    BY <1>1, ForwardedStream DEF Forward
  <2>2. page[p] \in PageRecord
    BY <1>t
  <2>3. page[p].bundle = "owed" /\ (Live(p, c) => e # "reload")
    BY <2>1, <2>2, ReceivedPage
  <2>4. \A d \in Conns : Live(p, d) => Live(p, d)'
    BY <1>1, <2>3, ForwardedStream DEF Live
  <2>5. \A d \in Conns : Live(p, d) /\ Contains(conn[d].queue, "reload") => Contains(conn'[d].queue, "reload")
    BY <1>1, <2>3, ForwardedStream, ContainsTail
  <2> QED
    BY <1>s, <2>1, <2>3, <2>4, <2>5
<1>2. ASSUME NEW c \in Conns, Greet(c) \/ Leave(c) \/ \E r \in Pages : Connect(r, c)
      PROVE  OnItsWay(p)'
  <2>1. page'[p].bundle = page[p].bundle /\ pub' = pub
    BY <1>2, <1>t DEF Greet, Leave, Connect, PageRecord
  <2>2. \A d \in Conns : Live(p, d) => Live(p, d)' /\ conn'[d].queue = conn[d].queue
    <3>1. CASE Greet(c)
      BY <3>1, OneStreamChanges DEF Live, Greet
    <3>2. CASE Leave(c)
      BY <3>2, OneStreamChanges DEF Live, Leave
    <3>3. CASE \E r \in Pages : Connect(r, c)
      BY <3>3, OneStreamChanges DEF Live, Connect
    <3> QED
      BY <1>2, <3>1, <3>2, <3>3
  <2> QED
    BY <1>s, <2>1, <2>2
<1>3. ASSUME NEW r \in Pages, Navigate(r) \/ LoseConnection(r)
      PROVE  OnItsWay(p)'
  <2>1. HangUp(r) /\ pub' = pub
    BY <1>3 DEF Navigate, LoseConnection
  <2>2. page[p].bundle = "owed" /\ p # r
    <3>1. CASE Navigate(r)
      BY <1>t, <3>1 DEF Navigate, LoadedPage
    <3>2. CASE LoseConnection(r)
      <4>1. Missed({r}) \in [Pages -> PageRecord]
        BY MissedPages
      <4>2. page' = [Missed({r}) EXCEPT ![r].overlay = "lost"]
        BY <3>2 DEF LoseConnection
      <4>3. page'[p].bundle = Missed({r})[p].bundle
        BY <4>1, <4>2 DEF PageRecord
      <4> QED
        BY <4>3, MissedPages
    <3> QED
      BY <1>3, <3>1, <3>2
  <2>3. \A d \in Conns : Live(p, d) => Live(p, d)' /\ conn'[d].queue = conn[d].queue
    BY <2>1, <2>2, HungUp DEF Live
  <2> QED
    BY <1>s, <2>1, <2>2, <2>3
<1> QED
  BY <1>1, <1>2, <1>3 DEF StreamStep


-----------------------------------------------------------------------------
(***************************************************************************)
(* What the pages show, and what they are sent.                             *)
(***************************************************************************)
\* The error that a status event tells of.
ErrorOf(e) == IF e = "ok" THEN "none" ELSE e

\* The last status in a queue tells of err; a queue without any.
LastTells(q, err) ==
  \E i \in 1..Len(q) : /\ q[i] \in Status /\ ErrorOf(q[i]) = err
                       /\ \A j \in 1..Len(q) : j > i => q[j] \notin Status
NoStatus(q) == \A i \in 1..Len(q) : q[i] \notin Status

\* A stream whose page still listens.
On(c) == conn[c].state # "free" /\ ~conn[c].gone

\* A status is being published, and has yet to come to c.
Coming(c) == pub.event \in Status /\ (~pub.copied \/ c \in pub.to)

\* The last that a page has been told, or is on its way to it, is the current error.
Told(c) ==
  \/ conn[c].lost
  \/ Coming(c)
  \/ LastTells(conn[c].queue, lastErr)
  \/ NoStatus(conn[c].queue) /\ (conn[c].state = "open" => page[conn[c].page].overlay = lastErr)

\* A page listens to one stream, and a stream is some page's.
OneStream ==
  /\ \A c \in Conns : conn[c].state # "free" => conn[c].page \in Pages
  /\ \A c, d \in Conns : On(c) /\ On(d) /\ conn[c].page = conn[d].page => c = d

\* A status that is published is the current one, and none is before the watcher is set up.
Publishing ==
  /\ pub.event \in Status => ErrorOf(pub.event) = lastErr
  /\ watch \in {"unset", "off"} => todo = {}
  /\ watch = "unset" => pub = NoPub

Agreeing == OneStream /\ Publishing /\ \A c \in Conns : On(c) => Told(c)

LEMMA AppendTells ==
  ASSUME NEW q \in Seq(Events), NEW x \in Events, NEW err
  PROVE  /\ x \in Status => LastTells(Append(q, x), ErrorOf(x))
         /\ x \notin Status /\ LastTells(q, err) => LastTells(Append(q, x), err)
         /\ x \notin Status /\ NoStatus(q) => NoStatus(Append(q, x))
<1> DEFINE n == Len(q)
           r == Append(q, x)
<1>1. n \in Nat /\ Len(r) = n + 1 /\ r[n + 1] = x /\ \A i \in 1..n : r[i] = q[i]
  OBVIOUS
<1> HIDE DEF r
<1>2. n + 1 \in 1..Len(r) /\ \A j \in 1..Len(r) : ~(j > n + 1) /\ (j \in 1..n \/ j = n + 1)
  BY <1>1
<1>3. x \in Status => LastTells(r, ErrorOf(x))
  BY <1>1, <1>2 DEF LastTells
<1>4. ASSUME x \notin Status, LastTells(q, err)
      PROVE  LastTells(r, err)
  <2>1. PICK i \in 1..n : /\ q[i] \in Status /\ ErrorOf(q[i]) = err
                          /\ \A j \in 1..n : j > i => q[j] \notin Status
    BY <1>4 DEF LastTells
  <2>2. i \in 1..Len(r)
    BY <1>1
  <2> QED
    BY <1>1, <1>2, <1>4, <2>1, <2>2 DEF LastTells
<1>5. x \notin Status /\ NoStatus(q) => NoStatus(r)
  BY <1>1, <1>2 DEF NoStatus
<1> QED
  BY <1>3, <1>4, <1>5 DEF r

LEMMA TailTells ==
  ASSUME NEW q \in Seq(Events), q # <<>>, NEW err
  PROVE  /\ LastTells(q, err) =>
              \/ LastTells(Tail(q), err)
              \/ NoStatus(Tail(q)) /\ Head(q) \in Status /\ ErrorOf(Head(q)) = err
         /\ NoStatus(q) => NoStatus(Tail(q)) /\ Head(q) \notin Status
<1> DEFINE n == Len(q)
           r == Tail(q)
<1>1. n \in Nat \ {0} /\ Len(r) = n - 1 /\ Head(q) = q[1] /\ \A i \in 1..(n - 1) : r[i] = q[i + 1]
  OBVIOUS
<1> HIDE DEF r
<1>2. \A i \in 1..Len(r) : i + 1 \in 1..n /\ r[i] = q[i + 1]
  BY <1>1
<1>3. NoStatus(q) => NoStatus(r) /\ Head(q) \notin Status
  BY <1>1, <1>2 DEF NoStatus
<1>4. ASSUME LastTells(q, err)
      PROVE  \/ LastTells(r, err)
             \/ NoStatus(r) /\ Head(q) \in Status /\ ErrorOf(Head(q)) = err
  <2>1. PICK i \in 1..n : /\ q[i] \in Status /\ ErrorOf(q[i]) = err
                          /\ \A j \in 1..n : j > i => q[j] \notin Status
    BY <1>4 DEF LastTells
  <2>2. CASE i = 1
    <3>1. \A j \in 1..Len(r) : j + 1 > i
      BY <1>1, <2>2
    <3> QED
      BY <1>1, <1>2, <2>1, <2>2, <3>1 DEF NoStatus
  <2>3. CASE i # 1
    <3>1. i - 1 \in 1..Len(r) /\ r[i - 1] = q[i]
      BY <1>1, <2>3
    <3>2. \A j \in 1..Len(r) : j > i - 1 => j + 1 > i
      BY <1>1
    <3> QED
      BY <1>2, <2>1, <3>1, <3>2 DEF LastTells
  <2> QED
    BY <2>2, <2>3
<1> QED
  BY <1>3, <1>4 DEF r

\* A stream is told as before when it, its page's overlay and the error are as they were.
LEMMA ToldStill ==
  ASSUME NEW c \in Conns, Told(c), conn'[c] = conn[c], lastErr' = lastErr,
         conn[c].state = "open" => page'[conn[c].page].overlay = page[conn[c].page].overlay,
         Coming(c) => Coming(c)'
  PROVE  Told(c)'
BY DEF Told

LEMMA AgreeingWatch ==
  ASSUME BuildTypes, StreamTypes, Agreeing, WatchStep
  PROVE  Agreeing'
<1>1. conn' = conn /\ (pub = NoPub \/ UNCHANGED <<pub, page, lastErr>>)
  BY DEF WatchStep, Listen, StartWatch, WatchFails, WatcherError, Fire, ClearError, WatchEvent, Rebuild,
         Succeed, Fail, Turn, Idle, Built, Agreeing, Publishing
<1>2. OneStream'
  BY <1>1 DEF Agreeing, OneStream, On
<1>3. (watch' \in {"unset", "off"} => todo' = {}) /\ (watch' = "unset" => pub' = NoPub)
  BY DEF WatchStep, Listen, StartWatch, WatchFails, WatcherError, Fire, ClearError, WatchEvent, Rebuild,
         Succeed, Fail, Turn, Idle, Agreeing, Publishing
<1>4. NoPub.event \notin Status /\ "css" \notin Status /\ "reload" \notin Status
  BY DEF NoPub, Status, Errors, Stage
<1>5. CASE UNCHANGED <<pub, page, lastErr>>
  BY <1>1, <1>2, <1>3, <1>5 DEF Agreeing, Publishing, On, Told, Coming
<1>6. CASE \E e \in Status : /\ Announce(e) /\ page' = page
                             /\ lastErr' = IF e = "ok" THEN "none" ELSE e
  <2>1. pub'.event \in Status /\ ErrorOf(pub'.event) = lastErr' /\ ~pub'.copied
    BY <1>6 DEF Announce, ErrorOf
  <2> QED
    BY <1>2, <1>3, <2>1 DEF Agreeing, Publishing, Told, Coming
<1>7. CASE pub = NoPub /\ lastErr' = lastErr /\ pub'.event \notin Status
           /\ \A p \in Pages : page'[p].overlay = page[p].overlay
  <2>1. \A c \in Conns : On(c)' => Told(c)'
    BY <1>1, <1>4, <1>7 DEF Agreeing, OneStream, On, Told, Coming
  <2> QED
    BY <1>2, <1>3, <1>7, <2>1 DEF Agreeing, Publishing
<1>8. CASE pub = NoPub /\ Announce("css") /\ UNCHANGED <<page, lastErr>>
  BY <1>4, <1>7, <1>8 DEF Announce
<1>9. CASE pub = NoPub /\ Announce("reload") /\ UNCHANGED lastErr
           /\ page' = [p \in Pages |-> [page[p] EXCEPT !.bundle = "owed"]]
  <2>1. \A p \in Pages : page'[p].overlay = page[p].overlay
    BY <1>9 DEF StreamTypes, PageRecord
  <2> QED
    BY <1>4, <1>7, <1>9, <2>1 DEF Announce
<1> QED
  BY <1>1, <1>5, <1>6, <1>8, <1>9, WatchSays

LEMMA AgreeingBroker ==
  ASSUME StreamTypes, Agreeing, BrokerStep
  PROVE  Agreeing'
<1>1. UNCHANGED <<watch, todo, lastErr>> /\ (pub' # pub => pub # NoPub)
  <2>1. UNCHANGED <<watch, todo, lastErr>>
    BY DEF BrokerStep, CopyClients, Send, DropEvent, SendOnClosed, watchVars
  <2>2. pub' # pub => pub # NoPub
    <3>1. NoPub.to = {}
      BY DEF NoPub
    <3> QED
      BY <3>1 DEF BrokerStep, CopyClients, Send, DropEvent, SendOnClosed
  <2> QED
    BY <2>1, <2>2
<1>2. \A p \in Pages : page'[p].overlay = page[p].overlay
  <2>1. page' = page \/ \E P \in SUBSET Pages : page' = Missed(P)
    BY DEF BrokerStep, CopyClients, Send, DropEvent, SendOnClosed
  <2> QED
    BY <2>1, MissedPages
<1>3. NoPub.event \notin Status
  BY DEF NoPub, Status, Errors, Stage
<1>4. CASE CopyClients
  <2>1. conn' = conn /\ ~pub.copied
    BY <1>4 DEF CopyClients
  <2>2. pub' = NoPub \/ /\ pub'.event = pub.event
                        /\ \A c \in Conns : On(c) => c \in pub'.to
    <3>1. \A c \in Conns : On(c) => c \in Clients
      BY DEF On, Clients
    <3> QED
      BY <1>4, <3>1 DEF CopyClients, StreamTypes, Publication
  <2>3. pub' = NoPub => \A c \in Conns : ~On(c)
    <3>1. [pub EXCEPT !.copied = TRUE, !.to = Clients].copied /\ ~NoPub.copied
      BY DEF StreamTypes, Publication, NoPub
    <3>2. pub' = NoPub => Clients = {}
      BY <1>4, <3>1 DEF CopyClients
    <3> QED
      BY <3>2 DEF On, Clients
  <2>4. \A c \in Conns : On(c)' => Told(c)'
    BY <1>1, <1>2, <2>1, <2>2, <2>3, ToldStill DEF Agreeing, OneStream, On, Coming
  <2>5. OneStream'
    BY <2>1 DEF Agreeing, OneStream, On
  <2>6. Publishing'
    BY <1>1, <1>3, <2>2 DEF Agreeing, Publishing
  <2> QED
    BY <2>4, <2>5, <2>6 DEF Agreeing
<1>5. ASSUME NEW c \in Conns, Send(c) \/ DropEvent(c)
      PROVE  Agreeing'
  <2>1. /\ pub' = SentTo(c) /\ c \in pub.to /\ pub.copied /\ pub.event \in Events
        /\ pub'.to = pub.to \ {c}
        /\ pub' # NoPub => pub'.event = pub.event
        /\ pub' = NoPub => pub.to = {c}
    BY <1>5, SentClient DEF Send, DropEvent
  <2>2. /\ \A d \in Conns \ {c} : conn'[d] = conn[d]
        /\ conn'[c].state = conn[c].state /\ conn'[c].page = conn[c].page /\ conn'[c].gone = conn[c].gone
    BY <1>5, SentStream, DroppedStream
  <2>3. \A d \in Conns : On(d)' = On(d) /\ conn'[d].state = conn[d].state /\ conn'[d].page = conn[d].page
    BY <2>2 DEF On
  <2>4. OneStream'
    BY <2>3 DEF Agreeing, OneStream
  <2>5. Publishing'
    BY <1>1, <1>3, <2>1 DEF Agreeing, Publishing
  <2>6. ASSUME NEW d \in Conns \ {c}, On(d)
        PROVE  Told(d)'
    <3>1. Coming(d) => Coming(d)'
      BY <2>1 DEF Coming
    <3> QED
      BY <1>1, <1>2, <2>2, <2>6, <3>1, ToldStill DEF Agreeing, OneStream, On
  <2>7. ASSUME On(c)
        PROVE  Told(c)'
    <3>1. Told(c) /\ conn[c].page \in Pages /\ conn[c].queue \in Seq(Events)
      BY <2>7 DEF Agreeing, OneStream, On, StreamTypes, ConnRecord
    <3>2. CASE pub.event \in Status /\ Send(c)
      <4>1. LastTells(conn'[c].queue, lastErr)
        BY <2>1, <3>1, <3>2, SentStream, AppendTells DEF Agreeing, Publishing
      <4> QED
        BY <1>1, <4>1 DEF Told
    <3>3. CASE pub.event \in Status /\ DropEvent(c)
      BY <3>3, DroppedStream DEF Told
    <3>4. CASE pub.event \notin Status
      <4>1. /\ ~Coming(c)
            /\ conn'[c].lost = conn[c].lost
        BY <1>5, <3>4, SentStream, DroppedStream DEF Coming, StreamTypes, ConnRecord
      <4>2. /\ LastTells(conn[c].queue, lastErr) => LastTells(conn'[c].queue, lastErr)
            /\ NoStatus(conn[c].queue) => NoStatus(conn'[c].queue)
        <5>1. CASE Send(c)
          BY <2>1, <3>1, <3>4, <5>1, SentStream, AppendTells
        <5>2. CASE DropEvent(c)
          BY <5>2, DroppedStream
        <5> QED
          BY <1>5, <5>1, <5>2
      <4> QED
        BY <1>1, <1>2, <2>2, <3>1, <4>1, <4>2 DEF Told
    <3> QED
      BY <1>5, <3>2, <3>3, <3>4
  <2> QED
    BY <2>3, <2>4, <2>5, <2>6, <2>7 DEF Agreeing
<1>6. CASE \E c \in Conns : SendOnClosed(c)
  BY <1>1, <1>6 DEF SendOnClosed, Agreeing, OneStream, Publishing, On, Told, Coming
<1> QED
  BY <1>4, <1>5, <1>6 DEF BrokerStep

LEMMA AgreeingStreams ==
  ASSUME BuildTypes, StreamTypes, Agreeing, NEW c \in Conns,
         Greet(c) \/ Forward(c) \/ Leave(c) \/ \E p \in Pages : Connect(p, c)
  PROVE  Agreeing'
<1>1. UNCHANGED <<watch, todo, lastErr, pub>>
  BY DEF Greet, Forward, Leave, Connect, watchVars
<1>2. Publishing'
  BY <1>1 DEF Agreeing, Publishing
<1>3. \A d \in Conns \ {c} : conn'[d] = conn[d]
  BY OneStreamChanges, ForwardedStream
<1>4. \A d \in Conns \ {c} : On(d)' = On(d)
  BY <1>3 DEF On
<1>p. page \in [Pages -> PageRecord] /\ conn[c] \in ConnRecord
  BY DEF StreamTypes
<1>5. \A p \in Pages : ~Live(p, c) => page'[p].overlay = page[p].overlay
  BY <1>p DEF Greet, Forward, Leave, Connect
<1>6. ASSUME NEW d \in Conns \ {c}, On(d)
      PROVE  Told(d)'
  <2>1. Told(d) /\ conn[d].page \in Pages
    BY <1>6 DEF Agreeing, OneStream, On
  <2>2. ~Live(conn[d].page, c)
    BY <1>6 DEF Agreeing, OneStream, On, Live
  <2>3. Coming(d) => Coming(d)'
    BY <1>1 DEF Coming
  <2> QED
    BY <1>1, <1>3, <1>5, <2>1, <2>2, <2>3, ToldStill
<1>7. CASE Greet(c)
  <2>1. /\ On(c)' = On(c) /\ conn[c].state = "subscribed" /\ conn'[c].page = conn[c].page
        /\ conn'[c].queue = conn[c].queue /\ conn'[c].lost = conn[c].lost
    BY <1>7, OneStreamChanges DEF On, Greet
  <2>2. ASSUME On(c)
        PROVE  Told(c)'
    <3>1. conn[c].page \in Pages /\ Live(conn[c].page, c) /\ Told(c)
      BY <2>2 DEF Agreeing, OneStream, On, Live
    <3>2. page'[conn[c].page] = [page[conn[c].page] EXCEPT !.overlay = lastErr]
      BY <1>7, <3>1 DEF Greet, Greeting
    <3>3. page'[conn[c].page].overlay = lastErr
      BY <1>p, <3>1, <3>2 DEF PageRecord
    <3> QED
      BY <1>1, <2>1, <3>1, <3>3 DEF Told, Coming
  <2>3. OneStream'
    BY <1>3, <1>4, <2>1 DEF Agreeing, OneStream
  <2> QED
    BY <1>2, <1>4, <1>6, <2>1, <2>2, <2>3 DEF Agreeing
<1>8. CASE Forward(c)
  <2> DEFINE e == Head(conn[c].queue)
             q == conn[c].queue
  <2>1. /\ q \in Seq(Events) /\ q # <<>> /\ e \in Events /\ conn[c].state = "open"
        /\ conn'[c].state = conn[c].state /\ conn'[c].page = conn[c].page
        /\ conn'[c].queue = Tail(q) /\ conn'[c].lost = conn[c].lost
        /\ conn'[c].gone = (conn[c].gone \/ e = "reload")
    BY <1>8, ForwardedStream DEF Forward
  <2>2. On(c)' => On(c) /\ e # "reload"
    BY <2>1 DEF On
  <2>3. ASSUME On(c), e # "reload"
        PROVE  Told(c)'
    <3> DEFINE p == conn[c].page
    <3>1. p \in Pages /\ Live(p, c) /\ Told(c) /\ page[p] \in PageRecord
      BY <1>p, <2>3 DEF Agreeing, OneStream, On, Live
    <3>2. page'[p] = Received(e, page[p])
      BY <1>8, <3>1 DEF Forward
    <3>3. /\ e \in Status => page'[p].overlay = ErrorOf(e)
          /\ e \notin Status => page'[p].overlay = page[p].overlay
      BY <2>1, <2>3, <3>1, <3>2, ReceivedPage DEF ErrorOf
    <3> HIDE DEF e, q, p
    <3>4. /\ LastTells(q, lastErr) => \/ LastTells(Tail(q), lastErr)
                                      \/ NoStatus(Tail(q)) /\ e \in Status /\ ErrorOf(e) = lastErr
          /\ NoStatus(q) => NoStatus(Tail(q)) /\ e \notin Status
      BY <2>1, TailTells DEF e, q
    <3>5. \/ conn[c].lost \/ Coming(c) \/ LastTells(q, lastErr)
          \/ NoStatus(q) /\ page[p].overlay = lastErr
      BY <2>1, <3>1 DEF Told, q, p
    <3>6. \/ conn'[c].lost \/ Coming(c)' \/ LastTells(conn'[c].queue, lastErr')
          \/ NoStatus(conn'[c].queue) /\ page'[conn'[c].page].overlay = lastErr'
      BY <1>1, <2>1, <3>3, <3>4, <3>5 DEF Coming, q, p
    <3> QED
      BY <3>6 DEF Told
  <2>4. OneStream'
    BY <1>3, <1>4, <2>1, <2>2 DEF Agreeing, OneStream
  <2> QED
    BY <1>2, <1>4, <1>6, <2>2, <2>3, <2>4 DEF Agreeing
<1>9. CASE Leave(c)
  <2>1. conn'[c].state = "free"
    BY <1>9, OneStreamChanges DEF FreeConn
  <2>2. ~On(c)'
    BY <2>1 DEF On
  <2>3. OneStream'
    BY <1>3, <1>4, <2>1, <2>2 DEF Agreeing, OneStream
  <2> QED
    BY <1>2, <1>4, <1>6, <2>2, <2>3 DEF Agreeing
<1>10. CASE \E p \in Pages : Connect(p, c)
  <2>1. PICK p \in Pages : Connect(p, c)
    BY <1>10
  <2>2. conn'[c].state = "subscribed" /\ conn'[c].page = p /\ conn'[c].queue = <<>>
    BY <2>1, OneStreamChanges
  <2>3. Told(c)'
    BY <2>2 DEF Told, NoStatus
  <2>4. \A d \in Conns \ {c} : On(d) => conn[d].page # p
    BY <2>1 DEF Connect, Connected, Live, On
  <2>5. OneStream'
    BY <1>3, <1>4, <2>2, <2>4 DEF Agreeing, OneStream
  <2> QED
    BY <1>2, <1>4, <1>6, <2>3, <2>5 DEF Agreeing
<1> QED
  BY <1>7, <1>8, <1>9, <1>10

LEMMA AgreeingHangUp ==
  ASSUME StreamTypes, Agreeing, NEW p \in Pages, Navigate(p) \/ LoseConnection(p)
  PROVE  Agreeing'
<1>1. UNCHANGED <<watch, todo, lastErr, pub>> /\ HangUp(p)
  BY DEF Navigate, LoseConnection, watchVars
<1>2. Publishing'
  BY <1>1 DEF Agreeing, Publishing
<1>3. \A c \in Conns : /\ conn'[c].state = conn[c].state /\ conn'[c].page = conn[c].page
                       /\ conn'[c].queue = conn[c].queue /\ conn'[c].lost = conn[c].lost
                       /\ On(c)' => On(c) /\ conn[c].page # p
  BY <1>1, HungUp DEF On, Live
<1>4. OneStream'
  BY <1>3 DEF Agreeing, OneStream
<1>5. \A r \in Pages \ {p} : page'[r].overlay = page[r].overlay
  <2>1. CASE Navigate(p)
    BY <2>1 DEF Navigate, StreamTypes
  <2>2. CASE LoseConnection(p)
    <3>1. Missed({p}) \in [Pages -> PageRecord]
      BY MissedPages
    <3>2. \A r \in Pages \ {p} : page'[r] = Missed({p})[r]
      BY <2>2, <3>1 DEF LoseConnection
    <3> QED
      BY <3>2, MissedPages
  <2> QED
    BY <2>1, <2>2
<1>6. ASSUME NEW c \in Conns, On(c)'
      PROVE  Told(c)'
  <2>1. Told(c) /\ conn[c].page \in Pages \ {p}
    BY <1>3, <1>6 DEF Agreeing, OneStream, On
  <2>2. page'[conn'[c].page].overlay = page[conn[c].page].overlay
    BY <1>3, <1>5, <2>1
  <2> QED
    BY <1>1, <1>3, <2>1, <2>2 DEF Told, Coming
<1> QED
  BY <1>2, <1>4, <1>6 DEF Agreeing

LEMMA AgreeingInit ==
  Init => Agreeing
<1> SUFFICES ASSUME Init
             PROVE  Agreeing
  OBVIOUS
<1>1. NoPub.event \notin Status
  BY DEF NoPub, Status, Errors, Stage
<1>2. \A c \in Conns : conn[c].state = "free"
  BY DEF Init, FreeConn
<1> QED
  BY <1>1, <1>2 DEF Init, Agreeing, OneStream, Publishing, On

Paged == BuildTypes /\ StreamTypes /\ Agreeing /\ ReloadOnItsWay

LEMMA PagedInit ==
  Init => Paged
<1>1. Init => ReloadOnItsWay
  BY DEF Init, ReloadOnItsWay, LoadedPage
<1> QED
  BY <1>1, TypesInit, AgreeingInit DEF Paged

LEMMA PagedNext ==
  ASSUME Paged, [Next]_vars
  PROVE  Paged'
<1> USE DEF Paged
<1>1. BuildTypes' /\ StreamTypes'
  BY BuildTypesNext, StreamTypesNext
<1>2. CASE WatchStep
  BY <1>1, <1>2, AgreeingWatch, OwedWatch DEF Agreeing, Publishing
<1>3. CASE BrokerStep
  BY <1>1, <1>3, AgreeingBroker, OwedBroker
<1>4. CASE StreamStep
  BY <1>1, <1>4, AgreeingStreams, OwedStreams DEF StreamStep
<1>5. CASE \E p \in Pages : Navigate(p) \/ LoseConnection(p)
  BY <1>1, <1>5, AgreeingHangUp, OwedStreams
<1>6. CASE (\E f \in Files : Edit(f)) \/ (\E d \in NewDirs : MakeDir(d)) \/ UNCHANGED vars
  <2>1. UNCHANGED <<watch, todo, lastErr, pub, conn, page>>
    BY <1>6 DEF Edit, MakeDir, vars
  <2> QED
    BY <1>1, <2>1 DEF Agreeing, OneStream, Publishing, On, Told, Coming, ReloadOnItsWay, Live
<1> QED
  BY <1>2, <1>3, <1>4, <1>5, <1>6 DEF Next, UserStep

(***************************************************************************)
(* Whatever order publishing, subscribing and greeting come in, a page that *)
(* has received all that was sent to it shows the current error, unless the *)
(* buffer was full at the last one (handleEvents subscribes before it reads *)
(* lastError; publish copies the clients under the lock).                   *)
(***************************************************************************)
THEOREM OverlaysAlwaysAgree == Spec => []OverlayAgrees
<1>1. Paged => OverlayAgrees
  <2> SUFFICES ASSUME Paged, NEW p \in Pages, NEW c \in Conns, Live(p, c), conn[c].state = "open",
                      conn[c].queue = <<>>, ~conn[c].lost, pub = NoPub
               PROVE  page[p].overlay = lastErr
    BY DEF OverlayAgrees
  <2>1. Told(c) /\ conn[c].page = p
    BY DEF Paged, Agreeing, On, Live
  <2>2. ~Coming(c)
    BY DEF Coming, NoPub, Status, Errors, Stage
  <2>3. ~LastTells(<<>>, lastErr)
    BY DEF LastTells
  <2> QED
    BY <2>1, <2>2, <2>3 DEF Told
<1> QED
  BY <1>1, PagedInit, PagedNext, PTL DEF Spec

(***************************************************************************)
(* A page that is owed a reload is about to get it (publish, handleEvents). *)
(***************************************************************************)
THEOREM ReloadsAlwaysOnTheirWay == Spec => []ReloadOnItsWay
<1>1. Paged => ReloadOnItsWay
  BY DEF Paged
<1> QED
  BY <1>1, PagedInit, PagedNext, PTL DEF Spec

=============================================================================
