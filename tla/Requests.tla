------------------------------ MODULE Requests ------------------------------
(***************************************************************************)
(* A goflex application's server: pkg/server (admission, draining, Run),    *)
(* pkg/auth with its session stores and login limiter, and the handlers and *)
(* store of the todo example.  A request is one goroutine; each lock        *)
(* section, statement of the database and read of the clock is a step.      *)
(***************************************************************************)
EXTENDS Integers, FiniteSets

CONSTANTS
  Req,          \* bound: requests at a time
  Sid, User, Password, Todo, Title, None,
  Gone,         \* what the answers say of a todo deleted
  Stores,       \* the session stores to choose from
  Calls,        \* what clients may ask: records of one of the sets below
  Limit, Window, Duration,   \* limiter.n, limiter.win, SessionDuration
  MaxTime, MaxCalls          \* bounds: ticks of the clock, requests in all

Plain == [op: {"health", "options", "me", "logout"}]
LoginCall == [op: {"login"}, user: User, good: BOOLEAN]
AccountCall == [op: {"signup", "signin"}, user: User, password: Password]
ChangeCall == [op: {"change"}, old: Password, new: Password]
CreateCall == [op: {"create"}, title: Title]
UpdateCall == [op: {"update"}, id: Todo, title: Title \cup {None}, done: BOOLEAN \cup {None}]
OneCall == [op: {"get", "delete"}, id: Todo]
Filter == {"all", "open", "done"}
ListCall == [op: {"list"}, filter: Filter]
ToggleCall == [op: {"toggle"}, enabled: BOOLEAN]

ASSUME RequestsAssumption ==
  /\ None \notin {"nil", "error"}
  /\ Stores \subseteq {"memory", "gorm", "cookie"}
  /\ Calls \subseteq Plain \cup LoginCall \cup AccountCall \cup ChangeCall
               \cup CreateCall \cup UpdateCall \cup OneCall \cup ListCall \cup ToggleCall
  /\ Limit \in Nat \ {0} /\ {Window, Duration, MaxTime, MaxCalls} \subseteq Nat

Row == [owner: User, title: Title, done: BOOLEAN]

\* What stands for nothing, and for a todo deleted, is none of the values.
ASSUME NothingAssumption ==
  /\ None \notin User \cup Password \cup Row
  /\ Gone \notin Row \cup {None}

VARIABLES
  now, calls,
  waiter,     \* serveHTTP's goroutine: where it is
  serving,    \* listeners are open
  result,     \* what serveHTTP returned, None before; main exits with it
  gaveUp,     \* Shutdown's context expired
  req,        \* requests
  kind,       \* the store Config names
  sessions,   \* what the store's Get would read; of cookies, what they say
  failures,   \* limiter.m of one client: how many at each time
  secret,     \* the users table: passwords, None of who has not signed up
  rows,       \* the todos table
  failToggle, \* updates of done fail
  \* history
  issued,     \* user each session was issued to
  seen,       \* when a login or a request that found it last used each session
  ended,      \* sessions that a logout has deleted
  guesses,    \* failed logins since the last good one, never pruned
  promised,   \* rows as the answers so far describe them
  overwritten \* rows saved from a copy older than another write

server == <<waiter, serving, result, gaveUp>>
auth == <<kind, sessions, issued, seen, ended, secret>>
limiter == <<failures, guesses>>
todos == <<rows, failToggle, promised, overwritten>>
vars == <<now, calls, server, req, auth, limiter, todos>>

Session == [user: User, expires: Nat]
Times == 0..MaxTime
Quiet == [t \in Times |-> 0]

Idle == [at |-> "idle"]

Init ==
  /\ now = 0 /\ calls = 0
  /\ waiter = "waiting" /\ serving = TRUE /\ result = None /\ gaveUp = FALSE
  /\ req = [r \in Req |-> Idle]
  /\ kind \in Stores
  /\ sessions = [s \in Sid |-> None] /\ issued = [s \in Sid |-> None]
  /\ seen = [s \in Sid |-> 0] /\ ended = {}
  /\ secret \in [User -> Password \cup {None}]
  /\ failures = Quiet /\ guesses = Quiet
  /\ rows = [i \in Todo |-> None] /\ promised = rows /\ overwritten = {}
  /\ failToggle = FALSE

Running == result = None
At(r, place) == Running /\ req[r].at = place
Draining == waiter # "waiting"

Tick ==
  /\ Running /\ now < MaxTime
  /\ now' = now + 1
  /\ UNCHANGED <<calls, server, req, auth, limiter, todos>>

Goto(r, place) == req' = [req EXCEPT ![r].at = place]
Answer(r) == req' = [req EXCEPT ![r] = Idle]

-----------------------------------------------------------------------------
(***************************************************************************)
(* serveHTTP.  On a signal the goroutine marks the server as draining and   *)
(* then calls Shutdown, which closes the listeners and waits for the        *)
(* requests or for its ten seconds; serve() returns at once and serveHTTP   *)
(* waits for the goroutine.  A listener that fails by itself ends both.     *)
(***************************************************************************)
NotRequests == UNCHANGED <<now, calls, req, auth, limiter, todos>>

Signal ==
  /\ Running /\ waiter = "waiting"
  /\ waiter' = "marked"
  /\ UNCHANGED <<serving, result, gaveUp>> /\ NotRequests

Shutdown ==
  /\ Running /\ waiter = "marked"
  /\ waiter' = "closing" /\ serving' = FALSE
  /\ UNCHANGED <<result, gaveUp>> /\ NotRequests

Drained ==
  /\ Running /\ waiter = "closing" /\ \A r \in Req : req[r].at = "idle"
  /\ waiter' = "done"
  /\ UNCHANGED <<serving, result, gaveUp>> /\ NotRequests

\* Wrong: Shutdown has no time-out (Stops).
PatientForever == FALSE

GivesUp == TRUE   \* the context has a deadline

Expire ==
  /\ Running /\ waiter = "closing" /\ GivesUp
  /\ waiter' = "done" /\ gaveUp' = TRUE
  /\ UNCHANGED <<serving, result>> /\ NotRequests

ListenerFails ==
  /\ Running /\ serving
  /\ serving' = FALSE /\ result' = "error"
  /\ UNCHANGED <<waiter, gaveUp>> /\ NotRequests

\* Wrong: serve returns without waiting for Shutdown (ReturnsClean).
WaitedForNothing == ~serving

Waited == ~serving /\ waiter = "done"

Return ==
  /\ Running /\ Waited
  /\ result' = "nil"
  /\ UNCHANGED <<waiter, serving, gaveUp>> /\ NotRequests

-----------------------------------------------------------------------------
(***************************************************************************)
(* The chain of New and of the example's main: preflights are answered      *)
(* before the draining check, /healthz by it; then the session middleware,  *)
(* the CSRF check and RequireUser.                                          *)
(***************************************************************************)
NotServer == UNCHANGED <<now, server>>

Arrive(r, c, s) ==
  /\ At(r, "idle") /\ serving /\ calls < MaxCalls
  /\ calls' = calls + 1
  /\ req' = [req EXCEPT ![r] =
       [at |-> "arrived", call |-> c, sid |-> s, late |-> s \in ended,
        user |-> None, fresh |-> TRUE, stamp |-> 0, row |-> None, stale |-> FALSE]]
  /\ UNCHANGED <<server, now, auth, limiter, todos>>

Admit(r) ==
  /\ At(r, "arrived")
  /\ IF Draining \/ req[r].call.op \in {"health", "options"} THEN Answer(r)
     ELSE Goto(r, IF req[r].sid = None THEN "checked" ELSE "cookie")
  /\ UNCHANGED <<calls, auth, limiter, todos>> /\ NotServer

\* Get.  A session is over once the clock is past its expiry.
Alive(s) == sessions[s] # None /\ now <= sessions[s].expires

Deleted(s) == IF kind = "cookie" THEN sessions ELSE [sessions EXCEPT ![s] = None]

\* Wrong: touching a deleted session makes it again (ServedByRight).
TouchedOrMade(s, t) ==
  IF kind = "cookie" THEN sessions ELSE [sessions EXCEPT ![s] = [user |-> issued[s], expires |-> t]]

\* Touch updates an entry that is there; the cookie's has nothing to update.
Touched(s, t) ==
  IF kind = "cookie" \/ sessions[s] = None THEN sessions ELSE [sessions EXCEPT ![s].expires = t]

\* A statement of the database can fail (it is locked, the client has gone away),
\* and nobody looks at the error of Set, Touch or Delete.
Fails == kind = "gorm"

Lookup(r) ==
  LET s == req[r].sid IN
  /\ At(r, "cookie")
  /\ \/ /\ Alive(s)
        /\ req' = [req EXCEPT ![r] = [@ EXCEPT
             !.at = "found", !.user = sessions[s].user, !.fresh = now <= seen[s] + Duration]]
     \/ /\ ~Alive(s)
        /\ Goto(r, IF kind = "gorm" /\ sessions[s] # None THEN "expired" ELSE "checked")
     \/ Fails /\ Goto(r, "checked")
  /\ UNCHANGED <<calls, auth, limiter, todos>> /\ NotServer

\* The database store deletes what it found expired, by id.
DeleteExpired(r) ==
  /\ At(r, "expired")
  /\ sessions' = Deleted(req[r].sid) \/ (Fails /\ UNCHANGED sessions)
  /\ Goto(r, "checked")
  /\ UNCHANGED <<calls, kind, issued, seen, ended, secret, limiter, todos>> /\ NotServer

\* The middleware reads the clock again, for the new expiry.
Renew(r) ==
  /\ At(r, "found")
  /\ req' = [req EXCEPT ![r] = [@ EXCEPT !.at = "touch", !.stamp = now + Duration]]
  /\ seen' = [seen EXCEPT ![req[r].sid] = now]
  /\ UNCHANGED <<calls, kind, sessions, issued, ended, secret, limiter, todos>> /\ NotServer

\* Touch and UserLoader; with a loader that fails the request is anonymous.
Touch(r) ==
  /\ At(r, "touch")
  /\ sessions' = Touched(req[r].sid, req[r].stamp) \/ (Fails /\ UNCHANGED sessions)
  /\ \E u \in {req[r].user, None} :
       req' = [req EXCEPT ![r] = [@ EXCEPT !.at = "checked", !.user = u, !.stamp = 0]]
  /\ UNCHANGED <<calls, kind, issued, seen, ended, secret, limiter, todos>> /\ NotServer

\* (*GORM).Cleanup, which an application calls when it likes.
Cleanup ==
  /\ Running /\ kind = "gorm"
  /\ \E s \in Sid : sessions[s] # None /\ sessions[s].expires < now
  /\ sessions' = [s \in Sid |-> IF sessions[s] # None /\ sessions[s].expires < now
                                THEN None ELSE sessions[s]]
  /\ UNCHANGED <<calls, req, kind, issued, seen, ended, secret, limiter, todos>> /\ NotServer

NeedsUser(c) == c.op \in {"me", "change", "list", "get", "create", "update", "delete"}
Unsafe(c) == c.op \notin {"me", "list", "get"}

\* No CSRF token, nobody logged in, a body that does not decode or validate, or a
\* statement of the handler that the database refuses.
Refuse(r) ==
  /\ \/ At(r, "checked") /\ (Unsafe(req[r].call) \/ req[r].user = None)
     \/ At(r, "save") \/ At(r, "store")
  /\ Answer(r)
  /\ UNCHANGED <<calls, auth, limiter, todos>> /\ NotServer

Handles(r, op) ==
  /\ At(r, "checked") /\ req[r].call.op = op
  /\ NeedsUser(req[r].call) => req[r].user # None

-----------------------------------------------------------------------------
(* Logging in and out.  LoginHandler is limited, the example's login is not. *)

Pruned == [t \in Times |-> IF now - t < Window THEN failures[t] ELSE 0]

\* The list of RecordFailure's entries: the n-th failure at time t is <<t, n>>.
Entries(f) == UNION {{t} \X (1..f[t]) : t \in Times}

Total(f) == Cardinality(Entries(f))

\* Wrong: one failure too many (GuessesBounded).
AllowsOneMore == Total(Pruned) <= Limit

Allows == Total(Pruned) < Limit

Allow(r) ==
  /\ Handles(r, "login")
  /\ failures' = Pruned
  /\ IF Allows THEN Goto(r, "verify") ELSE Answer(r)
  /\ UNCHANGED <<calls, auth, guesses, todos>> /\ NotServer

\* verify, then Reset or RecordFailure.
Verify(r) ==
  /\ At(r, "verify")
  /\ IF req[r].call.good
     THEN failures' = Quiet /\ guesses' = Quiet /\ Goto(r, "grant")
     ELSE /\ failures' = [Pruned EXCEPT ![now] = @ + 1]
          /\ guesses' = [guesses EXCEPT ![now] = @ + 1]
          /\ Answer(r)
  /\ UNCHANGED <<calls, auth, todos>> /\ NotServer

SignIn(r) ==
  /\ Handles(r, "signin")
  /\ IF secret[req[r].call.user] = req[r].call.password THEN Goto(r, "grant") ELSE Answer(r)
  /\ UNCHANGED <<calls, auth, limiter, todos>> /\ NotServer

NotSessions == UNCHANGED <<calls, kind, sessions, issued, seen, ended, limiter, todos>> /\ NotServer

\* CreateUser inserts the row, unless the address is taken; signup then logs in.
SignUp(r) ==
  LET c == req[r].call IN
  /\ Handles(r, "signup")
  /\ IF secret[c.user] = None
     THEN secret' = [secret EXCEPT ![c.user] = c.password] /\ Goto(r, "grant")
     ELSE Answer(r) /\ UNCHANGED secret
  /\ NotSessions

\* changePassword: the password given is compared, the new one hashed and stored.
\* UpdatePassword saves a row read anew, of which only the password ever changes.
ChangePassword(r) ==
  /\ Handles(r, "change")
  /\ IF secret[req[r].user] = req[r].call.old THEN Goto(r, "store") ELSE Answer(r)
  /\ NotSessions /\ UNCHANGED secret

StorePassword(r) ==
  LET u == req[r].user IN
  /\ At(r, "store")
  /\ secret' = [secret EXCEPT ![u] = req[r].call.new]
  /\ req' = [q \in Req |->
       IF q = r THEN Idle
       ELSE IF req[q].at = "store" /\ req[q].user = u THEN [req[q] EXCEPT !.stale = TRUE]
       ELSE req[q]]
  /\ NotSessions

\* Auth.Login: a random identifier nobody has had.  The client gets it even if Set fails.
Grant(r, s) ==
  /\ At(r, "grant") /\ issued[s] = None
  /\ \/ sessions' = [sessions EXCEPT ![s] = [user |-> req[r].call.user, expires |-> now + Duration]]
     \/ Fails /\ UNCHANGED sessions
  /\ issued' = [issued EXCEPT ![s] = req[r].call.user]
  /\ seen' = [seen EXCEPT ![s] = now]
  /\ Answer(r)
  /\ UNCHANGED <<calls, kind, ended, secret, limiter, todos>> /\ NotServer

\* The answer is ok whether or not Delete failed.
Logout(r) ==
  LET s == req[r].sid IN
  /\ Handles(r, "logout")
  /\ \/ s # None /\ sessions' = Deleted(s) /\ ended' = ended \cup {s}
     \/ (s = None \/ Fails) /\ UNCHANGED <<sessions, ended>>
  /\ Answer(r)
  /\ UNCHANGED <<calls, kind, issued, seen, secret, limiter, todos>> /\ NotServer

-----------------------------------------------------------------------------
(***************************************************************************)
(* Todos.  UpdateTodo reads a row, changes the copy and saves all of it;    *)
(* Save inserts the row when there is none to update.                       *)
(***************************************************************************)
NotAuth == UNCHANGED <<calls, auth, limiter>> /\ NotServer

Me(r) == Handles(r, "me") /\ Answer(r) /\ NotAuth /\ UNCHANGED todos

\* The query of Store.ListTodos; what is searched for and the limit are left out.
Listed(u, f) ==
  {i \in Todo : /\ rows[i] # None /\ rows[i].owner = u
                /\ f # "all" => rows[i].done = (f = "done")}

\* What the answer shows is Listed(user, filter), which PromisesKept is about.
ListTodos(r) == Handles(r, "list") /\ Answer(r) /\ NotAuth /\ UNCHANGED todos

GetTodo(r) == Handles(r, "get") /\ Answer(r) /\ NotAuth /\ UNCHANGED todos

SetToggleFailure(r) ==
  /\ Handles(r, "toggle")
  /\ failToggle' = req[r].call.enabled
  /\ Answer(r)
  /\ NotAuth /\ UNCHANGED <<rows, promised, overwritten>>

\* Wrong: the row is read by its id alone (OwnRowsOnly).
ReadableByAll(r, i) == rows[i] # None

Readable(r, i) == rows[i] # None /\ rows[i].owner = req[r].user

Free(i, u, t) == \A j \in Todo \ {i} : rows[j] # None => <<rows[j].owner, rows[j].title>> # <<u, t>>

\* Write row x (None deletes): copies others hold of it are now old.
Wrote(r, i, x) ==
  /\ rows' = [rows EXCEPT ![i] = x]
  /\ req' = [q \in Req |->
       IF q = r THEN Idle
       ELSE IF req[q].at = "save" /\ req[q].call.id = i THEN [req[q] EXCEPT !.stale = TRUE]
       ELSE req[q]]

CreateTodo(r) ==
  LET u == req[r].user t == req[r].call.title IN
  /\ Handles(r, "create")
  /\ \/ /\ ~Free(None, u, t)
        /\ Answer(r) /\ UNCHANGED todos
     \/ \E i \in Todo :
          /\ Free(None, u, t) /\ promised[i] = None
          /\ Wrote(r, i, [owner |-> u, title |-> t, done |-> FALSE])
          /\ promised' = [promised EXCEPT ![i] = [owner |-> u, title |-> t, done |-> FALSE]]
          /\ UNCHANGED <<failToggle, overwritten>>
  /\ NotAuth

ReadTodo(r) ==
  LET c == req[r].call
      failing == failToggle /\ c.done \notin {None, rows[c.id].done} IN
  /\ Handles(r, "update")
  /\ IF Readable(r, c.id) /\ ~failing
     THEN req' = [req EXCEPT ![r] = [@ EXCEPT !.at = "save", !.row = rows[c.id]]]
     ELSE Answer(r)
  /\ NotAuth /\ UNCHANGED todos

\* Wrong: fields that the update does not give are reset (PromisesKept).
OnlyGiven(row, c) ==
  [row EXCEPT !.title = IF c.title = None THEN @ ELSE c.title, !.done = c.done = TRUE]

Changed(row, c) ==
  [row EXCEPT !.title = IF c.title = None THEN @ ELSE c.title,
              !.done = IF c.done = None THEN @ ELSE c.done]

SaveTodo(r) ==
  LET c == req[r].call
      row == Changed(req[r].row, c)
      p == promised[c.id] IN
  /\ At(r, "save")
  /\ \/ /\ ~Free(c.id, row.owner, row.title)
        /\ Answer(r) /\ UNCHANGED todos
     \/ /\ Free(c.id, row.owner, row.title)
        /\ Wrote(r, c.id, row)
        /\ promised' = [promised EXCEPT ![c.id] =
             IF p = Gone THEN p
             ELSE [owner |-> p.owner,
                   title |-> IF c.title = None THEN p.title ELSE c.title,
                   done |-> IF c.done = None THEN p.done ELSE c.done]]
        /\ overwritten' = overwritten \cup (IF req[r].stale THEN {c.id} ELSE {})
        /\ UNCHANGED failToggle
  /\ NotAuth

DeleteTodo(r) ==
  LET i == req[r].call.id IN
  /\ Handles(r, "delete")
  /\ IF Readable(r, i)
     THEN Wrote(r, i, None) /\ promised' = [promised EXCEPT ![i] = Gone]
     ELSE Answer(r) /\ UNCHANGED <<rows, promised>>
  /\ UNCHANGED <<failToggle, overwritten>> /\ NotAuth

-----------------------------------------------------------------------------
Step(r) ==
  \/ Admit(r) \/ Lookup(r) \/ DeleteExpired(r) \/ Renew(r) \/ Touch(r) \/ Refuse(r)
  \/ Allow(r) \/ Verify(r) \/ SignIn(r) \/ \E s \in Sid : Grant(r, s)
  \/ Logout(r) \/ Me(r) \/ SignUp(r) \/ ChangePassword(r) \/ StorePassword(r)
  \/ ListTodos(r) \/ GetTodo(r) \/ SetToggleFailure(r)
  \/ CreateTodo(r) \/ ReadTodo(r) \/ SaveTodo(r) \/ DeleteTodo(r)

Goroutine == Shutdown \/ Drained \/ Expire \/ Return

Next ==
  \/ Tick \/ Signal \/ Goroutine \/ ListenerFails \/ Cleanup
  \/ \E r \in Req, c \in Calls, s \in Sid \cup {None} :
       (s # None => issued[s] # None) /\ Arrive(r, c, s)
  \/ \E r \in Req : Step(r)

Spec == Init /\ [][Next]_vars

\* The goroutine runs and its deadline passes; a handler may hang for ever.
Fair == WF_vars(Goroutine)
FairSpec == Spec /\ Fair

-----------------------------------------------------------------------------
(* A request acts for a user only with a session that was issued to that    *)
(* user, that some login or request had used at most Duration before, and   *)
(* that no logout had deleted before the request came, whatever requests on *)
(* the same session touch, delete, find expired or fail to write meanwhile  *)
(* (Middleware, Logout, Touch of a deleted entry).  A logout whose Delete   *)
(* failed has ended nothing, although it was answered ok.                   *)
ServedByRight ==
  \A r \in Req : req[r].at # "idle" /\ req[r].user # None =>
    /\ issued[req[r].sid] = req[r].user
    /\ req[r].fresh /\ ~req[r].late

(* Allow and RecordFailure are apart, so logins that run together pass      *)
(* together; but no window holds more wrong guesses than the limit and the  *)
(* requests that were already let in.                                       *)
GuessesBounded ==
  Total([t \in Times |-> IF t <= now /\ now - t < Window THEN guesses[t] ELSE 0])
    <= Limit + Cardinality(Req) - 1

(* serveHTTP returns nil only after the requests it had admitted were       *)
(* answered, unless Shutdown's ten seconds were over.                       *)
ReturnsClean ==
  result = "nil" => gaveUp \/ \A r \in Req : req[r].at = "idle"

(* What ListTodos answers, under any filter, is what the answers to the     *)
(* requests that changed the todos said of them, field by field, and a      *)
(* deleted one stays deleted, until an update saves a copy older than       *)
(* another write of that row.                                               *)
PromisesKept ==
  /\ \A i \in Todo \ overwritten :
       rows[i] = IF promised[i] = Gone THEN None ELSE promised[i]
  /\ \A u \in User, f \in Filter :
       Listed(u, f) \ overwritten =
         {i \in Todo \ overwritten :
            /\ promised[i] \notin {None, Gone} /\ promised[i].owner = u
            /\ f = "done" => promised[i].done
            /\ f = "open" => ~promised[i].done}

(* A todo is changed or deleted, and a password replaced, only in a request  *)
(* with a session issued to its owner, and a password only if the request    *)
(* gave it, unless another change of it was stored since they were compared. *)
OwnRowsOnly ==
  [][/\ \A i \in Todo : rows'[i] # rows[i] /\ rows[i] # None =>
          \E r \in Req :
            /\ req[r].at \in {"checked", "save"} /\ req'[r] = Idle /\ req[r].sid # None
            /\ issued[req[r].sid] = rows[i].owner
     /\ \A u \in User : secret'[u] # secret[u] /\ secret[u] # None =>
          \E r \in Req :
            /\ req[r].at = "store" /\ req'[r] = Idle /\ issued[req[r].sid] = u
            /\ req[r].call.old = secret[u] \/ req[r].stale]_vars

(* After a signal serveHTTP returns, even if a handler hangs.               *)
Stops == Draining ~> result # None

=============================================================================
