--------------------------- MODULE RequestsProofs ---------------------------
(***************************************************************************)
(* For any number of requests, sessions, users and todos.                   *)
(*                                                                          *)
(* Serving: serveHTTP returns nil only when nothing is being served.  Once  *)
(* the listeners are closed no request arrives, so that the requests        *)
(* Shutdown found answered are still the last ones when serve and the       *)
(* goroutine have both returned (Stopping).                                 *)
(*                                                                          *)
(* Sessions: what a request has read of its session stays true of it while  *)
(* others touch, end and clean up sessions (Known).                         *)
(*                                                                          *)
(* Todos and passwords: the copy that an update holds is the row until      *)
(* another writes that row, and from then on is marked stale (Kept).        *)
(*                                                                          *)
(* Guesses: the failures of the window and the requests that may still add  *)
(* one are together no more than the limit lets in (Counted).               *)
(***************************************************************************)
EXTENDS Requests, FiniteSetTheorems, TLAPS

\* Every request has been answered.
AllIdle == \A r \in Req : req[r].at = "idle"

\* What the places of the goroutine and of serveHTTP say of listeners and requests.
Stopping ==
  /\ waiter \in {"closing", "done"} => ~serving
  /\ waiter = "done" => gaveUp \/ AllIdle
  /\ result = "nil" => ~serving /\ (gaveUp \/ AllIdle)

\* A request's step needs that request, and leaves the server alone.
LEMMA StepNeedsRequest ==
  ASSUME NEW r \in Req, Step(r)
  PROVE  Running /\ req[r].at # "idle" /\ UNCHANGED server
  BY DEF Step, Admit, Lookup, DeleteExpired, Renew, Touch, Refuse, Allow, Verify, SignIn, Grant, Logout,
         Me, SignUp, ChangePassword, StorePassword, ListTodos, GetTodo, SetToggleFailure,
         CreateTodo, ReadTodo, SaveTodo, DeleteTodo, Handles, At, NotServer, NotAuth, NotSessions

LEMMA StoppingInit ==
  Init => Stopping
  BY RequestsAssumption DEF Init, Stopping

LEMMA StoppingNext ==
  ASSUME Stopping, [Next]_vars
  PROVE  Stopping'
<1>1. CASE Tick \/ Cleanup
  BY <1>1 DEF Tick, Cleanup, NotServer, server, Stopping, AllIdle
<1>2. CASE Signal \/ Shutdown
  BY <1>2 DEF Signal, Shutdown, NotRequests, Stopping, AllIdle
<1>3. CASE Drained \/ Expire
  BY <1>3 DEF Drained, Expire, NotRequests, Stopping, AllIdle
<1>4. CASE Return
  BY <1>4 DEF Return, Waited, NotRequests, Stopping, AllIdle
<1>5. CASE ListenerFails
  BY <1>5 DEF ListenerFails, NotRequests, Stopping, AllIdle
<1>6. CASE \E r \in Req, c \in Calls, s \in Sid \cup {None} : Arrive(r, c, s)
  <2>1. serving /\ UNCHANGED server
    BY <1>6 DEF Arrive
  <2> QED
    BY <2>1 DEF Stopping, server
<1>7. CASE \E r \in Req : Step(r)
  <2>1. ~AllIdle /\ UNCHANGED server
    BY <1>7, StepNeedsRequest DEF AllIdle
  <2> QED
    BY <2>1 DEF Stopping, server
<1>8. CASE UNCHANGED vars
  BY <1>8 DEF vars, server, Stopping, AllIdle
<1> QED
  BY <1>1, <1>2, <1>3, <1>4, <1>5, <1>6, <1>7, <1>8 DEF Next, Goroutine

(***************************************************************************)
(* When serveHTTP returns nil, the requests it had admitted were answered,  *)
(* unless Shutdown's context had expired (serveHTTP of server.go).          *)
(***************************************************************************)
THEOREM AlwaysClean == Spec => []ReturnsClean
<1>1. Init => Stopping
  BY StoppingInit
<1>2. Stopping => ReturnsClean
  BY DEF Stopping, ReturnsClean, AllIdle
<1> QED
  BY <1>1, <1>2, StoppingNext, PTL DEF Spec

-----------------------------------------------------------------------------
(***************************************************************************)
(* Who a request acts for.                                                  *)
(***************************************************************************)
Places == {"arrived", "cookie", "found", "touch", "expired", "checked", "verify", "grant", "store", "save"}

Request ==
  [at: Places, call: Calls, sid: Sid \cup {None}, late: BOOLEAN, user: User \cup {None},
   fresh: BOOLEAN, stamp: Nat, row: Row \cup {None}, stale: BOOLEAN]

TableTypes ==
  /\ now \in Nat
  /\ req \in [Req -> {Idle} \cup Request]
  /\ sessions \in [Sid -> Session \cup {None}]
  /\ issued \in [Sid -> User \cup {None}]
  /\ seen \in [Sid -> Nat]
  /\ ended \subseteq Sid

\* A session is its user's, is not renewed for longer than from its last use,
\* and is gone once a logout has deleted it.
SessionOK(s) ==
  /\ sessions[s] # None =>
       sessions[s].user = issued[s] /\ sessions[s].expires <= seen[s] + Duration
  /\ seen[s] <= now
  /\ s \in ended => issued[s] # None /\ (kind # "cookie" => sessions[s] = None)

\* What a request at its place knows of its session, its user and its call.
RequestOK(r) ==
  LET q == req[r] IN
  /\ q.sid # None => issued[q.sid] # None
  /\ q.late => q.sid \in ended
  /\ q.at \in {"cookie", "found", "touch", "expired"} => q.sid # None
  /\ q.at = "touch" => q.stamp <= seen[q.sid] + Duration
  /\ q.at \in {"verify", "grant"} => q.call.op \in {"login", "signin", "signup"}
  /\ q.at = "store" => q.call.op = "change" /\ q.user # None
  /\ q.at = "save" => q.call.op = "update" /\ q.user # None /\ q.row # None /\ q.row.owner = q.user
  /\ q.user # None =>
       /\ q.sid # None /\ issued[q.sid] = q.user /\ q.fresh
       /\ kind # "cookie" => ~q.late

Known ==
  /\ TableTypes
  /\ \A s \in Sid : SessionOK(s)
  /\ \A r \in Req : req[r].at # "idle" => RequestOK(r)

\* The tables only ever learn: nobody is issued a session that was somebody's, no
\* logout is taken back, and a session is not used earlier than it was.
Learn ==
  /\ kind' = kind /\ now <= now' /\ ended \subseteq ended'
  /\ \A s \in Sid : /\ issued[s] # None => issued'[s] = issued[s]
                    /\ seen[s] <= seen'[s]

\* A request stays as it was, but for a copy that becomes stale.
Stays(r) ==
  \/ req'[r] = req[r]
  \/ req[r].at # "idle" /\ req'[r] = [req[r] EXCEPT !.stale = TRUE]

\* What is left of the request of r: where it came from.
SameCall(r) == req'[r].call = req[r].call /\ req'[r].sid = req[r].sid /\ req'[r].late = req[r].late

LEMMA StaysFields ==
  ASSUME TableTypes, NEW r \in Req, Stays(r)
  PROVE  /\ req'[r].at = req[r].at
         /\ req[r].at # "idle" =>
              /\ SameCall(r) /\ req'[r].user = req[r].user /\ req'[r].fresh = req[r].fresh
              /\ req'[r].stamp = req[r].stamp /\ req'[r].row = req[r].row
<1>1. req[r].at # "idle" => req[r] \in Request
  BY DEF TableTypes, Idle
<1> QED
  BY <1>1 DEF Stays, SameCall, Request

LEMMA RequestLasts ==
  ASSUME TableTypes, Learn, TableTypes', NEW r \in Req, req[r].at # "idle", RequestOK(r), Stays(r)
  PROVE  RequestOK(r)'
<1>1. req[r] \in Request
  BY DEF TableTypes, Idle
<1>2. req[r].sid # None =>
        /\ req[r].sid \in Sid /\ issued'[req[r].sid] = issued[req[r].sid]
        /\ seen[req[r].sid] <= seen'[req[r].sid]
  BY <1>1 DEF Request, RequestOK, Learn
<1>3. req[r].at = "touch" => req[r].stamp <= seen'[req[r].sid] + Duration
  <2> SUFFICES ASSUME req[r].at = "touch"
               PROVE  req[r].stamp <= seen'[req[r].sid] + Duration
    OBVIOUS
  <2>1. req[r].sid # None /\ req[r].stamp <= seen[req[r].sid] + Duration
    BY DEF RequestOK
  <2>2. seen[req[r].sid] \in Nat /\ seen'[req[r].sid] \in Nat /\ req[r].stamp \in Nat /\ Duration \in Nat
    BY <1>1, <1>2, <2>1, RequestsAssumption DEF TableTypes, Request
  <2> QED
    BY <1>2, <2>1, <2>2
<1> QED
  BY <1>2, <1>3, StaysFields DEF RequestOK, Learn, SameCall

LEMMA KnownStep ==
  ASSUME Known, NEW r \in Req, \A q \in Req \ {r} : Stays(q), Learn, TableTypes',
         \A s \in Sid : SessionOK(s)',
         req'[r].at # "idle" => RequestOK(r)'
  PROVE  Known'
<1>1. ASSUME NEW q \in Req \ {r}, req'[q].at # "idle"
      PROVE  RequestOK(q)'
  <2>1. req[q].at # "idle" /\ RequestOK(q) /\ Stays(q)
    BY <1>1, StaysFields DEF Known
  <2> QED
    BY <2>1, RequestLasts DEF Known
<1> QED
  BY <1>1 DEF Known

\* Tables that a step leaves alone are as good as before.
LEMMA TablesStill ==
  ASSUME Known, now' = now, UNCHANGED <<kind, sessions, issued, seen, ended>>,
         req' \in [Req -> {Idle} \cup Request]
  PROVE  /\ Learn /\ TableTypes'
         /\ \A s \in Sid : SessionOK(s)'
<1>1. \A n \in Nat : n <= n
  OBVIOUS
<1>2. Learn
  BY <1>1 DEF Known, TableTypes, Learn
<1> QED
  BY <1>2 DEF Known, TableTypes, SessionOK

\* Steps of one request that only answer it or take it elsewhere.
LEMMA Answered ==
  ASSUME Known, NEW r \in Req, Answer(r), now' = now, UNCHANGED <<kind, sessions, issued, seen, ended>>
  PROVE  Known'
<1>1. req' \in [Req -> {Idle} \cup Request] /\ req'[r] = Idle
  BY DEF Answer, Known, TableTypes
<1>2. \A q \in Req \ {r} : Stays(q)
  BY DEF Answer, Known, TableTypes, Stays
<1>3. req'[r].at = "idle"
  BY <1>1 DEF Idle
<1> QED
  BY <1>1, <1>2, <1>3, TablesStill, KnownStep

LEMMA GotoFields ==
  ASSUME TableTypes, NEW r \in Req, req[r].at # "idle", NEW p \in Places, Goto(r, p)
  PROVE  /\ req' \in [Req -> {Idle} \cup Request] /\ req[r] \in Request
         /\ \A q \in Req \ {r} : Stays(q)
         /\ req'[r].at = p /\ SameCall(r)
         /\ req'[r].user = req[r].user /\ req'[r].fresh = req[r].fresh
         /\ req'[r].stamp = req[r].stamp /\ req'[r].row = req[r].row /\ req'[r].stale = req[r].stale
<1>0. req \in [Req -> {Idle} \cup Request] /\ req' = [req EXCEPT ![r].at = p]
  BY DEF TableTypes, Goto
<1>1. req[r] \in Request
  BY <1>0 DEF Idle
<1> DEFINE x == [req[r] EXCEPT !.at = p]
<1>2. /\ x \in Request /\ x.at = p /\ x.call = req[r].call /\ x.sid = req[r].sid /\ x.late = req[r].late
      /\ x.user = req[r].user /\ x.fresh = req[r].fresh /\ x.stamp = req[r].stamp /\ x.row = req[r].row
      /\ x.stale = req[r].stale
  BY <1>1 DEF Request
<1>3. req' = [req EXCEPT ![r] = x]
  BY <1>0
<1> HIDE DEF x
<1>4. req' \in [Req -> {Idle} \cup Request] /\ req'[r] = x
  BY <1>0, <1>2, <1>3
<1>5. \A q \in Req \ {r} : Stays(q)
  BY <1>0, <1>3 DEF Stays
<1> QED
  BY <1>1, <1>2, <1>4, <1>5 DEF SameCall

\* A request goes to a place where no more is asked of it.
LEMMA Moved ==
  ASSUME Known, NEW r \in Req, req[r].at # "idle", NEW p \in Places, Goto(r, p),
         now' = now, UNCHANGED <<kind, sessions, issued, seen, ended>>,
         p \in {"cookie", "expired"} => req[r].sid # None,
         p \notin {"found", "touch", "save"},
         p \in {"verify", "grant"} => req[r].call.op \in {"login", "signin", "signup"},
         p = "store" => req[r].call.op = "change" /\ req[r].user # None
  PROVE  Known'
<1>1. TableTypes /\ RequestOK(r)
  BY DEF Known
<1>2. RequestOK(r)'
  BY <1>1, GotoFields DEF RequestOK, SameCall
<1> QED
  BY <1>1, <1>2, GotoFields, TablesStill, KnownStep

LEMMA KnownLookup ==
  ASSUME Known, NEW r \in Req, Lookup(r)
  PROVE  Known'
<1> DEFINE s == req[r].sid
<1>0. /\ TableTypes /\ RequestOK(r) /\ req[r] \in Request /\ req[r].at = "cookie" /\ s \in Sid
      /\ SessionOK(s)
      /\ now' = now /\ UNCHANGED <<kind, sessions, issued, seen, ended>>
  <2>1. TableTypes /\ RequestOK(r) /\ req[r] \in Request /\ req[r].at = "cookie"
    BY DEF Known, TableTypes, Lookup, At, Idle
  <2>2. s \in Sid
    BY <2>1 DEF RequestOK, Request
  <2>3. now' = now /\ UNCHANGED <<kind, sessions, issued, seen, ended>>
    BY DEF Lookup, NotServer, auth
  <2> QED
    BY <2>1, <2>2, <2>3 DEF Known
<1>1. CASE \E p \in {"expired", "checked"} : Goto(r, p)
  BY <1>0, <1>1, Moved DEF Places, RequestOK
<1>2. CASE Alive(s) /\ ~\E p \in {"expired", "checked"} : Goto(r, p)
  <2> DEFINE x == [req[r] EXCEPT !.at = "found", !.user = sessions[s].user,
                                 !.fresh = now <= seen[s] + Duration]
  <2>1. /\ sessions[s] \in Session /\ sessions[s] # None /\ now <= sessions[s].expires
        /\ now \in Nat /\ Duration \in Nat /\ seen[s] \in Nat /\ sessions[s].expires \in Nat
    BY <1>0, <1>2, RequestsAssumption DEF Alive, TableTypes, Session
  <2>2. /\ sessions[s].user \in User /\ sessions[s].user = issued[s]
        /\ now <= seen[s] + Duration
        /\ kind # "cookie" => ~req[r].late
    <3>1. now <= seen[s] + Duration
      BY <1>0, <2>1 DEF SessionOK
    <3> QED
      BY <1>0, <2>1, <3>1 DEF SessionOK, RequestOK, Session
  <2>3. /\ x \in Request /\ x.at = "found" /\ x.user = issued[s] /\ x.fresh
        /\ x.call = req[r].call /\ x.sid = s /\ x.late = req[r].late
    <3>1. (now <= seen[s] + Duration) \in BOOLEAN
      BY <2>1
    <3> QED
      BY <1>0, <2>2, <3>1 DEF Request, Places
  <2>4. req' = [req EXCEPT ![r] = x]
    BY <1>0, <1>2 DEF Lookup
  <2> HIDE DEF x
  <2>5. req' \in [Req -> {Idle} \cup Request] /\ req'[r] = x /\ \A q \in Req \ {r} : Stays(q)
    BY <1>0, <2>3, <2>4 DEF TableTypes, Stays
  <2>6. RequestOK(r)'
    BY <1>0, <2>2, <2>3, <2>5 DEF RequestOK
  <2> QED
    BY <1>0, <2>5, <2>6, TablesStill, KnownStep
<1> QED
  BY <1>1, <1>2 DEF Lookup

LEMMA KnownRenew ==
  ASSUME Known, NEW r \in Req, Renew(r)
  PROVE  Known'
<1> DEFINE s == req[r].sid
           x == [req[r] EXCEPT !.at = "touch", !.stamp = now + Duration]
<1>0. /\ TableTypes /\ RequestOK(r) /\ req[r] \in Request /\ req[r].at = "found" /\ s \in Sid
      /\ issued[s] # None
  <2>1. TableTypes /\ RequestOK(r) /\ req[r] \in Request /\ req[r].at = "found"
    BY DEF Known, TableTypes, Renew, At, Idle
  <2> QED
    BY <2>1 DEF RequestOK, Request
<1>1. now \in Nat /\ Duration \in Nat /\ now + Duration \in Nat /\ now <= now
  BY <1>0, RequestsAssumption DEF TableTypes
<1>2. /\ x \in Request /\ x.at = "touch" /\ x.stamp = now + Duration /\ x.user = req[r].user
      /\ x.fresh = req[r].fresh /\ x.call = req[r].call /\ x.sid = s /\ x.late = req[r].late
  BY <1>0, <1>1 DEF Request, Places
<1>3. /\ req' = [req EXCEPT ![r] = x] /\ seen' = [seen EXCEPT ![s] = now] /\ now' = now
      /\ UNCHANGED <<kind, sessions, issued, ended>>
  BY <1>0 DEF Renew, NotServer
<1> HIDE DEF x
<1>4. req' \in [Req -> {Idle} \cup Request] /\ req'[r] = x /\ \A q \in Req \ {r} : Stays(q)
  BY <1>0, <1>2, <1>3 DEF TableTypes, Stays
<1>5. \A t \in Sid : /\ seen'[t] = (IF t = s THEN now ELSE seen[t])
                     /\ seen[t] \in Nat /\ seen[t] <= now
  BY <1>0, <1>3 DEF TableTypes, Known, SessionOK
<1>6. TableTypes'
  BY <1>0, <1>1, <1>3, <1>4 DEF TableTypes
<1>7. Learn
  <2>1. \A t \in Sid : seen[t] <= seen'[t]
    BY <1>5
  <2> QED
    BY <1>1, <1>3, <2>1 DEF Learn
<1>8. \A t \in Sid : SessionOK(t)'
  <2> SUFFICES ASSUME NEW t \in Sid
               PROVE  SessionOK(t)'
    OBVIOUS
  <2>1. SessionOK(t)
    BY DEF Known
  <2>2. CASE t # s
    BY <1>3, <1>5, <2>1, <2>2 DEF SessionOK
  <2>3. CASE t = s
    <3>1. seen'[s] = now /\ now <= now
      BY <1>0, <1>1, <1>5
    <3>2. ASSUME sessions[s] # None
          PROVE  sessions[s].expires <= now + Duration
      <4>1. sessions[s].expires \in Nat /\ seen[s] \in Nat /\ seen[s] <= now
        BY <1>0, <1>5, <3>2 DEF TableTypes, Session
      <4> QED
        BY <1>1, <2>1, <2>3, <3>2, <4>1 DEF SessionOK
    <3> QED
      BY <1>0, <1>3, <2>1, <2>3, <3>1, <3>2 DEF SessionOK
  <2> QED
    BY <2>2, <2>3
<1>9. RequestOK(r)'
  <2>1. seen'[s] = now /\ now + Duration <= now + Duration
    BY <1>0, <1>1, <1>5
  <2> QED
    BY <1>0, <1>2, <1>3, <1>4, <2>1 DEF RequestOK
<1> QED
  BY <1>4, <1>6, <1>7, <1>8, <1>9, KnownStep

\* Sessions that are deleted, or renewed up to the use that was noted, are as good.
LEMMA SessionsWorse ==
  ASSUME Known, now' = now, UNCHANGED <<kind, issued, seen>>,
         sessions' \in [Sid -> Session \cup {None}], ended \subseteq ended', ended' \subseteq Sid,
         req' \in [Req -> {Idle} \cup Request],
         \A s \in Sid :
           \/ sessions'[s] = None
           \/ /\ sessions[s] # None /\ sessions'[s].user = sessions[s].user
              /\ sessions'[s].expires <= seen[s] + Duration,
         \A s \in ended' \ ended : issued[s] # None /\ (kind # "cookie" => sessions'[s] = None)
  PROVE  /\ Learn /\ TableTypes'
         /\ \A s \in Sid : SessionOK(s)'
<1>1. \A n \in Nat : n <= n
  OBVIOUS
<1>2. Learn
  BY <1>1 DEF Known, TableTypes, Learn
<1>3. TableTypes'
  BY DEF Known, TableTypes
<1>4. \A s \in Sid : SessionOK(s)'
  <2> SUFFICES ASSUME NEW s \in Sid
               PROVE  SessionOK(s)'
    OBVIOUS
  <2>1. SessionOK(s)
    BY DEF Known
  <2> QED
    BY <2>1 DEF SessionOK
<1> QED
  BY <1>2, <1>3, <1>4

LEMMA DeletedWorse ==
  ASSUME Known, NEW s \in Sid
  PROVE  /\ Deleted(s) \in [Sid -> Session \cup {None}]
         /\ \A t \in Sid : Deleted(s)[t] \in {None, sessions[t]}
         /\ kind # "cookie" => Deleted(s)[s] = None
  BY DEF Known, TableTypes, Deleted

LEMMA ExpiryBound ==
  ASSUME Known, NEW s \in Sid, sessions[s] # None
  PROVE  sessions[s].expires <= seen[s] + Duration
  BY DEF Known, SessionOK

LEMMA KnownDeletes ==
  ASSUME Known, NEW r \in Req, DeleteExpired(r) \/ Logout(r)
  PROVE  Known'
<1>0. TableTypes /\ RequestOK(r) /\ req[r] \in Request /\ req[r].at # "idle"
  BY DEF Known, TableTypes, DeleteExpired, Logout, Handles, At, Idle
<1> DEFINE s == req[r].sid
<1>1. now' = now /\ UNCHANGED <<kind, issued, seen>>
  BY DEF DeleteExpired, Logout, NotServer
<1>2. CASE DeleteExpired(r)
  <2>1. /\ s \in Sid /\ sessions' \in {Deleted(s), sessions} /\ ended' = ended
        /\ Goto(r, "checked")
    BY <1>0, <1>2 DEF DeleteExpired, At, RequestOK, Request
  <2>2. req' \in [Req -> {Idle} \cup Request] /\ (\A q \in Req \ {r} : Stays(q)) /\ RequestOK(r)'
    BY <1>0, <1>1, <2>1, GotoFields DEF RequestOK, SameCall, Places
  <2>3. /\ sessions' \in [Sid -> Session \cup {None}]
        /\ \A t \in Sid : sessions'[t] = None \/ (sessions[t] # None /\ sessions'[t] = sessions[t])
    BY <1>0, <2>1, DeletedWorse DEF TableTypes
  <2>4. ended' \subseteq Sid /\ ended' \ ended = {}
    BY <1>0, <2>1 DEF TableTypes
  <2>5. Learn /\ TableTypes' /\ \A t \in Sid : SessionOK(t)'
    BY <1>1, <2>2, <2>3, <2>4, ExpiryBound, SessionsWorse, <2>1
  <2> QED
    BY <2>2, <2>5, KnownStep
<1>3. CASE Logout(r)
  <2>1. req' \in [Req -> {Idle} \cup Request] /\ req'[r].at = "idle" /\ \A q \in Req \ {r} : Stays(q)
    BY <1>0, <1>3 DEF Logout, Answer, TableTypes, Idle, Stays
  <2>2. \/ s # None /\ sessions' = Deleted(s) /\ ended' = ended \cup {s}
        \/ UNCHANGED <<sessions, ended>>
    BY <1>3 DEF Logout
  <2>3. s # None => s \in Sid /\ issued[s] # None
    BY <1>0 DEF Request, RequestOK
  <2>4. /\ sessions' \in [Sid -> Session \cup {None}]
        /\ \A t \in Sid : sessions'[t] = None \/ (sessions[t] # None /\ sessions'[t] = sessions[t])
        /\ s \in ended' \ ended /\ kind # "cookie" => sessions'[s] = None
    BY <1>0, <2>2, <2>3, DeletedWorse DEF TableTypes
  <2>5. /\ ended \subseteq ended' /\ ended' \subseteq Sid
        /\ \A t \in ended' \ ended : issued[t] # None /\ (kind # "cookie" => sessions'[t] = None)
    BY <1>0, <2>2, <2>3, <2>4 DEF TableTypes
  <2>6. Learn /\ TableTypes' /\ \A t \in Sid : SessionOK(t)'
    BY <1>1, <2>1, <2>4, <2>5, ExpiryBound, SessionsWorse
  <2> QED
    BY <2>1, <2>6, KnownStep
<1> QED
  BY <1>2, <1>3

LEMMA KnownTouch ==
  ASSUME Known, NEW r \in Req, Touch(r)
  PROVE  Known'
<1> DEFINE s == req[r].sid
<1>0. TableTypes /\ RequestOK(r) /\ req[r] \in Request /\ req[r].at = "touch"
  BY DEF Known, TableTypes, Touch, At, Idle
<1>1. /\ s \in Sid /\ req[r].stamp \in Nat /\ req[r].stamp <= seen[s] + Duration
  BY <1>0 DEF RequestOK, Request
<1>2. /\ now' = now /\ UNCHANGED <<kind, issued, seen, ended>>
      /\ sessions' \in {Touched(s, req[r].stamp), sessions}
  BY DEF Touch, NotServer
<1>3. PICK u \in {req[r].user, None} :
        req' = [req EXCEPT ![r] = [req[r] EXCEPT !.at = "checked", !.user = u, !.stamp = 0]]
  BY <1>0 DEF Touch, TableTypes
<1> DEFINE x == [req[r] EXCEPT !.at = "checked", !.user = u, !.stamp = 0]
<1>4. /\ x \in Request /\ x.at = "checked" /\ x.user = u
      /\ x.call = req[r].call /\ x.sid = s /\ x.late = req[r].late /\ x.fresh = req[r].fresh
  <2>1. u \in User \cup {None}
    BY <1>0 DEF Request
  <2> QED
    BY <1>0, <2>1 DEF Request, Places
<1> HIDE DEF x
<1>5. req' \in [Req -> {Idle} \cup Request] /\ req'[r] = x /\ \A q \in Req \ {r} : Stays(q)
  BY <1>0, <1>3, <1>4 DEF TableTypes, Stays, x
<1>6. RequestOK(r)'
  BY <1>0, <1>2, <1>4, <1>5 DEF RequestOK
<1>7. CASE sessions' = sessions
  BY <1>2, <1>5, <1>6, <1>7, TablesStill, KnownStep
<1>8. CASE sessions' # sessions
  <2> DEFINE y == [sessions[s] EXCEPT !.expires = req[r].stamp]
  <2>1. sessions[s] # None /\ sessions[s] \in Session
    BY <1>0, <1>1, <1>2, <1>8 DEF Touched, TableTypes
  <2>2. y \in Session /\ y.user = sessions[s].user /\ y.expires = req[r].stamp
    BY <1>1, <2>1 DEF Session
  <2>3. sessions' = [sessions EXCEPT ![s] = y]
    BY <1>0, <1>1, <1>2, <1>8 DEF Touched, TableTypes
  <2> HIDE DEF y
  <2>4. sessions' \in [Sid -> Session \cup {None}]
    BY <1>0, <2>2, <2>3 DEF TableTypes
  <2>5. \A t \in Sid : sessions'[t] = IF t = s THEN y ELSE sessions[t]
    BY <1>0, <2>3 DEF TableTypes
  <2>6. \A t \in Sid :
          \/ sessions'[t] = None
          \/ /\ sessions[t] # None /\ sessions'[t].user = sessions[t].user
             /\ sessions'[t].expires <= seen[t] + Duration
    BY <1>1, <2>1, <2>2, <2>5, ExpiryBound
  <2>7. s \notin ended \/ kind = "cookie"
    BY <1>1, <2>1 DEF Known, SessionOK
  <2>8. ended \subseteq ended' /\ ended' \subseteq Sid /\ ended' \ ended = {}
    BY <1>0, <1>2 DEF TableTypes
  <2>9. Learn /\ TableTypes' /\ \A t \in Sid : SessionOK(t)'
    BY <1>2, <1>5, <2>4, <2>6, <2>8, SessionsWorse
  <2> QED
    BY <1>5, <1>6, <2>9, KnownStep
<1> QED
  BY <1>7, <1>8

\* A session that there is was issued.
LEMMA NoneIsNobody ==
  ASSUME Known, NEW s \in Sid, sessions[s] # None
  PROVE  issued[s] # None
  BY NothingAssumption DEF Known, TableTypes, SessionOK, Session

LEMMA KnownGrant ==
  ASSUME Known, NEW r \in Req, NEW s \in Sid, Grant(r, s)
  PROVE  Known'
<1> DEFINE y == [user |-> req[r].call.user, expires |-> now + Duration]
<1>0. TableTypes /\ RequestOK(r) /\ req[r] \in Request /\ req[r].at = "grant" /\ issued[s] = None
  BY DEF Known, TableTypes, Grant, At, Idle
<1>1. req[r].call.user \in User
  <2>1. req[r].call \in Calls /\ req[r].call.op \in {"login", "signin", "signup"}
    BY <1>0 DEF RequestOK, Request
  <2>2. req[r].call \in LoginCall \cup AccountCall
    BY <2>1, RequestsAssumption
    DEF Plain, LoginCall, AccountCall, ChangeCall, CreateCall, UpdateCall, OneCall, ListCall, ToggleCall
  <2> QED
    BY <2>2 DEF LoginCall, AccountCall
<1>2. /\ sessions' = [sessions EXCEPT ![s] = y] \/ sessions' = sessions
      /\ issued' = [issued EXCEPT ![s] = req[r].call.user]
      /\ seen' = [seen EXCEPT ![s] = now]
      /\ now' = now /\ UNCHANGED <<kind, ended>>
  BY DEF Grant, NotServer
<1>3. now \in Nat /\ Duration \in Nat /\ now + Duration \in Nat
  BY <1>0, RequestsAssumption DEF TableTypes
<1>4. y \in Session /\ y.user = req[r].call.user /\ y.expires = now + Duration
  BY <1>1, <1>3 DEF Session
<1> HIDE DEF y
<1>5. req' \in [Req -> {Idle} \cup Request] /\ req'[r].at = "idle" /\ \A q \in Req \ {r} : Stays(q)
  BY <1>0 DEF Grant, Answer, TableTypes, Idle, Stays
<1>6. TableTypes'
  BY <1>0, <1>1, <1>2, <1>3, <1>4, <1>5 DEF TableTypes
<1>7. \A t \in Sid : /\ sessions'[t] = sessions[t] \/ (t = s /\ sessions'[t] = y)
                     /\ issued'[t] = IF t = s THEN req[r].call.user ELSE issued[t]
                     /\ seen'[t] = IF t = s THEN now ELSE seen[t]
                     /\ seen[t] \in Nat /\ seen[t] <= now
  BY <1>0, <1>2 DEF TableTypes, Known, SessionOK
<1>8. Learn
  <2>1. \A n \in Nat : n <= n
    OBVIOUS
  <2> QED
    BY <1>0, <1>2, <1>3, <1>7, <2>1 DEF Learn
<1>9. \A t \in Sid : SessionOK(t)'
  <2> SUFFICES ASSUME NEW t \in Sid
               PROVE  SessionOK(t)'
    OBVIOUS
  <2>1. SessionOK(t)
    BY DEF Known
  <2>2. CASE t # s
    BY <1>2, <1>7, <2>1, <2>2 DEF SessionOK
  <2>3. CASE t = s
    <3>1. now <= now /\ now + Duration <= now + Duration
      BY <1>3
    <3>2. s \notin ended /\ sessions[s] = None
      BY <1>0, <2>1, <2>3, NoneIsNobody DEF SessionOK, TableTypes, Session
    <3> QED
      BY <1>2, <1>4, <1>7, <2>3, <3>1, <3>2 DEF SessionOK
  <2> QED
    BY <2>2, <2>3
<1> QED
  BY <1>5, <1>6, <1>8, <1>9, KnownStep

LEMMA KnownCleanup ==
  ASSUME Known, Cleanup
  PROVE  Known'
<1>0. TableTypes /\ \A r \in Req : req[r].at # "idle" => RequestOK(r)
  BY DEF Known
<1>1. /\ now' = now /\ UNCHANGED <<req, kind, issued, seen, ended>>
      /\ sessions' = [s \in Sid |-> IF sessions[s] # None /\ sessions[s].expires < now
                                    THEN None ELSE sessions[s]]
  BY DEF Cleanup, NotServer
<1>2. /\ sessions' \in [Sid -> Session \cup {None}]
      /\ \A t \in Sid : sessions'[t] = None \/ (sessions[t] # None /\ sessions'[t] = sessions[t])
  BY <1>0, <1>1 DEF TableTypes
<1>3. ended \subseteq ended' /\ ended' \subseteq Sid /\ ended' \ ended = {}
      /\ req' \in [Req -> {Idle} \cup Request]
  BY <1>0, <1>1 DEF TableTypes
<1>4. Learn /\ TableTypes' /\ \A t \in Sid : SessionOK(t)'
  BY <1>1, <1>2, <1>3, ExpiryBound, SessionsWorse
<1>5. \A r \in Req : req'[r].at # "idle" => RequestOK(r)'
  BY <1>0, <1>1, <1>4, RequestLasts DEF Stays
<1> QED
  BY <1>4, <1>5 DEF Known
LEMMA KnownInit ==
  Init => Known
<1> SUFFICES ASSUME Init
             PROVE  Known
  OBVIOUS
<1>1. TableTypes
  BY DEF Init, TableTypes
<1>2. \A s \in Sid : SessionOK(s)
  BY DEF Init, SessionOK
<1>3. \A r \in Req : req[r].at = "idle"
  BY DEF Init, Idle
<1> QED
  BY <1>1, <1>2, <1>3 DEF Known

LEMMA KnownTick ==
  ASSUME Known, Tick
  PROVE  Known'
<1>0. TableTypes /\ now' = now + 1 /\ UNCHANGED <<req, kind, sessions, issued, seen, ended>>
  BY DEF Known, Tick, auth
<1>1. now \in Nat /\ \A n \in Nat : n <= n /\ (n <= now => n <= now + 1)
  BY <1>0 DEF TableTypes
<1>2. TableTypes'
  BY <1>0, <1>1 DEF TableTypes
<1>3. Learn
  BY <1>0, <1>1 DEF Learn, TableTypes
<1>4. \A s \in Sid : SessionOK(s)'
  BY <1>0, <1>1 DEF Known, SessionOK, TableTypes
<1>5. \A r \in Req : req'[r].at # "idle" => RequestOK(r)'
  BY <1>0, <1>2, <1>3, RequestLasts DEF Known, Stays
<1> QED
  BY <1>2, <1>4, <1>5 DEF Known

\* A request comes with a session that was somebody's, or none.
LEMMA KnownArrive ==
  ASSUME Known, NEW r \in Req, NEW c \in Calls, NEW s \in Sid \cup {None},
         s # None => issued[s] # None, Arrive(r, c, s)
  PROVE  Known'
<1> DEFINE x == [at |-> "arrived", call |-> c, sid |-> s, late |-> s \in ended,
                 user |-> None, fresh |-> TRUE, stamp |-> 0, row |-> None, stale |-> FALSE]
<1>0. TableTypes /\ now' = now /\ UNCHANGED <<kind, sessions, issued, seen, ended>>
      /\ req' = [req EXCEPT ![r] = x]
  BY DEF Known, Arrive, auth
<1>1. /\ x \in Request /\ x.at = "arrived" /\ x.sid = s /\ x.late = (s \in ended) /\ x.user = None
  BY DEF Request, Places
<1> HIDE DEF x
<1>2. req' \in [Req -> {Idle} \cup Request] /\ req'[r] = x /\ \A q \in Req \ {r} : Stays(q)
  BY <1>0, <1>1 DEF TableTypes, Stays
<1>3. RequestOK(r)'
  BY <1>0, <1>1, <1>2 DEF RequestOK
<1> QED
  BY <1>0, <1>2, <1>3, TablesStill, KnownStep

\* The copy of a row that is the user's own.
LEMMA KnownRead ==
  ASSUME Known, NEW r \in Req, ReadTodo(r), rows \in [Todo -> Row \cup {None}]
  PROVE  Known'
<1> DEFINE i == req[r].call.id
           x == [req[r] EXCEPT !.at = "save", !.row = rows[i]]
<1>0. /\ TableTypes /\ RequestOK(r) /\ req[r] \in Request /\ req[r].at = "checked"
      /\ req[r].call.op = "update" /\ req[r].user # None
      /\ now' = now /\ UNCHANGED <<kind, sessions, issued, seen, ended>>
  BY DEF Known, TableTypes, ReadTodo, Handles, At, Idle, NeedsUser, NotAuth, auth, NotServer
<1>1. CASE Answer(r)
  BY <1>0, <1>1, Answered
<1>2. CASE ~Answer(r)
  <2>1. Readable(r, i) /\ req' = [req EXCEPT ![r] = x]
    BY <1>0, <1>2 DEF ReadTodo
  <2>2. i \in Todo
    <3>1. req[r].call \in UpdateCall
      BY <1>0, RequestsAssumption
      DEF Request, Plain, LoginCall, AccountCall, ChangeCall, CreateCall, UpdateCall, OneCall,
          ListCall, ToggleCall
    <3> QED
      BY <3>1 DEF UpdateCall
  <2>3. rows[i] \in Row /\ rows[i] # None /\ rows[i].owner = req[r].user
    BY <2>1, <2>2 DEF Readable
  <2>4. /\ x \in Request /\ x.at = "save" /\ x.call = req[r].call /\ x.sid = req[r].sid
        /\ x.late = req[r].late /\ x.user = req[r].user /\ x.fresh = req[r].fresh /\ x.row = rows[i]
    BY <1>0, <2>3 DEF Request, Places
  <2> HIDE DEF x, i
  <2>5. req' \in [Req -> {Idle} \cup Request] /\ req'[r] = x /\ \A q \in Req \ {r} : Stays(q)
    BY <1>0, <2>1, <2>4 DEF TableTypes, Stays
  <2>6. RequestOK(r)'
    BY <1>0, <2>3, <2>4, <2>5 DEF RequestOK
  <2> QED
    BY <1>0, <2>5, <2>6, TablesStill, KnownStep
<1> QED
  BY <1>1, <1>2

\* Copies that become stale are of other requests.
LEMMA KnownWrites ==
  ASSUME Known, NEW r \in Req, now' = now, UNCHANGED <<kind, sessions, issued, seen, ended>>,
         req' = [q \in Req |-> req'[q]], req'[r] = Idle, \A q \in Req \ {r} : Stays(q)
  PROVE  Known'
<1>0. TableTypes
  BY DEF Known
<1>1. Idle.at = "idle"
  BY DEF Idle
<1>2. ASSUME NEW q \in Req
      PROVE  req'[q] \in {Idle} \cup Request
  <2>1. req[q] \in {Idle} \cup Request /\ (req[q].at # "idle" => req[q] \in Request)
    BY <1>0 DEF TableTypes, Idle
  <2>2. req[q].at # "idle" => [req[q] EXCEPT !.stale = TRUE] \in Request
    BY <2>1 DEF Request
  <2> QED
    BY <2>1, <2>2 DEF Stays
<1>3. req' \in [Req -> {Idle} \cup Request]
  BY <1>2
<1> QED
  BY <1>1, <1>3, TablesStill, KnownStep

\* Each step of a request, the tables of todos being well-typed.
LEMMA KnownRequest ==
  ASSUME Known, NEW r \in Req, Step(r), rows \in [Todo -> Row \cup {None}]
  PROVE  Known'
<1>0. TableTypes /\ (req[r].at # "idle" => RequestOK(r))
  BY DEF Known
<1>1. CASE Lookup(r) \/ Renew(r)
  BY <1>1, KnownLookup, KnownRenew
<1>2. CASE DeleteExpired(r) \/ Logout(r)
  BY <1>2, KnownDeletes
<1>3. CASE Touch(r)
  BY <1>3, KnownTouch
<1>4. CASE \E s \in Sid : Grant(r, s)
  BY <1>4, KnownGrant
<1>5. CASE ReadTodo(r)
  BY <1>5, KnownRead
<1>6. CASE Refuse(r) \/ Me(r) \/ ListTodos(r) \/ GetTodo(r) \/ SetToggleFailure(r)
  BY <1>6, Answered
  DEF Refuse, Me, ListTodos, GetTodo, SetToggleFailure, NotAuth, NotServer, auth
<1>7. CASE Admit(r)
  <2>1. req[r].at = "arrived" /\ now' = now /\ UNCHANGED <<kind, sessions, issued, seen, ended>>
    BY <1>7 DEF Admit, At, NotServer, auth
  <2>2. CASE Answer(r)
    BY <2>1, <2>2, Answered
  <2>3. CASE ~Answer(r)
    <3>1. PICK p \in {"checked", "cookie"} : Goto(r, p) /\ (p = "cookie" => req[r].sid # None)
      BY <1>7, <2>3 DEF Admit
    <3> QED
      BY <2>1, <3>1, Moved DEF Places
  <2> QED
    BY <2>2, <2>3
<1>8. CASE Allow(r) \/ Verify(r) \/ SignIn(r)
  <2>1. req[r].at # "idle" /\ now' = now /\ UNCHANGED <<kind, sessions, issued, seen, ended>>
    BY <1>8 DEF Allow, Verify, SignIn, Handles, At, NotServer, auth
  <2>2. CASE Answer(r)
    BY <2>1, <2>2, Answered
  <2>3. CASE ~Answer(r)
    <3>1. PICK p \in {"verify", "grant"} : Goto(r, p)
      BY <1>8, <2>3 DEF Allow, Verify, SignIn
    <3>2. req[r].call.op \in {"login", "signin", "signup"}
      BY <1>0, <1>8 DEF Allow, Verify, SignIn, Handles, At, RequestOK
    <3> QED
      BY <2>1, <3>1, <3>2, Moved DEF Places
  <2> QED
    BY <2>2, <2>3
<1>9. CASE SignUp(r) \/ ChangePassword(r)
  <2>1. req[r].at # "idle" /\ now' = now /\ UNCHANGED <<kind, sessions, issued, seen, ended>>
    BY <1>9 DEF SignUp, ChangePassword, Handles, At, NotSessions, NotServer
  <2>2. CASE Answer(r)
    BY <2>1, <2>2, Answered
  <2>3. CASE ~Answer(r)
    <3>1. PICK p \in {"grant", "store"} :
            /\ Goto(r, p)
            /\ p = "grant" => req[r].call.op = "signup"
            /\ p = "store" => req[r].call.op = "change" /\ req[r].user # None
      BY <1>9, <2>3 DEF SignUp, ChangePassword, Handles, NeedsUser
    <3> QED
      BY <2>1, <3>1, Moved DEF Places
  <2> QED
    BY <2>2, <2>3
<1>10. CASE StorePassword(r)
  <2>1. req' = [q \in Req |-> req'[q]] /\ req'[r] = Idle /\ \A q \in Req \ {r} : Stays(q)
    BY <1>10 DEF StorePassword, Stays
  <2> QED
    BY <1>10, <2>1, KnownWrites DEF StorePassword, NotSessions, NotServer
<1>11. CASE CreateTodo(r) \/ SaveTodo(r) \/ DeleteTodo(r)
  <2>1. now' = now /\ UNCHANGED <<kind, sessions, issued, seen, ended>>
    BY <1>11 DEF CreateTodo, SaveTodo, DeleteTodo, NotAuth, NotServer, auth
  <2>2. CASE Answer(r)
    BY <2>1, <2>2, Answered
  <2>3. CASE \E i, x : Wrote(r, i, x)
    <3>1. req' = [q \in Req |-> req'[q]] /\ req'[r] = Idle /\ \A q \in Req \ {r} : Stays(q)
      BY <2>3 DEF Wrote, Stays
    <3> QED
      BY <2>1, <3>1, KnownWrites
  <2> QED
    BY <1>11, <2>2, <2>3 DEF CreateTodo, SaveTodo, DeleteTodo
<1> QED
  BY <1>1, <1>2, <1>3, <1>4, <1>5, <1>6, <1>7, <1>8, <1>9, <1>10, <1>11 DEF Step

LEMMA KnownNext ==
  ASSUME Known, [Next]_vars, rows \in [Todo -> Row \cup {None}]
  PROVE  Known'
<1>1. CASE UNCHANGED <<now, req, auth>>
  BY <1>1 DEF Known, TableTypes, SessionOK, RequestOK, auth
<1>2. CASE Tick
  BY <1>2, KnownTick
<1>3. CASE Cleanup
  BY <1>3, KnownCleanup
<1>4. CASE \E r \in Req, c \in Calls, s \in Sid \cup {None} :
             (s # None => issued[s] # None) /\ Arrive(r, c, s)
  BY <1>4, KnownArrive
<1>5. CASE \E r \in Req : Step(r)
  BY <1>5, KnownRequest
<1>6. CASE Signal \/ Goroutine \/ ListenerFails \/ UNCHANGED vars
  <2>1. UNCHANGED <<now, req, auth>>
    BY <1>6 DEF Signal, Goroutine, Shutdown, Drained, Expire, Return, ListenerFails, NotRequests, vars
  <2> QED
    BY <2>1, <1>1
<1> QED
  BY <1>2, <1>3, <1>4, <1>5, <1>6 DEF Next

-----------------------------------------------------------------------------
(***************************************************************************)
(* What the answers promised.                                               *)
(***************************************************************************)
Saving(r) == req[r].at = "save"

\* The rows are what was promised, but for those that an old copy was saved over.
RowsKept ==
  /\ rows \in [Todo -> Row \cup {None}] /\ promised \in [Todo -> Row \cup {None, Gone}]
  /\ \A i \in Todo : promised[i] = None => rows[i] = None /\ i \notin overwritten
  /\ \A i \in Todo \ overwritten : rows[i] = IF promised[i] = Gone THEN None ELSE promised[i]

\* A copy is the row itself until it is stale, and always has its owner.
CopyOK(r) ==
  LET i == req[r].call.id IN
  Saving(r) => /\ promised[i] # None
               /\ rows[i] # None => rows[i].owner = req[r].row.owner
               /\ ~req[r].stale => rows[i] = req[r].row

SameOwner(p, r) ==
  Saving(p) /\ Saving(r) /\ req[p].call.id = req[r].call.id => req[p].row.owner = req[r].row.owner

CopiesOK == (\A r \in Req : CopyOK(r)) /\ (\A p, r \in Req : SameOwner(p, r))

\* The password that a change was compared with is stored until another is.
SecretOK(r) == req[r].at = "store" /\ ~req[r].stale => secret[req[r].user] = req[r].call.old

SecretsOK == secret \in [User -> Password \cup {None}] /\ \A r \in Req : SecretOK(r)

Kept == RowsKept /\ CopiesOK /\ SecretsOK

LEMMA KeptInit ==
  Init => Kept
<1> SUFFICES ASSUME Init
             PROVE  Kept
  OBVIOUS
<1>1. \A r \in Req : req[r].at = "idle"
  BY DEF Init, Idle
<1>2. RowsKept
  BY NothingAssumption DEF Init, RowsKept
<1> QED
  BY <1>1, <1>2 DEF Init, Kept, CopiesOK, CopyOK, SameOwner, Saving, SecretsOK, SecretOK

LEMMA CallFields ==
  ASSUME NEW c \in Calls
  PROVE  /\ c.op = "create" => c.title \in Title
         /\ c.op = "update" => c.id \in Todo /\ c.title \in Title \cup {None} /\ c.done \in BOOLEAN \cup {None}
         /\ c.op = "delete" => c.id \in Todo
         /\ c.op = "signup" => c.user \in User /\ c.password \in Password
         /\ c.op = "change" => c.old \in Password /\ c.new \in Password
<1>1. c \in Plain \cup LoginCall \cup AccountCall \cup ChangeCall
               \cup CreateCall \cup UpdateCall \cup OneCall \cup ListCall \cup ToggleCall
  BY RequestsAssumption
<1> USE DEF Plain, LoginCall, AccountCall, ChangeCall, CreateCall, UpdateCall, OneCall, ListCall, ToggleCall
<1>2. c.op = "create" => c \in CreateCall
  BY <1>1
<1>3. c.op = "update" => c \in UpdateCall
  BY <1>1
<1>4. c.op = "delete" => c \in OneCall
  BY <1>1
<1>5. c.op = "signup" => c \in AccountCall
  BY <1>1
<1>6. c.op = "change" => c \in ChangeCall
  BY <1>1
<1> QED
  BY <1>2, <1>3, <1>4, <1>5, <1>6

\* What a place says of the call, for the requests that are at it.
LEMMA Placed ==
  ASSUME Known, NEW r \in Req, req[r].at # "idle"
  PROVE  /\ TableTypes /\ req[r] \in Request /\ RequestOK(r)
         /\ req[r].call \in Calls
         /\ Saving(r) => req[r].call.op = "update" /\ req[r].call.id \in Todo /\ req[r].row \in Row
         /\ req[r].at = "store" => req[r].call.op = "change" /\ req[r].call.old \in Password
<1>1. TableTypes /\ req[r] \in Request /\ RequestOK(r)
  BY DEF Known, TableTypes, Idle
<1>2. req[r].call \in Calls
  BY <1>1 DEF Request
<1> QED
  BY <1>1, <1>2, CallFields DEF Saving, RequestOK, Request

LEMMA StaysFresh ==
  ASSUME Known, NEW r \in Req, Stays(r), req'[r].at # "idle"
  PROVE  /\ req[r].at = req'[r].at /\ SameCall(r) /\ req'[r].user = req[r].user /\ req'[r].row = req[r].row
         /\ ~req'[r].stale => ~req[r].stale
<1>1. req[r].at # "idle" => req[r] \in Request
  BY DEF Known, TableTypes, Idle
<1> QED
  BY <1>1, StaysFields DEF Known, Stays, Request

\* Copies are as good after a step that writes no row and makes no copy.
LEMMA CopiesLast ==
  ASSUME Known, CopiesOK, NEW r \in Req, \A q \in Req \ {r} : Stays(q),
         UNCHANGED <<rows, promised>>, req'[r].at # "save"
  PROVE  CopiesOK'
<1>1. ASSUME NEW q \in Req, req'[q].at = "save"
      PROVE  /\ Saving(q) /\ SameCall(q) /\ req'[q].row = req[q].row
             /\ ~req'[q].stale => ~req[q].stale
  BY <1>1, StaysFresh DEF Saving
<1> QED
  BY <1>1 DEF CopiesOK, CopyOK, SameOwner, Saving, SameCall

\* So are passwords after one that stores none.
LEMMA SecretsLast ==
  ASSUME Known, SecretsOK, NEW r \in Req, \A q \in Req \ {r} : Stays(q), UNCHANGED secret,
         req'[r].at = "store" => secret[req'[r].user] = req'[r].call.old
  PROVE  SecretsOK'
<1>1. ASSUME NEW q \in Req \ {r}, req'[q].at = "store"
      PROVE  /\ req[q].at = "store" /\ SameCall(q) /\ req'[q].user = req[q].user
             /\ ~req'[q].stale => ~req[q].stale
  BY <1>1, StaysFresh
<1> QED
  BY <1>1 DEF SecretsOK, SecretOK, SameCall

\* Steps that neither write a table nor read one.
Elsewhere(r) ==
  \/ Admit(r) \/ Lookup(r) \/ DeleteExpired(r) \/ Renew(r) \/ Touch(r) \/ Refuse(r)
  \/ Allow(r) \/ Verify(r) \/ SignIn(r) \/ (\E s \in Sid : Grant(r, s))
  \/ Logout(r) \/ Me(r) \/ ListTodos(r) \/ GetTodo(r) \/ SetToggleFailure(r)

LEMMA ElsewhereStep ==
  ASSUME Known, NEW r \in Req, Elsewhere(r)
  PROVE  /\ \A q \in Req \ {r} : Stays(q)
         /\ UNCHANGED <<rows, promised, overwritten, secret>>
         /\ req'[r].at \notin {"save", "store"}
<1> USE DEF Elsewhere
<1>0. TableTypes /\ (req[r].at # "idle" => req[r] \in Request)
  BY DEF Known, TableTypes, Idle
<1>1. UNCHANGED <<rows, promised, overwritten, secret>>
  BY DEF Admit, Lookup, DeleteExpired, Renew, Touch, Refuse, Allow, Verify, SignIn, Grant, Logout, Me,
         ListTodos, GetTodo, SetToggleFailure, NotAuth, auth, todos
<1>2. req[r].at # "idle"
  BY StepNeedsRequest DEF Step
<1>3. CASE Answer(r)
  BY <1>0, <1>1, <1>3 DEF Answer, Stays, Idle, TableTypes
<1>4. CASE \E p \in {"checked", "cookie", "expired", "verify", "grant"} : Goto(r, p)
  BY <1>0, <1>1, <1>2, <1>4, GotoFields DEF Places
<1>5. CASE \E u, f : req' = [req EXCEPT ![r] = [@ EXCEPT !.at = "found", !.user = u, !.fresh = f]]
  BY <1>0, <1>1, <1>2, <1>5 DEF Stays, TableTypes, Request
<1>6. CASE \E t : req' = [req EXCEPT ![r] = [@ EXCEPT !.at = "touch", !.stamp = t]]
  BY <1>0, <1>1, <1>2, <1>6 DEF Stays, TableTypes, Request
<1>7. CASE Touch(r)
  <2>1. PICK u : req' = [req EXCEPT ![r] = [@ EXCEPT !.at = "checked", !.user = u, !.stamp = 0]]
    BY <1>7 DEF Touch
  <2> QED
    BY <1>0, <1>1, <1>2, <2>1 DEF Stays, TableTypes, Request
<1>8. \/ Answer(r) \/ (\E p \in {"checked", "cookie", "expired", "verify", "grant"} : Goto(r, p))
      \/ (\E u, f : req' = [req EXCEPT ![r] = [@ EXCEPT !.at = "found", !.user = u, !.fresh = f]])
      \/ (\E t : req' = [req EXCEPT ![r] = [@ EXCEPT !.at = "touch", !.stamp = t]])
      \/ Touch(r)
  <2>1. CASE Lookup(r)
    BY <2>1 DEF Lookup
  <2>2. CASE Renew(r)
    BY <2>2 DEF Renew
  <2>3. CASE ~Lookup(r) /\ ~Renew(r)
    BY <2>3 DEF Admit, DeleteExpired, Refuse, Allow, Verify, SignIn, Grant, Logout, Me,
         ListTodos, GetTodo, SetToggleFailure
  <2> QED
    BY <2>1, <2>2, <2>3
<1> QED
  BY <1>3, <1>4, <1>5, <1>6, <1>7, <1>8

LEMMA KeptElsewhere ==
  ASSUME Known, Kept, NEW r \in Req, Elsewhere(r)
  PROVE  Kept'
<1>1. RowsKept'
  BY ElsewhereStep DEF Kept, RowsKept
<1>2. CopiesOK' /\ SecretsOK'
  BY ElsewhereStep, CopiesLast, SecretsLast DEF Kept
<1> QED
  BY <1>1, <1>2 DEF Kept

\* An answer that changes nothing, and a place where no table is read or written.
LEMMA KeptAnswered ==
  ASSUME Known, Kept, NEW r \in Req, req[r].at # "idle",
         \/ Answer(r)
         \/ Goto(r, "grant")
         \/ Goto(r, "store") /\ secret[req[r].user] = req[r].call.old,
         UNCHANGED <<rows, promised, overwritten, secret>>
  PROVE  Kept'
<1>0. TableTypes /\ req[r] \in Request
  BY Placed
<1>1. /\ \A q \in Req \ {r} : Stays(q)
      /\ req'[r].at # "save"
      /\ req'[r].at = "store" => secret[req'[r].user] = req'[r].call.old
  <2>1. CASE Answer(r)
    BY <1>0, <2>1 DEF Answer, Stays, Idle, TableTypes
  <2>2. CASE Goto(r, "grant")
    BY <1>0, <2>2, GotoFields DEF Places
  <2>3. CASE Goto(r, "store") /\ secret[req[r].user] = req[r].call.old
    BY <1>0, <2>3, GotoFields DEF Places, SameCall
  <2> QED
    BY <2>1, <2>2, <2>3
<1>2. RowsKept'
  BY DEF Kept, RowsKept
<1>3. CopiesOK' /\ SecretsOK'
  BY <1>1, CopiesLast, SecretsLast DEF Kept
<1> QED
  BY <1>2, <1>3 DEF Kept

LEMMA KeptSignUp ==
  ASSUME Known, Kept, NEW r \in Req, SignUp(r)
  PROVE  Kept'
<1>0. TableTypes /\ req[r] \in Request /\ req[r].at # "idle" /\ req[r].call \in Calls /\ req[r].call.op = "signup"
  BY Placed DEF SignUp, Handles, At
<1> DEFINE c == req[r].call
<1>1. UNCHANGED <<rows, promised, overwritten>>
  BY DEF SignUp, NotSessions, todos
<1>2. CASE secret[c.user] # None
  BY <1>0, <1>1, <1>2, KeptAnswered DEF SignUp
<1>3. CASE secret[c.user] = None
  <2>1. secret' = [secret EXCEPT ![c.user] = c.password] /\ Goto(r, "grant")
    BY <1>3 DEF SignUp
  <2>2. c.user \in User /\ c.password \in Password
    BY <1>0, CallFields
  <2>3. (\A q \in Req \ {r} : Stays(q)) /\ req'[r].at = "grant"
    BY <1>0, <2>1, GotoFields DEF Places
  <2>4. secret' \in [User -> Password \cup {None}]
    BY <2>1, <2>2 DEF Kept, SecretsOK
  <2>5. ASSUME NEW q \in Req, req'[q].at = "store", ~req'[q].stale
        PROVE  secret'[req'[q].user] = req'[q].call.old
    <3>1. q # r
      BY <2>3, <2>5
    <3>2. /\ req[q].at = "store" /\ SameCall(q) /\ req'[q].user = req[q].user /\ ~req[q].stale
      BY <2>3, <2>5, <3>1, StaysFresh
    <3>3. secret[req[q].user] = req[q].call.old /\ req[q].call.old \in Password
      BY <3>2, Placed DEF Kept, SecretsOK, SecretOK
    <3>4. req[q].user # c.user
      BY <1>3, <3>3, NothingAssumption
    <3> QED
      BY <2>1, <3>2, <3>3, <3>4 DEF SameCall, Kept, SecretsOK
  <2>6. RowsKept'
    BY <1>1 DEF Kept, RowsKept
  <2>7. CopiesOK'
    BY <1>1, <2>3, CopiesLast DEF Kept
  <2> QED
    BY <2>4, <2>5, <2>6, <2>7 DEF Kept, SecretsOK, SecretOK
<1> QED
  BY <1>2, <1>3

LEMMA KeptStorePassword ==
  ASSUME Known, Kept, NEW r \in Req, StorePassword(r)
  PROVE  Kept'
<1> DEFINE u == req[r].user
<1>0. TableTypes /\ req[r] \in Request /\ req[r].at = "store" /\ req[r].call \in Calls
      /\ req[r].call.op = "change" /\ u \in User
  BY Placed DEF StorePassword, At, RequestOK, Request
<1>1. /\ secret' = [secret EXCEPT ![u] = req[r].call.new]
      /\ req' = [q \in Req |->
           IF q = r THEN Idle
           ELSE IF req[q].at = "store" /\ req[q].user = u THEN [req[q] EXCEPT !.stale = TRUE]
           ELSE req[q]]
      /\ UNCHANGED <<rows, promised, overwritten>>
  BY DEF StorePassword, NotSessions, todos
<1>2. (\A q \in Req \ {r} : Stays(q)) /\ req'[r].at = "idle"
  BY <1>1 DEF Stays, Idle
<1>3. secret' \in [User -> Password \cup {None}]
  BY <1>0, <1>1, CallFields DEF Kept, SecretsOK
<1>4. ASSUME NEW q \in Req, req'[q].at = "store", ~req'[q].stale
      PROVE  secret'[req'[q].user] = req'[q].call.old
  <2>1. q # r
    BY <1>2, <1>4
  <2>2. /\ req[q].at = "store" /\ SameCall(q) /\ req'[q].user = req[q].user /\ ~req[q].stale
    BY <1>2, <1>4, <2>1, StaysFresh
  <2>3. req[q].user # u
    <3>1. req[q] \in Request
      BY <2>2, Placed
    <3>2. [req[q] EXCEPT !.stale = TRUE].stale = TRUE
      BY <3>1 DEF Request
    <3> QED
      BY <1>1, <1>4, <2>1, <2>2, <3>2
  <2>4. secret[req[q].user] = req[q].call.old
    BY <2>2 DEF Kept, SecretsOK, SecretOK
  <2> QED
    BY <1>1, <2>2, <2>3, <2>4 DEF SameCall, Kept, SecretsOK
<1>5. RowsKept'
  BY <1>1 DEF Kept, RowsKept
<1>6. CopiesOK'
  BY <1>1, <1>2, CopiesLast DEF Kept
<1> QED
  BY <1>3, <1>4, <1>5, <1>6 DEF Kept, SecretsOK, SecretOK

\* Whose copies are left after row i is written: all but the writer's, those of i stale.
LEMMA KeptWrote ==
  ASSUME Known, Kept, NEW r \in Req, NEW i \in Todo, NEW x \in Row \cup {None}, Wrote(r, i, x),
         UNCHANGED secret,
         \A j \in Todo : promised[j] # None => promised'[j] # None,
         x # None =>
           \A q \in Req \ {r} : Saving(q) /\ req[q].call.id = i => req[q].row.owner = x.owner
  PROVE  CopiesOK' /\ SecretsOK'
<1>1. /\ rows' = [rows EXCEPT ![i] = x]
      /\ req' = [q \in Req |->
           IF q = r THEN Idle
           ELSE IF req[q].at = "save" /\ req[q].call.id = i THEN [req[q] EXCEPT !.stale = TRUE]
           ELSE req[q]]
  BY DEF Wrote
<1>2. (\A q \in Req \ {r} : Stays(q)) /\ req'[r].at = "idle"
  BY <1>1 DEF Stays, Idle
<1>3. ASSUME NEW q \in Req, req'[q].at = "save"
      PROVE  /\ q # r /\ Saving(q) /\ SameCall(q) /\ req'[q].row = req[q].row /\ req[q].call.id \in Todo
             /\ ~req'[q].stale => ~req[q].stale /\ req[q].call.id # i
  <2>1. q # r
    BY <1>2, <1>3
  <2>2. Saving(q) /\ SameCall(q) /\ req'[q].row = req[q].row /\ (~req'[q].stale => ~req[q].stale)
    BY <1>2, <1>3, <2>1, StaysFresh DEF Saving
  <2>3. req[q] \in Request /\ req[q].call.id \in Todo
    BY <2>2, Placed DEF Saving
  <2>4. [req[q] EXCEPT !.stale = TRUE].stale
    BY <2>3 DEF Request
  <2> QED
    BY <1>1, <2>1, <2>2, <2>3, <2>4 DEF Saving
<1>4. ASSUME NEW q \in Req
      PROVE  CopyOK(q)'
  <2> SUFFICES ASSUME req'[q].at = "save"
               PROVE  CopyOK(q)'
    BY DEF CopyOK, Saving
  <2> DEFINE j == req[q].call.id
  <2>1. /\ q # r /\ Saving(q) /\ req'[q].call = req[q].call /\ req'[q].row = req[q].row /\ j \in Todo
        /\ ~req'[q].stale => ~req[q].stale /\ j # i
    BY <1>3 DEF SameCall
  <2>2. /\ promised[j] # None
        /\ rows[j] # None => rows[j].owner = req[q].row.owner
        /\ ~req[q].stale => rows[j] = req[q].row
    BY <2>1 DEF Kept, CopiesOK, CopyOK
  <2>3. rows'[j] = IF j = i THEN x ELSE rows[j]
    BY <1>1, <2>1 DEF Kept, RowsKept
  <2>4. promised'[j] # None /\ (rows'[j] # None => rows'[j].owner = req'[q].row.owner)
    BY <2>1, <2>2, <2>3
  <2>5. ~req'[q].stale => rows'[j] = req'[q].row
    BY <2>1, <2>2, <2>3
  <2> QED
    BY <2>1, <2>4, <2>5 DEF CopyOK
<1>5. ASSUME NEW p \in Req, NEW q \in Req
      PROVE  SameOwner(p, q)'
  BY <1>3 DEF SameOwner, Saving, SameCall, Kept, CopiesOK
<1>6. SecretsOK'
  BY <1>2, SecretsLast DEF Kept
<1> QED
  BY <1>4, <1>5, <1>6 DEF CopiesOK

LEMMA KeptCreate ==
  ASSUME Known, Kept, NEW r \in Req, CreateTodo(r)
  PROVE  Kept'
<1>0. req[r] \in Request /\ req[r].at # "idle" /\ req[r].call.title \in Title /\ req[r].user \in User
      /\ UNCHANGED secret
  BY Placed, CallFields DEF CreateTodo, Handles, At, NeedsUser, NotAuth, auth, Request
<1>1. CASE Answer(r) /\ UNCHANGED todos
  BY <1>0, <1>1, KeptAnswered DEF todos
<1>2. CASE ~(Answer(r) /\ UNCHANGED todos)
  <2> DEFINE x == [owner |-> req[r].user, title |-> req[r].call.title, done |-> FALSE]
  <2>1. PICK i \in Todo : /\ promised[i] = None /\ Wrote(r, i, x)
                          /\ promised' = [promised EXCEPT ![i] = x]
                          /\ overwritten' = overwritten
    BY <1>2 DEF CreateTodo
  <2>2. x \in Row
    BY <1>0 DEF Row
  <2> HIDE DEF x
  <2>3. x # None /\ x # Gone
    BY <2>2, NothingAssumption
  <2>4. rows' = [rows EXCEPT ![i] = x]
    BY <2>1 DEF Wrote
  <2>5. RowsKept'
    BY <2>1, <2>2, <2>3, <2>4 DEF Kept, RowsKept
  <2>6. \A j \in Todo : promised[j] # None => promised'[j] # None
    BY <2>1, <2>3 DEF Kept, RowsKept
  <2>7. \A q \in Req \ {r} : ~(Saving(q) /\ req[q].call.id = i)
    BY <2>1 DEF Kept, CopiesOK, CopyOK
  <2>8. CopiesOK' /\ SecretsOK'
    BY <1>0, <2>1, <2>2, <2>6, <2>7, KeptWrote
  <2> QED
    BY <2>5, <2>8 DEF Kept
<1> QED
  BY <1>1, <1>2

LEMMA KeptDelete ==
  ASSUME Known, Kept, NEW r \in Req, DeleteTodo(r)
  PROVE  Kept'
<1> DEFINE i == req[r].call.id
<1>0. req[r].at # "idle" /\ i \in Todo /\ UNCHANGED <<secret, overwritten>>
  BY Placed, CallFields DEF DeleteTodo, Handles, At, NotAuth, auth
<1>1. CASE ~Readable(r, i)
  BY <1>0, <1>1, KeptAnswered DEF DeleteTodo
<1>2. CASE Readable(r, i)
  <2>1. Wrote(r, i, None) /\ promised' = [promised EXCEPT ![i] = Gone]
    BY <1>2 DEF DeleteTodo
  <2>2. rows' = [rows EXCEPT ![i] = None]
    BY <2>1 DEF Wrote
  <2>3. Gone # None
    BY NothingAssumption
  <2>4. RowsKept'
    BY <1>0, <2>1, <2>2, <2>3 DEF Kept, RowsKept
  <2>5. \A j \in Todo : promised[j] # None => promised'[j] # None
    BY <1>0, <2>1, <2>3 DEF Kept, RowsKept
  <2>6. CopiesOK' /\ SecretsOK'
    BY <1>0, <2>1, <2>5, KeptWrote
  <2> QED
    BY <2>4, <2>6 DEF Kept
<1> QED
  BY <1>1, <1>2

LEMMA KeptRead ==
  ASSUME Known, Kept, NEW r \in Req, ReadTodo(r)
  PROVE  Kept'
<1> DEFINE i == req[r].call.id
<1>0. /\ req[r] \in Request /\ req[r].at = "checked" /\ i \in Todo
      /\ UNCHANGED <<rows, promised, overwritten, secret>>
  BY Placed, CallFields DEF ReadTodo, Handles, At, NotAuth, auth, todos
<1>1. CASE Answer(r)
  BY <1>0, <1>1, KeptAnswered
<1>2. CASE ~Answer(r)
  <2> DEFINE x == [req[r] EXCEPT !.at = "save", !.row = rows[i]]
  <2>1. Readable(r, i) /\ req' = [req EXCEPT ![r] = x]
    BY <1>2 DEF ReadTodo
  <2>2. x.at = "save" /\ x.call = req[r].call /\ x.row = rows[i] /\ rows[i] # None
    BY <1>0, <2>1 DEF Request, Readable
  <2> HIDE DEF x
  <2>3. req'[r] = x /\ \A q \in Req \ {r} : Stays(q)
    BY <2>1 DEF Stays, Known, TableTypes
  <2>4. promised[i] # None
    BY <1>0, <2>2 DEF Kept, RowsKept
  <2>5. ASSUME NEW q \in Req \ {r}, req'[q].at = "save"
        PROVE  /\ Saving(q) /\ req'[q].call = req[q].call /\ req'[q].row = req[q].row
               /\ ~req'[q].stale => ~req[q].stale
    BY <2>3, <2>5, StaysFresh DEF Saving, SameCall
  <2>6. \A q \in Req : CopyOK(q)'
    <3> SUFFICES ASSUME NEW q \in Req
                 PROVE  CopyOK(q)'
      OBVIOUS
    <3>1. CASE q = r
      BY <1>0, <2>2, <2>3, <2>4, <3>1 DEF CopyOK
    <3>2. CASE q # r
      BY <1>0, <2>5, <3>2 DEF CopyOK, Saving, Kept, CopiesOK
    <3> QED
      BY <3>1, <3>2
  <2>7. \A q \in Req \ {r} : req'[q].at = "save" /\ req'[q].call.id = i => req'[q].row.owner = rows[i].owner
    BY <2>2, <2>5 DEF Kept, CopiesOK, CopyOK
  <2>8. \A p, q \in Req : SameOwner(p, q)'
    BY <2>2, <2>3, <2>5, <2>7 DEF SameOwner, Saving, Kept, CopiesOK
  <2>9. SecretsOK'
    BY <1>0, <2>2, <2>3, SecretsLast DEF Kept
  <2>10. RowsKept'
    BY <1>0 DEF Kept, RowsKept
  <2> QED
    BY <2>6, <2>8, <2>9, <2>10 DEF Kept, CopiesOK
<1> QED
  BY <1>1, <1>2

\* A row with the fields that an update gives.
LEMMA ChangedRow ==
  ASSUME NEW row \in Row, NEW c, c.title \in Title \cup {None}, c.done \in BOOLEAN \cup {None}
  PROVE  Changed(row, c) = [owner |-> row.owner,
                            title |-> IF c.title = None THEN row.title ELSE c.title,
                            done |-> IF c.done = None THEN row.done ELSE c.done]
<1> DEFINE t == IF c.title = None THEN row.title ELSE c.title
           d == IF c.done = None THEN row.done ELSE c.done
           y == [owner |-> row.owner, title |-> t, done |-> d]
<1>1. t \in Title /\ d \in BOOLEAN
  BY DEF Row
<1>2. Changed(row, c) \in Row /\ Changed(row, c).owner = row.owner
      /\ Changed(row, c).title = t /\ Changed(row, c).done = d
  BY <1>1 DEF Changed, Row
<1> HIDE DEF t, d
<1>3. y \in Row /\ y.owner = row.owner /\ y.title = t /\ y.done = d
  BY <1>1 DEF Row
<1>4. Changed(row, c) = y
  <2> HIDE DEF y
  <2> QED
    BY <1>2, <1>3 DEF Row
<1> QED
  BY <1>4 DEF t, d, y

\* What is saved is what is promised, if the copy was the row.
LEMMA KeptSave ==
  ASSUME Known, Kept, NEW r \in Req, SaveTodo(r)
  PROVE  Kept'
<1> DEFINE c == req[r].call
           i == c.id
           x == Changed(req[r].row, c)
           p == promised[i]
           y == IF p = Gone THEN p
                ELSE [owner |-> p.owner,
                      title |-> IF c.title = None THEN p.title ELSE c.title,
                      done |-> IF c.done = None THEN p.done ELSE c.done]
<1>0. /\ Saving(r) /\ req[r].at # "idle" /\ i \in Todo /\ req[r].row \in Row /\ UNCHANGED secret
      /\ c.title \in Title \cup {None} /\ c.done \in BOOLEAN \cup {None}
  BY Placed, CallFields DEF SaveTodo, At, Saving, NotAuth, auth
<1>1. x \in Row /\ x.owner = req[r].row.owner
  BY <1>0 DEF Changed, Row
<1>2. p # None /\ (~req[r].stale => rows[i] = req[r].row)
  BY <1>0 DEF Kept, CopiesOK, CopyOK
<1>3. p = Gone \/ p \in Row
  BY <1>0, <1>2 DEF Kept, RowsKept
<1>4. y \in Row \cup {Gone} /\ (y = Gone <=> p = Gone)
  <2>1. CASE p = Gone
    BY <2>1
  <2>2. CASE p # Gone
    <3>1. y \in Row
      BY <1>0, <1>3, <2>2 DEF Row
    <3> QED
      BY <2>2, <3>1, NothingAssumption
  <2> QED
    BY <2>1, <2>2
<1>5. ~req[r].stale /\ i \notin overwritten => p = req[r].row /\ y = x
  <2> SUFFICES ASSUME ~req[r].stale, i \notin overwritten
               PROVE  p = req[r].row /\ y = x
    OBVIOUS
  <2>1. rows[i] = req[r].row /\ rows[i] = IF p = Gone THEN None ELSE p
    BY <1>0, <1>2 DEF Kept, RowsKept
  <2>2. p = req[r].row /\ p # Gone
    BY <1>0, <2>1, NothingAssumption
  <2>3. y = x
    BY <1>0, <2>2, ChangedRow
  <2> QED
    BY <2>2, <2>3
<1>6. CASE Answer(r) /\ UNCHANGED todos
  BY <1>0, <1>6, KeptAnswered DEF todos
<1>7. CASE ~(Answer(r) /\ UNCHANGED todos)
  <2>1. /\ Wrote(r, i, x) /\ promised' = [promised EXCEPT ![i] = y]
        /\ overwritten' = overwritten \cup (IF req[r].stale THEN {i} ELSE {})
    BY <1>7 DEF SaveTodo
  <2> HIDE DEF x, y
  <2>2. rows' = [rows EXCEPT ![i] = x]
    BY <2>1 DEF Wrote
  <2>3. x # None /\ x # Gone /\ y # None
    BY <1>1, <1>4, NothingAssumption
  <2>4. rows' \in [Todo -> Row \cup {None}] /\ promised' \in [Todo -> Row \cup {None, Gone}]
    BY <1>1, <1>4, <2>1, <2>2 DEF Kept, RowsKept
  <2>5. \A j \in Todo : /\ rows'[j] = IF j = i THEN x ELSE rows[j]
                        /\ promised'[j] = IF j = i THEN y ELSE promised[j]
    BY <2>1, <2>2 DEF Kept, RowsKept
  <2>6. \A j \in Todo : promised'[j] = None => rows'[j] = None /\ j \notin overwritten'
    BY <2>1, <2>3, <2>5 DEF Kept, RowsKept
  <2>7. ASSUME NEW j \in Todo \ overwritten'
        PROVE  rows'[j] = IF promised'[j] = Gone THEN None ELSE promised'[j]
    <3>1. CASE j = i
      <4>1. ~req[r].stale /\ i \notin overwritten
        BY <2>1, <3>1
      <4> QED
        BY <1>5, <2>3, <2>5, <3>1, <4>1
    <3>2. CASE j # i
      BY <2>1, <2>5, <3>2 DEF Kept, RowsKept
    <3> QED
      BY <3>1, <3>2
  <2>8. \A q \in Req \ {r} : Saving(q) /\ req[q].call.id = i => req[q].row.owner = x.owner
    BY <1>0, <1>1 DEF Kept, CopiesOK, SameOwner
  <2>9. CopiesOK' /\ SecretsOK'
    BY <1>0, <1>1, <2>1, <2>3, <2>5, <2>8, KeptWrote
  <2> QED
    BY <2>4, <2>6, <2>7, <2>9 DEF Kept, RowsKept
<1> QED
  BY <1>6, <1>7

LEMMA KeptNext ==
  ASSUME Known, Kept, [Next]_vars
  PROVE  Kept'
<1>1. CASE UNCHANGED <<req, rows, promised, overwritten, secret>>
  BY <1>1 DEF Kept, RowsKept, CopiesOK, CopyOK, SameOwner, Saving, SecretsOK, SecretOK
<1>2. CASE \E r \in Req, c \in Calls, s \in Sid \cup {None} :
             (s # None => issued[s] # None) /\ Arrive(r, c, s)
  <2>1. PICK r \in Req, c \in Calls, s \in Sid \cup {None} : Arrive(r, c, s)
    BY <1>2
  <2>2. (\A q \in Req \ {r} : Stays(q)) /\ req'[r].at = "arrived"
    BY <2>1 DEF Arrive, Stays, Known, TableTypes
  <2>3. UNCHANGED <<rows, promised, overwritten, secret>>
    BY <2>1 DEF Arrive, auth, todos
  <2>4. RowsKept'
    BY <2>3 DEF Kept, RowsKept
  <2>5. CopiesOK' /\ SecretsOK'
    BY <2>2, <2>3, CopiesLast, SecretsLast DEF Kept
  <2> QED
    BY <2>4, <2>5 DEF Kept
<1>3. ASSUME NEW r \in Req, Step(r)
      PROVE  Kept'
  <2>1. CASE Elsewhere(r)
    BY <2>1, KeptElsewhere
  <2>2. CASE SignUp(r)
    BY <2>2, KeptSignUp
  <2>3. CASE ChangePassword(r)
    BY <2>3, KeptAnswered DEF ChangePassword, Handles, At, NotSessions, todos
  <2>4. CASE StorePassword(r)
    BY <2>4, KeptStorePassword
  <2>5. CASE CreateTodo(r) \/ ReadTodo(r) \/ SaveTodo(r) \/ DeleteTodo(r)
    BY <2>5, KeptCreate, KeptRead, KeptSave, KeptDelete
  <2> QED
    BY <1>3, <2>1, <2>2, <2>3, <2>4, <2>5 DEF Step, Elsewhere
<1>4. CASE Tick \/ Signal \/ Goroutine \/ ListenerFails \/ Cleanup \/ UNCHANGED vars
  <2>1. UNCHANGED <<req, rows, promised, overwritten, secret>>
    BY <1>4 DEF Tick, Signal, Goroutine, Shutdown, Drained, Expire, Return, ListenerFails, Cleanup,
                NotRequests, vars, auth, todos
  <2> QED
    BY <2>1, <1>1
<1> QED
  BY <1>2, <1>3, <1>4 DEF Next

-----------------------------------------------------------------------------
(***************************************************************************)
(* The theorems.                                                            *)
(***************************************************************************)
Sound == kind \in Stores /\ Known /\ Kept

LEMMA SoundInit ==
  Init => Sound
  BY KnownInit, KeptInit DEF Init, Sound

LEMMA SoundNext ==
  ASSUME Sound, [Next]_vars
  PROVE  Sound'
<1>1. Known' /\ Kept'
  BY KnownNext, KeptNext DEF Sound, Kept, RowsKept
<1>2. kind' = kind
  <2>1. CASE UNCHANGED kind
    BY <2>1
  <2>2. CASE \E r \in Req : Step(r)
    BY <2>2 DEF Step, Admit, Lookup, DeleteExpired, Renew, Touch, Refuse, Allow, Verify, SignIn, Grant, Logout,
         Me, SignUp, ChangePassword, StorePassword, ListTodos, GetTodo, SetToggleFailure,
         CreateTodo, ReadTodo, SaveTodo, DeleteTodo, auth, NotAuth, NotSessions
  <2>3. CASE ~\E r \in Req : Step(r)
    BY <2>3 DEF Next, Tick, Signal, Goroutine, Shutdown, Drained, Expire, Return, ListenerFails, Cleanup,
         Arrive, NotRequests, vars, auth
  <2> QED
    BY <2>2, <2>3
<1> QED
  BY <1>1, <1>2 DEF Sound

(***************************************************************************)
(* With a session store that can take a session back, a request acts for    *)
(* the user its session was issued to, within Duration of the last use, and *)
(* not with a session that a logout had deleted before it came, whichever   *)
(* of the statements of a database store fail unheeded (Middleware and      *)
(* Logout of auth.go; the cookie store cannot, and says so).                *)
(***************************************************************************)
THEOREM AlwaysServedByRight ==
  ASSUME "cookie" \notin Stores
  PROVE  Spec => []ServedByRight
<1>1. Sound => ServedByRight
  <2> SUFFICES ASSUME Sound, NEW r \in Req, req[r].at # "idle", req[r].user # None
               PROVE  issued[req[r].sid] = req[r].user /\ req[r].fresh /\ ~req[r].late
    BY DEF ServedByRight
  <2>1. kind # "cookie" /\ RequestOK(r)
    BY DEF Sound, Known
  <2> QED
    BY <2>1 DEF RequestOK
<1> QED
  BY <1>1, SoundInit, SoundNext, PTL DEF Spec

(***************************************************************************)
(* The todos that are listed are those that the answers promised, as they   *)
(* were promised, but for those that an update saved an old copy of         *)
(* (UpdateTodo, DeleteTodo, ListTodos of store.go).                         *)
(***************************************************************************)
THEOREM PromisesAlwaysKept == Spec => []PromisesKept
<1>1. Sound => PromisesKept
  <2> SUFFICES ASSUME Sound
               PROVE  PromisesKept
    OBVIOUS
  <2>1. /\ rows \in [Todo -> Row \cup {None}] /\ promised \in [Todo -> Row \cup {None, Gone}]
        /\ \A i \in Todo : promised[i] = None => rows[i] = None /\ i \notin overwritten
        /\ \A i \in Todo \ overwritten : rows[i] = IF promised[i] = Gone THEN None ELSE promised[i]
    BY DEF Sound, Kept, RowsKept
  <2>2. ASSUME NEW u \in User, NEW f \in Filter, NEW i \in Todo \ overwritten
        PROVE  i \in Listed(u, f) <=>
                 /\ promised[i] \notin {None, Gone} /\ promised[i].owner = u
                 /\ f = "done" => promised[i].done
                 /\ f = "open" => ~promised[i].done
    <3>1. CASE promised[i] \in {None, Gone}
      BY <2>1, <3>1 DEF Listed
    <3>2. CASE promised[i] \notin {None, Gone}
      <4>1. rows[i] = promised[i] /\ promised[i] \in Row
        BY <2>1, <3>2
      <4>2. rows[i] # None /\ promised[i].done \in BOOLEAN
        BY <3>2, <4>1 DEF Row
      <4>3. (f # "all" => promised[i].done = (f = "done"))
              <=> (f = "done" => promised[i].done) /\ (f = "open" => ~promised[i].done)
        <5>1. CASE f = "all"
          BY <5>1
        <5>2. CASE f = "open"
          BY <4>2, <5>2
        <5>3. CASE f = "done"
          BY <4>2, <5>3
        <5> QED
          BY <5>1, <5>2, <5>3 DEF Filter
      <4>4. i \in Listed(u, f) <=>
              promised[i].owner = u /\ (f # "all" => promised[i].done = (f = "done"))
        BY <4>1, <4>2 DEF Listed
      <4> QED
        BY <3>2, <4>3, <4>4
    <3> QED
      BY <3>1, <3>2
  <2>3. \A u \in User, f \in Filter :
          Listed(u, f) \ overwritten =
            {i \in Todo \ overwritten :
               /\ promised[i] \notin {None, Gone} /\ promised[i].owner = u
               /\ f = "done" => promised[i].done
               /\ f = "open" => ~promised[i].done}
    <3>1. \A u, f : Listed(u, f) \subseteq Todo
      BY DEF Listed
    <3> QED
      BY <2>2, <3>1
  <2> QED
    BY <2>1, <2>3 DEF PromisesKept
<1> QED
  BY <1>1, SoundInit, SoundNext, PTL DEF Spec

\* Only an update or a deletion by the owner, and a change of password, replace what is there.
LEMMA OwnStep ==
  ASSUME Sound, NEW r \in Req, Step(r)
  PROVE  /\ \A i \in Todo : rows'[i] # rows[i] /\ rows[i] # None =>
              /\ req[r].at \in {"checked", "save"} /\ req'[r] = Idle /\ req[r].sid # None
              /\ issued[req[r].sid] = rows[i].owner
         /\ \A u \in User : secret'[u] # secret[u] /\ secret[u] # None =>
              /\ req[r].at = "store" /\ req'[r] = Idle /\ issued[req[r].sid] = u
              /\ req[r].call.old = secret[u] \/ req[r].stale
<1>0. req[r].at # "idle" /\ Known /\ Kept /\ RequestOK(r)
  BY StepNeedsRequest DEF Sound, Known
<1>1. CASE Elsewhere(r)
  BY <1>0, <1>1, ElsewhereStep
<1>2. CASE SignUp(r) \/ ChangePassword(r)
  BY <1>2 DEF SignUp, ChangePassword, NotSessions, todos, Sound, Kept, SecretsOK
<1>3. CASE StorePassword(r)
  BY <1>0, <1>3 DEF StorePassword, At, NotSessions, todos, RequestOK, Kept, SecretsOK, SecretOK
<1>4. CASE CreateTodo(r)
  <2>1. UNCHANGED secret
    BY <1>4 DEF CreateTodo, NotAuth, auth
  <2>2. CASE UNCHANGED rows
    BY <2>1, <2>2
  <2>3. CASE ~UNCHANGED rows
    <3>1. PICK i \in Todo : promised[i] = None /\ \A j \in Todo \ {i} : rows'[j] = rows[j]
      BY <1>0, <1>4, <2>3 DEF CreateTodo, Wrote, todos, Kept, RowsKept
    <3>2. rows[i] = None /\ \A j \in Todo \ {i} : rows'[j] = rows[j]
      BY <1>0, <3>1 DEF Kept, RowsKept
    <3> QED
      BY <2>1, <3>2
  <2> QED
    BY <2>2, <2>3
<1>5. CASE ReadTodo(r)
  BY <1>5 DEF ReadTodo, NotAuth, auth, todos
<1>6. CASE SaveTodo(r)
  <2>1. UNCHANGED secret /\ Saving(r)
    BY <1>6 DEF SaveTodo, NotAuth, auth, At, Saving
  <2>2. CASE UNCHANGED rows
    BY <2>1, <2>2
  <2>3. CASE ~UNCHANGED rows
    <3> DEFINE i == req[r].call.id
    <3>1. \E x : Wrote(r, i, x)
      BY <1>6, <2>3 DEF SaveTodo, todos
    <3>2. req'[r] = Idle /\ \A j \in Todo \ {i} : rows'[j] = rows[j]
      BY <1>0, <3>1 DEF Wrote, Kept, RowsKept
    <3>3. rows[i] # None => rows[i].owner = req[r].user
      BY <1>0, <2>1 DEF Kept, CopiesOK, CopyOK, RequestOK, Saving
    <3>4. req[r].at = "save" /\ req[r].sid # None /\ issued[req[r].sid] = req[r].user
      BY <1>0, <2>1 DEF RequestOK, Saving
    <3> QED
      BY <2>1, <3>2, <3>3, <3>4
  <2> QED
    BY <2>2, <2>3
<1>7. CASE DeleteTodo(r)
  <2> DEFINE i == req[r].call.id
  <2>1. UNCHANGED secret /\ req[r].at = "checked" /\ req[r].user # None
    BY <1>7 DEF DeleteTodo, NotAuth, auth, Handles, At, NeedsUser
  <2>2. CASE UNCHANGED rows
    BY <2>1, <2>2
  <2>3. CASE ~UNCHANGED rows
    <3>1. Readable(r, i) /\ Wrote(r, i, None)
      BY <1>7, <2>3 DEF DeleteTodo
    <3>2. req'[r] = Idle /\ \A j \in Todo \ {i} : rows'[j] = rows[j]
      BY <1>0, <3>1 DEF Wrote, Kept, RowsKept
    <3>3. req[r].sid # None /\ issued[req[r].sid] = req[r].user
      BY <1>0, <2>1 DEF RequestOK
    <3> QED
      BY <2>1, <3>1, <3>2, <3>3 DEF Readable
  <2> QED
    BY <2>2, <2>3
<1> QED
  BY <1>1, <1>2, <1>3, <1>4, <1>5, <1>6, <1>7 DEF Step, Elsewhere

(***************************************************************************)
(* A todo is changed or deleted only for its owner, and a password only for *)
(* its user, who gave it (the WHERE user_id of store.go; changePassword).   *)
(***************************************************************************)
THEOREM AlwaysOwnRows == Spec => OwnRowsOnly
<1> DEFINE A == /\ \A i \in Todo : rows'[i] # rows[i] /\ rows[i] # None =>
                     \E r \in Req :
                       /\ req[r].at \in {"checked", "save"} /\ req'[r] = Idle /\ req[r].sid # None
                       /\ issued[req[r].sid] = rows[i].owner
                /\ \A u \in User : secret'[u] # secret[u] /\ secret[u] # None =>
                     \E r \in Req :
                       /\ req[r].at = "store" /\ req'[r] = Idle /\ issued[req[r].sid] = u
                       /\ req[r].call.old = secret[u] \/ req[r].stale
<1>1. Sound /\ [Next]_vars => [A]_vars
  <2> SUFFICES ASSUME Sound, Next
               PROVE  A
    OBVIOUS
  <2>1. CASE UNCHANGED <<rows, secret>>
    BY <2>1
  <2>2. CASE \E r \in Req : Step(r)
    BY <2>2, OwnStep
  <2>3. UNCHANGED <<rows, secret>> \/ \E r \in Req : Step(r)
    BY DEF Next, Tick, Signal, Goroutine, Shutdown, Drained, Expire, Return, ListenerFails, Cleanup,
         Arrive, NotRequests, auth, todos
  <2> QED
    BY <2>1, <2>2, <2>3
<1> HIDE DEF A
<1>2. Spec => [][A]_vars
  BY <1>1, SoundInit, SoundNext, PTL DEF Spec
<1> QED
  BY <1>2 DEF A, OwnRowsOnly

-----------------------------------------------------------------------------
(***************************************************************************)
(* How many passwords can be guessed.                                       *)
(***************************************************************************)

\* The failures of the window, as the history has them.
Recent == [t \in Times |-> IF t <= now /\ now - t < Window THEN guesses[t] ELSE 0]

\* Requests that Allow let in, whose password is not yet compared.
Verifying == {r \in Req : req[r].at = "verify"}

Room == Limit + Cardinality(Req) - 1

\* What the limiter remembers of its window is the history's, none of it is to come, and
\* with a failure of every request that was let in there are still not too many.
Counted ==
  /\ now \in Times
  /\ failures \in [Times -> Nat] /\ guesses \in [Times -> Nat]
  /\ \A t \in Times : /\ t > now => guesses[t] = 0
                      /\ now - t < Window => failures[t] = guesses[t]
  /\ IsFiniteSet(Entries(Recent))
  /\ Cardinality(Entries(Recent)) + Cardinality(Verifying) <= Room

\* Entries of lists: no more of those that are no longer, none of the empty ones.
LEMMA EntriesGrow ==
  ASSUME NEW f, NEW g, \A t \in Times : f[t] \in Nat /\ g[t] \in Nat /\ f[t] <= g[t]
  PROVE  Entries(f) \subseteq Entries(g)
<1>1. \A t \in Times : 1..f[t] \subseteq 1..g[t]
  OBVIOUS
<1> QED
  BY <1>1 DEF Entries

LEMMA EntriesNone ==
  ASSUME NEW f, \A t \in Times : f[t] = 0
  PROVE  Entries(f) = {}
<1>1. \A t \in Times : 1..f[t] = {}
  OBVIOUS
<1> QED
  BY <1>1 DEF Entries

\* One failure more at time t.
LEMMA EntriesAdd ==
  ASSUME NEW f, NEW g, NEW t \in Times, f[t] \in Nat, g[t] = f[t] + 1,
         \A u \in Times \ {t} : g[u] = f[u]
  PROVE  Entries(g) = Entries(f) \cup {<<t, f[t] + 1>>} /\ <<t, f[t] + 1>> \notin Entries(f)
<1>1. 1..g[t] = (1..f[t]) \cup {f[t] + 1} /\ f[t] + 1 \notin 1..f[t]
  OBVIOUS
<1>2. ASSUME NEW p
      PROVE  p \in Entries(g) <=> p \in Entries(f) \/ p = <<t, f[t] + 1>>
  <2>1. p \in Entries(g) <=> \E u \in Times : p \in {u} \X (1..g[u])
    BY DEF Entries
  <2>2. p \in Entries(f) <=> \E u \in Times : p \in {u} \X (1..f[u])
    BY DEF Entries
  <2>3. p \in {t} \X (1..g[t]) <=> p \in {t} \X (1..f[t]) \/ p = <<t, f[t] + 1>>
    BY <1>1
  <2>4. \A u \in Times \ {t} : p \in {u} \X (1..g[u]) <=> p \in {u} \X (1..f[u])
    OBVIOUS
  <2> QED
    BY <2>1, <2>2, <2>3, <2>4
<1>3. <<t, f[t] + 1>> \notin Entries(f)
  <2> SUFFICES ASSUME NEW u \in Times, <<t, f[t] + 1>> \in {u} \X (1..f[u])
               PROVE  FALSE
    BY DEF Entries
  <2>1. u = t /\ f[t] + 1 \in 1..f[u]
    OBVIOUS
  <2> QED
    BY <1>1, <2>1
<1> QED
  BY <1>2, <1>3

\* Requests are let in by Allow alone.
LEMMA LetIn ==
  ASSUME Known, NEW r \in Req, Step(r)
  PROVE  /\ \A q \in Req \ {r} : req'[q].at = "verify" => req[q].at = "verify"
         /\ req'[r].at = "verify" => Allow(r) /\ Allows
<1>0. TableTypes /\ req[r].at # "idle" /\ req[r] \in Request
  BY StepNeedsRequest DEF Known, TableTypes, Idle
<1>1. ASSUME \A q \in Req \ {r} : Stays(q), req'[r].at # "verify"
      PROVE  \A q \in Req \ {r} : req'[q].at = "verify" => req[q].at = "verify"
  BY <1>0, <1>1, StaysFields
<1>2. CASE Elsewhere(r)
  <2>1. \A q \in Req \ {r} : Stays(q)
    BY <1>2, ElsewhereStep
  <2>2. \A q \in Req \ {r} : req'[q].at = "verify" => req[q].at = "verify"
    BY <1>0, <2>1, StaysFields
  <2>3. CASE Answer(r)
    BY <1>0, <2>2, <2>3 DEF Answer, TableTypes, Idle
  <2>4. CASE \E p \in {"checked", "cookie", "expired", "grant"} : Goto(r, p)
    BY <1>0, <2>2, <2>4, GotoFields DEF Places
  <2>5. CASE \E u, f : req' = [req EXCEPT ![r] = [@ EXCEPT !.at = "found", !.user = u, !.fresh = f]]
    BY <1>0, <2>2, <2>5 DEF TableTypes, Request
  <2>6. CASE Renew(r)
    <3>1. req' = [req EXCEPT ![r] = [@ EXCEPT !.at = "touch", !.stamp = now + Duration]]
      BY <2>6 DEF Renew
    <3> QED
      BY <1>0, <2>2, <3>1 DEF TableTypes, Request
  <2>7. CASE Touch(r)
    <3>1. PICK u : req' = [req EXCEPT ![r] = [@ EXCEPT !.at = "checked", !.user = u, !.stamp = 0]]
      BY <2>7 DEF Touch
    <3> QED
      BY <1>0, <2>2, <3>1 DEF TableTypes, Request
  <2>8. CASE Allow(r) /\ Allows
    BY <2>2, <2>8
  <2>9. CASE Lookup(r)
    BY <2>4, <2>5, <2>9 DEF Lookup
  <2> QED
    BY <1>2, <2>3, <2>4, <2>6, <2>7, <2>8, <2>9
    DEF Elsewhere, Admit, DeleteExpired, Refuse, Allow, Verify, SignIn, Grant, Logout, Me,
        ListTodos, GetTodo, SetToggleFailure
<1>3. CASE SignUp(r) \/ ChangePassword(r)
  <2>1. Answer(r) \/ Goto(r, "grant") \/ Goto(r, "store")
    BY <1>3 DEF SignUp, ChangePassword
  <2>2. CASE Answer(r)
    BY <1>0, <2>2 DEF Answer, TableTypes, Idle
  <2>3. CASE \E p \in {"grant", "store"} : Goto(r, p)
    BY <1>0, <1>1, <2>3, GotoFields DEF Places
  <2> QED
    BY <2>1, <2>2, <2>3
<1>4. CASE StorePassword(r)
  BY <1>0, <1>1, <1>4 DEF StorePassword, Stays, Idle
<1>5. CASE CreateTodo(r) \/ SaveTodo(r) \/ DeleteTodo(r)
  <2>1. CASE Answer(r)
    BY <1>0, <2>1 DEF Answer, TableTypes, Idle
  <2>2. CASE \E i, x : Wrote(r, i, x)
    BY <1>0, <1>1, <2>2 DEF Wrote, Stays, Idle
  <2> QED
    BY <1>5, <2>1, <2>2 DEF CreateTodo, SaveTodo, DeleteTodo
<1>6. CASE ReadTodo(r)
  <2>1. CASE Answer(r)
    BY <1>0, <2>1 DEF Answer, TableTypes, Idle
  <2>2. CASE req' = [req EXCEPT ![r] = [@ EXCEPT !.at = "save", !.row = rows[req[r].call.id]]]
    BY <1>0, <2>2 DEF TableTypes, Request
  <2> QED
    BY <1>6, <2>1, <2>2 DEF ReadTodo
<1> QED
  BY <1>2, <1>3, <1>4, <1>5, <1>6 DEF Step, Elsewhere

\* Time goes on: what is out of the window stays out.
LEMMA WindowMoves ==
  ASSUME NEW m \in Nat, NEW n \in Nat, NEW w \in Nat, NEW t \in Nat, m <= n
  PROVE  /\ t > n => t > m
         /\ n - t < w => m - t < w
         /\ t <= m \/ t > m
  OBVIOUS

\* The requests let in are no more, and what they may guess is not either.
LEMMA CountedStill ==
  ASSUME Counted, IsFiniteSet(Req), Verifying' \subseteq Verifying, UNCHANGED limiter,
         now' \in Times, now <= now'
  PROVE  Counted'
<1>1. now \in Nat /\ now' \in Nat /\ Times \subseteq Nat /\ Window \in Nat
  BY RequestsAssumption DEF Counted, Times
<1>2. ASSUME NEW t \in Times
      PROVE  /\ t > now' => t > now
             /\ now' - t < Window => now - t < Window
  <2>1. t \in Nat
    BY <1>1
  <2> QED
    BY <1>1, <2>1, WindowMoves
<1>3. /\ failures' \in [Times -> Nat] /\ guesses' \in [Times -> Nat]
      /\ \A t \in Times : /\ t > now' => guesses'[t] = 0
                          /\ now' - t < Window => failures'[t] = guesses'[t]
  BY <1>2 DEF Counted, limiter
<1>4. \A t \in Times : Recent[t] \in Nat /\ Recent'[t] \in Nat /\ Recent'[t] <= Recent[t]
  <2> SUFFICES ASSUME NEW t \in Times
               PROVE  Recent[t] \in Nat /\ Recent'[t] \in Nat /\ Recent'[t] <= Recent[t]
    OBVIOUS
  <2>1. guesses[t] \in Nat /\ guesses'[t] = guesses[t] /\ t \in Nat
    BY <1>1 DEF Counted, limiter
  <2>2. Recent[t] = IF t <= now /\ now - t < Window THEN guesses[t] ELSE 0
    BY DEF Recent
  <2>3. Recent'[t] = IF t <= now' /\ now' - t < Window THEN guesses[t] ELSE 0
    BY <2>1 DEF Recent
  <2>4. t > now => guesses[t] = 0
    BY DEF Counted
  <2>5. Recent[t] \in Nat
    BY <2>1, <2>2
  <2>6. CASE t <= now' /\ now' - t < Window
    <3>1. Recent'[t] = guesses[t]
      BY <2>3, <2>6
    <3>2. Recent[t] = guesses[t] \/ guesses[t] = 0
      BY <1>1, <1>2, <2>1, <2>2, <2>4, <2>6, WindowMoves
    <3> QED
      BY <2>1, <2>5, <3>1, <3>2
  <2>7. CASE ~(t <= now' /\ now' - t < Window)
    BY <2>3, <2>5, <2>7
  <2> QED
    BY <2>6, <2>7
<1>5. Entries(Recent') \subseteq Entries(Recent)
  BY <1>4, EntriesGrow
<1>6. /\ IsFiniteSet(Entries(Recent')) /\ Cardinality(Entries(Recent')) <= Cardinality(Entries(Recent))
      /\ Cardinality(Entries(Recent')) \in Nat /\ Cardinality(Entries(Recent)) \in Nat
  BY <1>5, FS_Subset, FS_CardinalityType DEF Counted
<1>7. Verifying \subseteq Req
  BY DEF Verifying
<1>8. /\ Cardinality(Verifying') <= Cardinality(Verifying)
      /\ Cardinality(Verifying') \in Nat /\ Cardinality(Verifying) \in Nat
  BY <1>7, FS_Subset, FS_CardinalityType
<1>9. Room' = Room /\ Room \in Int
  BY RequestsAssumption, FS_CardinalityType DEF Room
<1>10. Entries(Recent)' = Entries(Recent')
  BY DEF Entries
<1> QED
  BY <1>3, <1>6, <1>8, <1>9, <1>10 DEF Counted

\* A wrong or a good password: one failure more and one request less, or no failures.
LEMMA CountedVerify ==
  ASSUME Counted, TableTypes, IsFiniteSet(Req), NEW r \in Req, Verify(r),
         \A q \in Req \ {r} : req'[q].at = "verify" => req[q].at = "verify",
         req'[r].at # "verify"
  PROVE  Counted'
<1>1. /\ now \in Times /\ now' = now /\ now \in Nat /\ Times \subseteq Nat /\ Window \in Nat
  BY RequestsAssumption DEF Counted, Times, Verify, NotServer
<1>2. /\ Verifying' \subseteq Verifying \ {r} /\ r \in Verifying /\ Verifying \subseteq Req
  BY DEF Verifying, Verify, At
<1>3. /\ IsFiniteSet(Verifying) /\ IsFiniteSet(Verifying') /\ Cardinality(Verifying') \in Nat
      /\ Cardinality(Verifying) \in Nat /\ Cardinality(Req) \in Nat
      /\ Cardinality(Verifying') <= Cardinality(Verifying) - 1
      /\ Cardinality(Verifying) <= Cardinality(Req)
  <2>1. IsFiniteSet(Verifying) /\ Cardinality(Verifying) <= Cardinality(Req)
    BY <1>2, FS_Subset
  <2>2. IsFiniteSet(Verifying \ {r}) /\ Cardinality(Verifying \ {r}) = Cardinality(Verifying) - 1
    BY <1>2, <2>1, FS_RemoveElement
  <2>3. IsFiniteSet(Verifying') /\ Cardinality(Verifying') <= Cardinality(Verifying \ {r})
    BY <1>2, <2>2, FS_Subset
  <2> QED
    BY <2>1, <2>2, <2>3, FS_CardinalityType
<1>4. Room' = Room /\ Room = Limit + Cardinality(Req) - 1 /\ Limit \in Nat \ {0}
  BY RequestsAssumption DEF Room
<1>5. Entries(Recent)' = Entries(Recent')
  BY DEF Entries
<1>6. CASE req[r].call.good
  <2>1. failures' = Quiet /\ guesses' = Quiet
    BY <1>6 DEF Verify
  <2>2. \A t \in Times : Quiet[t] = 0
    BY DEF Quiet
  <2>3. Quiet \in [Times -> Nat]
    BY DEF Quiet
  <2>4. \A t \in Times : Recent'[t] = 0
    BY <2>1, <2>2 DEF Recent
  <2>5. Entries(Recent') = {}
    BY <2>4, EntriesNone
  <2>6. IsFiniteSet(Entries(Recent')) /\ Cardinality(Entries(Recent')) = 0
    BY <2>5, FS_EmptySet
  <2>7. Cardinality(Entries(Recent')) + Cardinality(Verifying') <= Room'
    BY <1>3, <1>4, <2>6
  <2> QED
    BY <1>1, <1>5, <2>1, <2>2, <2>3, <2>6, <2>7 DEF Counted
<1>7. CASE ~req[r].call.good
  <2>1. failures' = [Pruned EXCEPT ![now] = @ + 1] /\ guesses' = [guesses EXCEPT ![now] = @ + 1]
    BY <1>7 DEF Verify
  <2>2. Pruned \in [Times -> Nat] /\ \A t \in Times : now - t < Window => Pruned[t] = guesses[t]
    BY DEF Counted, Pruned
  <2>3. /\ guesses \in [Times -> Nat] /\ guesses' \in [Times -> Nat] /\ failures' \in [Times -> Nat]
        /\ guesses'[now] = guesses[now] + 1 /\ failures'[now] = Pruned[now] + 1
        /\ \A t \in Times \ {now} : guesses'[t] = guesses[t] /\ failures'[t] = Pruned[t]
    BY <1>1, <2>1, <2>2 DEF Counted
  <2>4. \A t \in Times : /\ t > now' => guesses'[t] = 0
                         /\ now' - t < Window => failures'[t] = guesses'[t]
    BY <1>1, <2>2, <2>3 DEF Counted
  <2>5. \A t \in Times \ {now} : Recent'[t] = Recent[t]
    BY <1>1, <2>3 DEF Recent
  <2>6. /\ Recent[now] = IF 0 < Window THEN guesses[now] ELSE 0
        /\ Recent'[now] = IF 0 < Window THEN guesses[now] + 1 ELSE 0
    BY <1>1, <2>3 DEF Recent
  <2>7. /\ IsFiniteSet(Entries(Recent')) /\ Cardinality(Entries(Recent')) <= Cardinality(Entries(Recent)) + 1
        /\ Cardinality(Entries(Recent')) \in Nat /\ Cardinality(Entries(Recent)) \in Nat
    <3>1. CASE 0 < Window
      <4>1. Recent[now] \in Nat /\ Recent'[now] = Recent[now] + 1
        BY <1>1, <2>3, <2>6, <3>1
      <4>2. /\ Entries(Recent') = Entries(Recent) \cup {<<now, Recent[now] + 1>>}
            /\ <<now, Recent[now] + 1>> \notin Entries(Recent)
        BY <1>1, <2>5, <4>1, EntriesAdd
      <4>3. IsFiniteSet(Entries(Recent))
        BY DEF Counted
      <4>4. /\ IsFiniteSet(Entries(Recent'))
            /\ Cardinality(Entries(Recent')) = Cardinality(Entries(Recent)) + 1
        BY <4>2, <4>3, FS_AddElement
      <4> QED
        BY <4>3, <4>4, FS_CardinalityType
    <3>2. CASE ~(0 < Window)
      <4>1. Recent' = Recent
        BY <2>5, <2>6, <3>2 DEF Recent
      <4>2. IsFiniteSet(Entries(Recent))
        BY DEF Counted
      <4> QED
        BY <4>1, <4>2, FS_CardinalityType
    <3> QED
      BY <3>1, <3>2
  <2>8. Cardinality(Entries(Recent)) + Cardinality(Verifying) <= Room
    BY DEF Counted
  <2>9. Cardinality(Entries(Recent')) + Cardinality(Verifying') <= Room'
    BY <1>3, <1>4, <2>7, <2>8
  <2> QED
    BY <1>1, <1>5, <2>3, <2>4, <2>7, <2>9 DEF Counted
<1> QED
  BY <1>6, <1>7

\* A request let in, and one told to wait.
LEMMA CountedAllow ==
  ASSUME Counted, IsFiniteSet(Req), NEW r \in Req, Allow(r),
         Allows \/ Verifying' \subseteq Verifying
  PROVE  Counted'
<1>1. /\ now \in Times /\ now' = now /\ Times \subseteq Nat /\ Window \in Nat
      /\ failures' = Pruned /\ guesses' = guesses
  BY RequestsAssumption DEF Counted, Times, Allow, NotServer
<1>2. Pruned \in [Times -> Nat] /\ \A t \in Times : now - t < Window => Pruned[t] = guesses[t]
  BY DEF Counted, Pruned
<1>3. \A t \in Times : Pruned[t] = Recent[t]
  <2> SUFFICES ASSUME NEW t \in Times
               PROVE  Pruned[t] = Recent[t]
    OBVIOUS
  <2>1. /\ t \in Nat /\ now \in Nat /\ guesses[t] \in Nat /\ failures[t] \in Nat
        /\ t > now => guesses[t] = 0
        /\ now - t < Window => failures[t] = guesses[t]
    BY <1>1 DEF Counted
  <2>2. t > now => now - t < Window
    BY <1>1, <2>1
  <2>3. /\ Pruned[t] = IF now - t < Window THEN failures[t] ELSE 0
        /\ Recent[t] = IF t <= now /\ now - t < Window THEN guesses[t] ELSE 0
    BY DEF Pruned, Recent
  <2> QED
    BY <2>1, <2>2, <2>3
<1>4. Entries(Pruned) = Entries(Recent)
  BY <1>3 DEF Entries
<1>5. Recent' = Recent
  BY <1>1 DEF Recent
<1>6. Entries(Recent)' = Entries(Recent)
  BY <1>5 DEF Entries
<1>7. /\ IsFiniteSet(Entries(Recent)) /\ Cardinality(Entries(Recent)) \in Nat
      /\ Verifying \subseteq Req /\ Verifying' \subseteq Req
  BY FS_CardinalityType DEF Counted, Verifying
<1>8. /\ Cardinality(Verifying) \in Nat /\ Cardinality(Verifying') \in Nat /\ Cardinality(Req) \in Nat
      /\ Cardinality(Verifying') <= Cardinality(Req)
      /\ IsFiniteSet(Verifying)
  BY <1>7, FS_Subset, FS_CardinalityType
<1>9. Room' = Room /\ Room = Limit + Cardinality(Req) - 1 /\ Limit \in Nat \ {0}
  BY RequestsAssumption DEF Room
<1>10. Cardinality(Entries(Recent)) + Cardinality(Verifying') <= Room
  <2>1. CASE Allows
    <3>1. Cardinality(Entries(Recent)) < Limit
      BY <1>4, <2>1 DEF Allows, Total
    <3> QED
      BY <1>7, <1>8, <1>9, <3>1
  <2>2. CASE Verifying' \subseteq Verifying
    <3>1. Cardinality(Verifying') <= Cardinality(Verifying)
      BY <1>8, <2>2, FS_Subset
    <3>2. Cardinality(Entries(Recent)) + Cardinality(Verifying) <= Room
      BY DEF Counted
    <3>3. Room \in Int
      BY <1>8, <1>9
    <3> QED
      BY <1>7, <1>8, <3>1, <3>2, <3>3
  <2> QED
    BY <2>1, <2>2
<1> QED
  BY <1>1, <1>2, <1>6, <1>7, <1>9, <1>10 DEF Counted

LEMMA CountedInit ==
  ASSUME Init, IsFiniteSet(Req)
  PROVE  Counted
<1>1. /\ now = 0 /\ failures = Quiet /\ guesses = Quiet /\ Quiet \in [Times -> Nat]
      /\ \A t \in Times : Quiet[t] = 0
  BY DEF Init, Quiet
<1>2. now \in Times
  BY <1>1, RequestsAssumption DEF Times
<1>3. \A t \in Times : Recent[t] = 0
  BY <1>1 DEF Recent
<1>4. Entries(Recent) = {}
  BY <1>3, EntriesNone
<1>5. IsFiniteSet(Entries(Recent)) /\ Cardinality(Entries(Recent)) = 0
  BY <1>4, FS_EmptySet
<1>6. Verifying = {}
  BY DEF Init, Idle, Verifying
<1>7. Cardinality(Verifying) = 0
  BY <1>6, FS_EmptySet
<1>8. 0 + 0 <= Room
  BY RequestsAssumption, FS_CardinalityType DEF Room
<1> QED
  BY <1>1, <1>2, <1>5, <1>7, <1>8 DEF Counted

LEMMA CountedNext ==
  ASSUME Counted, Known, IsFiniteSet(Req), [Next]_vars
  PROVE  Counted'
<1>0. now \in Times /\ now \in Nat /\ now <= now
  BY RequestsAssumption DEF Counted, Times
<1>1. CASE UNCHANGED <<now, req, limiter>>
  BY <1>0, <1>1, CountedStill DEF Verifying
<1>2. CASE Tick
  <2>1. UNCHANGED <<req, limiter>> /\ now' = now + 1 /\ now < MaxTime
    BY <1>2 DEF Tick
  <2>2. now' \in Times /\ now <= now'
    BY <1>0, <2>1, RequestsAssumption DEF Times
  <2> QED
    BY <2>1, <2>2, CountedStill DEF Verifying
<1>3. CASE \E r \in Req, c \in Calls, s \in Sid \cup {None} :
             (s # None => issued[s] # None) /\ Arrive(r, c, s)
  <2>1. PICK r \in Req, c \in Calls, s \in Sid \cup {None} : Arrive(r, c, s)
    BY <1>3
  <2>2. Verifying' \subseteq Verifying
    BY <2>1 DEF Arrive, Verifying, Known, TableTypes
  <2> QED
    BY <1>0, <2>1, <2>2, CountedStill DEF Arrive
<1>4. ASSUME NEW r \in Req, Step(r)
      PROVE  Counted'
  <2>1. CASE Allow(r)
    <3>1. Allows \/ Verifying' \subseteq Verifying
      BY <1>4, LetIn DEF Verifying
    <3> QED
      BY <2>1, <3>1, CountedAllow
  <2>2. CASE Verify(r)
    <3>1. ~Allow(r)
      BY <2>2 DEF Verify, Allow, Handles, At
    <3> QED
      BY <1>4, <2>2, <3>1, LetIn, CountedVerify DEF Known
  <2>3. CASE ~Allow(r) /\ ~Verify(r)
    <3>1. now' = now /\ UNCHANGED limiter
      BY <1>4, <2>3 DEF Step, Admit, Lookup, DeleteExpired, Renew, Touch, Refuse, SignIn, Grant, Logout,
         Me, SignUp, ChangePassword, StorePassword, ListTodos, GetTodo, SetToggleFailure,
         CreateTodo, ReadTodo, SaveTodo, DeleteTodo, NotServer, NotAuth, NotSessions
    <3>2. Verifying' \subseteq Verifying
      BY <1>4, <2>3, LetIn DEF Verifying
    <3> QED
      BY <1>0, <3>1, <3>2, CountedStill
  <2> QED
    BY <2>1, <2>2, <2>3
<1>5. CASE Signal \/ Goroutine \/ ListenerFails \/ UNCHANGED vars
  BY <1>1, <1>5 DEF Signal, Goroutine, Shutdown, Drained, Expire, Return, ListenerFails, NotRequests, vars
<1>6. CASE Cleanup
  BY <1>1, <1>6 DEF Cleanup, NotServer
<1> QED
  BY <1>2, <1>3, <1>4, <1>5, <1>6 DEF Next

(***************************************************************************)
(* However many requests are served together, within any window a client    *)
(* guesses wrong at most once for each of the limit and of the other        *)
(* requests that Allow may have let in (LoginHandler's Allow, and           *)
(* RecordFailure only after the password is compared).                      *)
(***************************************************************************)
THEOREM GuessesAlwaysBounded ==
  ASSUME IsFiniteSet(Req)
  PROVE  Spec => []GuessesBounded
<1>1. Init => Sound /\ Counted
  BY SoundInit, CountedInit
<1>2. Sound /\ Counted /\ [Next]_vars => Sound' /\ Counted'
  BY SoundNext, CountedNext DEF Sound
<1>3. Counted => GuessesBounded
  <2> SUFFICES ASSUME Counted
               PROVE  GuessesBounded
    OBVIOUS
  <2>1. Verifying \subseteq Req
    BY DEF Verifying
  <2>2. /\ Cardinality(Entries(Recent)) \in Nat /\ Cardinality(Verifying) \in Nat /\ Cardinality(Req) \in Nat
    BY <2>1, FS_Subset, FS_CardinalityType DEF Counted
  <2>3. Cardinality(Entries(Recent)) <= Limit + Cardinality(Req) - 1
    BY <2>2, RequestsAssumption DEF Counted, Room
  <2> QED
    BY <2>3 DEF GuessesBounded, Total, Recent
<1> QED
  BY <1>1, <1>2, <1>3, PTL DEF Spec

=============================================================================
