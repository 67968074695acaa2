------------------------------- MODULE WebApp -------------------------------
(***************************************************************************)
(* The pages of examples/todo/internal/web in one browser: router, login    *)
(* form and frontend user together, and the API calls the pages make.       *)
(* GopherJS runs one goroutine at a time: what does not wait for a call is  *)
(* one step.  Nothing renders by itself; whoever mounted the app does.      *)
(***************************************************************************)
EXTENDS Router, Forms

CONSTANTS
  User,
  Links,        \* paths the pages link to
  Guarded,      \* pages wrapped in RequireLogin
  MaxRouters    \* bound: App() again on an injected history

VARIABLES
  shown,     \* innermost page on the screen, "" for none
  button,    \* the page on the screen has a logout button
  user,      \* auth.frontendUser
  cookie,    \* user of the session the browser's cookie names
  call,      \* API calls: of each submit and of the logout button
  \* history
  given,     \* whose session the server last gave this browser, None when it took it
  together,  \* calls under way overlap, or did before they ended
  parted,    \* the pages may show another than given: see Answer, and Told
  hops       \* redirects since the user last did something

session == <<user, cookie, call, given, together, parted>>
app == <<shown, button, session, hops>>
vars == <<nav, form, app>>

Idle == [at |-> "idle"]
Asking(u) == [at |-> "asked", user |-> u, done |-> FALSE, ok |-> FALSE, bad |-> {}]
Button == "logout"
Caller == Sub \cup {Button}

\* A page that is loaded knows nothing of a session the browser still has.
Init ==
  /\ nav = Fresh /\ FormInit
  /\ shown = "" /\ button = FALSE /\ user = None
  /\ cookie \in User \cup {None} /\ given = cookie /\ parted = (cookie # None)
  /\ call = [k \in Caller |-> Idle]
  /\ together = FALSE /\ hops = 0

Calling == {k \in Caller : call[k].at # "idle"}

-----------------------------------------------------------------------------
(* Root(): the chain of the current path; a page may redirect instead.       *)

\* Wrong: home sends everybody to the guarded todos (OneHop).
HomeToTodos == <<"todos">>

Home == IF user = None THEN <<"login">> ELSE <<"todos">>

LoginPath == <<"login">>

Replaces == TRUE

RedirectOf(page) ==
  IF page = "home" THEN {Home}
  ELSE IF page \in Guarded /\ user = None THEN {LoginPath} ELSE {}

FormPages == {"login", "signup"}   \* loginPage, signupPage: a form of their own

Page(path) == IF Chain[path] = <<>> THEN "notFound" ELSE Last(Chain[path])

\* What the routes and the links say: whom a page redirects to finds a page there.
ASSUME WebAppAssumption ==
  /\ Button \notin Sub
  /\ {<<"login">>, <<"todos">>} \cup Links \subseteq Path
  /\ Page(<<"login">>) \notin {"home"} \cup Guarded
  /\ Page(<<"todos">>) # "home"

Shown(h, n) ==
  LET page == Page(h.routers[h.current].path) IN
  /\ IF RedirectOf(page) # {}
     THEN /\ \E to \in RedirectOf(page) : nav' = Navigated(h, to, Replaces)
          /\ shown' = "" /\ hops' = n + 1
     ELSE nav' = h /\ shown' = page /\ hops' = 0
  /\ button' = (shown' # "" /\ user # None)
  /\ IF shown' \in FormPages THEN UseForm ELSE UNCHANGED form
  /\ UNCHANGED session

Render == Shown(nav, hops)

\* App() evaluated again: a router of its own, and Root().
App(injected) ==
  /\ injected => Len(nav.routers) < MaxRouters
  /\ Shown(Made(nav, injected), 0)

FollowLink(path) ==
  /\ shown # "" /\ nav.idx < MaxStack
  /\ nav' = Navigated(nav, path, FALSE) /\ hops' = 0
  /\ UNCHANGED <<form, shown, button, session>>

\* filterButton; the query of the path it navigates to is dropped by norm.
Filter ==
  /\ shown = "todos"
  /\ nav' = Navigated(nav, <<"todos">>, TRUE) /\ hops' = 0
  /\ UNCHANGED <<form, shown, button, session>>

BackOrForward ==
  /\ \E step \in {-1, 1} :
       nav.idx + step \in DOMAIN nav.stack /\ nav' = Gone(nav, step)
  /\ hops' = 0
  /\ UNCHANGED <<form, shown, button, session>>

-----------------------------------------------------------------------------
(* The login and sign-up forms and the logout button of every page's layout. *)

OnForm == shown \in FormPages

Edit ==
  /\ OnForm
  /\ \/ \E f \in Field, x \in Value : Set(f, x)
     \/ \E f \in Field : SetInvalid(f)
     \/ Reset
  /\ UNCHANGED <<nav, app>>

\* A call that begins: another one under way may yet undo it, or be undone.
Asks(k, u) ==
  /\ call' = [call EXCEPT ![k] = Asking(u)]
  /\ together' = (Calling # {}) /\ parted' = (parted \/ together')

\* onSubmit of either page: log in, or sign up and be logged in.
Login(k, u) ==
  /\ OnForm /\ call[k].at = "idle"
  /\ Submit(k)
  /\ IF errors' = NoErrors THEN Asks(k, u) ELSE UNCHANGED <<call, together, parted>>
  /\ UNCHANGED <<nav, shown, button, user, cookie, given, hops>>

Logout ==
  /\ button /\ call[Button].at = "idle"
  /\ Asks(Button, None)
  /\ UNCHANGED <<nav, form, shown, button, user, cookie, given, hops>>

\* What the page takes the server to have done: the button ignores errors.
Assumed(k, ok) == ok \/ k = Button

\* The server's answer: done, and with it the cookie given or taken; or refused, for
\* some fields or for none; or lost on the way, before or after it was done.
Answer(k) ==
  /\ call[k].at = "asked"
  /\ \E done, ok \in BOOLEAN, bad \in SUBSET Field :
       /\ ok => done
       /\ done => bad = {}
       /\ call' = [call EXCEPT ![k] = [@ EXCEPT !.at = "answered", !.done = done, !.ok = ok, !.bad = bad]]
       /\ cookie' = IF done THEN call[k].user ELSE cookie
       /\ given' = IF done THEN call[k].user ELSE given
       /\ parted' = (parted \/ done # Assumed(k, ok))
  /\ UNCHANGED <<nav, form, shown, button, user, together, hops>>

\* The browser drops the cookie at the time Login wrote into it, however the
\* session was used since.
CookieEnds ==
  /\ cookie # None /\ cookie' = None
  /\ UNCHANGED <<nav, form, shown, button, user, call, given, together, parted, hops>>

\* A call that ran alone and was done, as the page assumed, settles who is logged in.
Told(k) ==
  /\ call' = [call EXCEPT ![k] = Idle]
  /\ parted' = (parted /\ ~(call[k].done /\ Assumed(k, call[k].ok) /\ ~together))

\* Wrong: the user is set whatever the server answered (UserIsSessions).
UserBeforeCheck(c) == c.user

UserAfter(c) == IF c.ok THEN c.user ELSE user

\* The rest of onSubmit and of Submit.
LoggedIn(k) ==
  LET c == call[k] IN
  /\ c.at = "answered" /\ k \in Sub
  /\ IF sub[k] # None THEN Finish(k, c.bad) ELSE UNCHANGED form
  /\ user' = UserAfter(c)
  /\ IF c.ok THEN nav' = Navigated(nav, <<"todos">>, TRUE) /\ hops' = 0
     ELSE UNCHANGED <<nav, hops>>
  /\ Told(k)
  /\ UNCHANGED <<shown, button, cookie, given, together>>

LoggedOut ==
  /\ call[Button].at = "answered"
  /\ user' = None
  /\ nav' = Navigated(nav, LoginPath, TRUE) /\ hops' = 0
  /\ Told(Button)
  /\ UNCHANGED <<form, shown, button, cookie, given, together>>

Next ==
  \/ Render \/ Filter \/ BackOrForward \/ Edit \/ Logout \/ LoggedOut \/ CookieEnds
  \/ \E i \in BOOLEAN : App(i)
  \/ \E p \in Links : FollowLink(p)
  \/ \E k \in Sub, u \in User : Login(k, u)
  \/ \E k \in Caller : Answer(k)
  \/ \E k \in Sub : LoggedIn(k)

Spec == Init /\ [][Next]_vars

-----------------------------------------------------------------------------
(* One redirect leads to a page: a redirect never meets another one, unless  *)
(* the user logs in or out or goes elsewhere in between.                     *)
OneHop == hops <= 1

(* The pages show whom the server last gave a session, and nobody once it    *)
(* took it; the browser still has that session, or its cookie has ended.  It  *)
(* may be otherwise only from a page load, from calls that overlapped, or     *)
(* from a call whose answer was lost or ignored (Logout's), to the next call  *)
(* that ran alone and was done (loginPage, signupPage, the logout button).    *)
UserIsSessions ==
  Calling = {} /\ ~parted => user = given /\ cookie \in {user, None}

=============================================================================
