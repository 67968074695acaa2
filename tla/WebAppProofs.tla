---------------------------- MODULE WebAppProofs ----------------------------
(***************************************************************************)
(* For any routes, links, fields, users and submits at a time, and however  *)
(* often the pages are rendered, made anew and left: where the router       *)
(* stands, how far a redirect leads, what the form shows and who is logged  *)
(* in.                                                                      *)
(***************************************************************************)
EXTENDS WebApp, TLAPS

(***************************************************************************)
(* The history and its routers.                                             *)
(***************************************************************************)
Place == {At(p) : p \in Path}

NavOK(h) ==
  /\ h \in [stack: Seq(Path), idx: Nat \ {0}, routers: Seq(Place), current: Nat \ {0}]
  /\ h.idx <= Len(h.stack) /\ h.current <= Len(h.routers)

Stands(h) == h.routers[h.current] = At(h.stack[h.idx])

\* The four fields of a history, and what is put together of them.
LEMMA NavFields ==
  ASSUME NEW h, NavOK(h)
  PROVE  /\ h.stack \in Seq(Path) /\ h.idx \in Nat \ {0} /\ h.idx <= Len(h.stack)
         /\ h.routers \in Seq(Place) /\ h.current \in Nat \ {0} /\ h.current <= Len(h.routers)
         /\ h.stack[h.idx] \in Path
         /\ h = [stack |-> h.stack, idx |-> h.idx, routers |-> h.routers, current |-> h.current]
<1>1. /\ h.stack \in Seq(Path) /\ h.idx \in Nat \ {0} /\ h.idx <= Len(h.stack)
      /\ h.routers \in Seq(Place) /\ h.current \in Nat \ {0} /\ h.current <= Len(h.routers)
  BY DEF NavOK
<1>2. h.stack[h.idx] \in Path
  BY <1>1
<1>3. h = [stack |-> h.stack, idx |-> h.idx, routers |-> h.routers, current |-> h.current]
  BY DEF NavOK
<1> QED
  BY <1>1, <1>2, <1>3

LEMMA NavOf ==
  ASSUME NEW s \in Seq(Path), NEW i \in Nat \ {0}, i <= Len(s),
         NEW rs \in Seq(Place), NEW c \in Nat \ {0}, c <= Len(rs), rs[c] = At(s[i])
  PROVE  LET h == [stack |-> s, idx |-> i, routers |-> rs, current |-> c]
         IN  NavOK(h) /\ Stands(h)
  BY DEF NavOK, Stands

\* What the operations do to the four fields.
LEMMA NavSteps ==
  ASSUME NEW h, NavOK(h)
  PROVE  /\ Made(h, TRUE) =
              [stack |-> h.stack, idx |-> h.idx,
               routers |-> Append(h.routers, At(h.stack[h.idx])), current |-> Len(h.routers) + 1]
         /\ \A path, replace :
              Navigated(h, path, replace) =
                [stack |-> IF replace THEN [h.stack EXCEPT ![h.idx] = path]
                           ELSE Append(SubSeq(h.stack, 1, h.idx), path),
                 idx |-> IF replace THEN h.idx ELSE h.idx + 1,
                 routers |-> [h.routers EXCEPT ![h.current] = At(path)], current |-> h.current]
         /\ \A step :
              Gone(h, step) =
                [stack |-> h.stack, idx |-> h.idx + step,
                 routers |-> [j \in DOMAIN h.routers |-> At(h.stack[h.idx + step])],
                 current |-> Len(h.routers)]
<1>0. h \in [stack: Seq(Path), idx: Nat \ {0}, routers: Seq(Place), current: Nat \ {0}]
  BY DEF NavOK
<1>1. Made(h, TRUE) =
        [stack |-> h.stack, idx |-> h.idx,
         routers |-> Append(h.routers, At(h.stack[h.idx])), current |-> Len(h.routers) + 1]
  BY <1>0 DEF Made
<1>2. ASSUME NEW path, NEW replace
      PROVE  Navigated(h, path, replace) =
               [stack |-> IF replace THEN [h.stack EXCEPT ![h.idx] = path]
                          ELSE Append(SubSeq(h.stack, 1, h.idx), path),
                idx |-> IF replace THEN h.idx ELSE h.idx + 1,
                routers |-> [h.routers EXCEPT ![h.current] = At(path)], current |-> h.current]
  <2> DEFINE s == IF replace THEN [h.stack EXCEPT ![h.idx] = path]
                  ELSE Append(SubSeq(h.stack, 1, h.idx), path)
             i == IF replace THEN h.idx ELSE h.idx + 1
             rs == [h.routers EXCEPT ![h.current] = At(path)]
  <2>1. Navigated(h, path, replace) = [h EXCEPT !.stack = s, !.idx = i, !.routers = rs]
    BY <1>0 DEF Navigated
  <2> HIDE DEF s, i, rs
  <2>2. Navigated(h, path, replace) = [stack |-> s, idx |-> i, routers |-> rs, current |-> h.current]
    BY <1>0, <2>1
  <2> QED
    BY <2>2 DEF s, i, rs
<1>3. ASSUME NEW step
      PROVE  Gone(h, step) =
               [stack |-> h.stack, idx |-> h.idx + step,
                routers |-> [j \in DOMAIN h.routers |-> At(h.stack[h.idx + step])],
                current |-> Len(h.routers)]
  <2> DEFINE rs == [j \in DOMAIN h.routers |->
                      IF j \in Listening(h) THEN At(h.stack[h.idx + step]) ELSE h.routers[j]]
  <2>1. rs = [j \in DOMAIN h.routers |-> At(h.stack[h.idx + step])]
    BY DEF Listening
  <2>2. Gone(h, step) = [h EXCEPT !.idx = h.idx + step, !.routers = rs, !.current = Len(h.routers)]
    BY <1>0 DEF Gone
  <2> HIDE DEF rs
  <2>3. Gone(h, step) =
          [stack |-> h.stack, idx |-> h.idx + step, routers |-> rs, current |-> Len(h.routers)]
    BY <1>0, <2>2
  <2> QED
    BY <2>1, <2>3
<1> QED
  BY <1>1, <1>2, <1>3

LEMMA FreshStands == NavOK(Fresh) /\ Stands(Fresh)
<1>1. At(Root) \in Place /\ <<Root>> \in Seq(Path) /\ <<At(Root)>> \in Seq(Place)
  BY RouterAssumption DEF Place
<1>2. Len(<<Root>>) = 1 /\ Len(<<At(Root)>>) = 1 /\ <<Root>>[1] = Root /\ <<At(Root)>>[1] = At(Root)
  OBVIOUS
<1>3. 1 \in Nat \ {0} /\ 1 <= 1
  OBVIOUS
<1> HIDE DEF Root
<1> QED
  BY <1>1, <1>2, <1>3, NavOf DEF Fresh

LEMMA MadeStands ==
  ASSUME NEW h, NavOK(h), NEW injected \in BOOLEAN
  PROVE  NavOK(Made(h, injected)) /\ Stands(Made(h, injected))
<1>1. CASE ~injected
  BY <1>1, FreshStands DEF Made
<1>2. CASE injected
  <2> DEFINE place == At(h.stack[h.idx])
             rs == Append(h.routers, place)
  <2>1. place \in Place
    BY NavFields DEF Place
  <2> HIDE DEF place
  <2>2. rs \in Seq(Place) /\ Len(rs) = Len(h.routers) + 1 /\ Len(h.routers) \in Nat
        /\ rs[Len(h.routers) + 1] = place
    BY <2>1, NavFields
  <2>3. Made(h, injected) =
          [stack |-> h.stack, idx |-> h.idx, routers |-> rs, current |-> Len(h.routers) + 1]
    BY <1>2, NavSteps DEF place
  <2> HIDE DEF rs
  <2>4. /\ h.stack \in Seq(Path) /\ h.idx \in Nat \ {0} /\ h.idx <= Len(h.stack)
        /\ Len(h.routers) + 1 \in Nat \ {0} /\ Len(h.routers) + 1 <= Len(rs)
        /\ rs[Len(h.routers) + 1] = At(h.stack[h.idx])
    BY <2>2, NavFields DEF place
  <2> QED
    BY <2>2, <2>3, <2>4, NavOf
<1> QED
  BY <1>1, <1>2

\* Where the current router is sent: it stands at the path it was given.
LEMMA NavigatedStands ==
  ASSUME NEW h, NavOK(h), NEW path \in Path, NEW replace \in BOOLEAN
  PROVE  LET n == Navigated(h, path, replace)
         IN  NavOK(n) /\ Stands(n) /\ n.routers[n.current] = At(path)
<1> DEFINE kept == SubSeq(h.stack, 1, h.idx)
           s == IF replace THEN [h.stack EXCEPT ![h.idx] = path] ELSE Append(kept, path)
           i == IF replace THEN h.idx ELSE h.idx + 1
           rs == [h.routers EXCEPT ![h.current] = At(path)]
<1>0. /\ h.stack \in Seq(Path) /\ h.idx \in Nat \ {0} /\ h.idx <= Len(h.stack)
      /\ h.routers \in Seq(Place) /\ h.current \in Nat \ {0} /\ h.current <= Len(h.routers)
  BY NavFields
<1>1. At(path) \in Place
  BY DEF Place
<1>2. Navigated(h, path, replace) = [stack |-> s, idx |-> i, routers |-> rs, current |-> h.current]
  BY NavSteps
<1>3. rs \in Seq(Place) /\ Len(rs) = Len(h.routers) /\ rs[h.current] = At(path)
  BY <1>0, <1>1
<1>4. s \in Seq(Path) /\ i \in Nat \ {0} /\ i <= Len(s) /\ s[i] = path
  <2>1. CASE replace
    BY <1>0, <2>1
  <2>2. CASE ~replace
    <3>1. kept \in Seq(Path)
      BY <1>0
    <3>2. Len(kept) = h.idx
      BY <1>0
    <3> HIDE DEF kept
    <3>3. s \in Seq(Path) /\ Len(s) = h.idx + 1 /\ s[h.idx + 1] = path
      BY <2>2, <3>1, <3>2
    <3>4. i = h.idx + 1
      BY <2>2
    <3>5. h.idx + 1 \in Nat \ {0} /\ h.idx + 1 <= h.idx + 1
      BY <1>0
    <3> QED
      BY <3>3, <3>4, <3>5
  <2> QED
    BY <2>1, <2>2
<1> HIDE DEF s, i, rs
<1>5. NavOK(Navigated(h, path, replace)) /\ Stands(Navigated(h, path, replace))
  BY <1>0, <1>2, <1>3, <1>4, NavOf
<1> QED
  BY <1>2, <1>3, <1>5

\* Every listener follows the history, and the last one called is the current one.
LEMMA GoneStands ==
  ASSUME NEW h, NavOK(h), NEW step \in {-1, 1}, h.idx + step \in DOMAIN h.stack
  PROVE  NavOK(Gone(h, step)) /\ Stands(Gone(h, step))
<1> DEFINE place == At(h.stack[h.idx + step])
           rs == [j \in DOMAIN h.routers |-> place]
<1>0. /\ h.stack \in Seq(Path) /\ h.idx \in Nat \ {0} /\ h.idx <= Len(h.stack)
      /\ h.routers \in Seq(Place) /\ h.current \in Nat \ {0} /\ h.current <= Len(h.routers)
  BY NavFields
<1>1. /\ h.idx + step \in Nat \ {0} /\ h.idx + step <= Len(h.stack)
      /\ h.stack[h.idx + step] \in Path
  BY <1>0
<1>2. place \in Place
  BY <1>1 DEF Place
<1>3. Gone(h, step) =
        [stack |-> h.stack, idx |-> h.idx + step, routers |-> rs, current |-> Len(h.routers)]
  BY NavSteps
<1>4. DOMAIN h.routers = 1..Len(h.routers) /\ Len(h.routers) \in Nat
  BY <1>0
<1>5. Len(h.routers) \in Nat \ {0} /\ Len(h.routers) \in 1..Len(h.routers)
  BY <1>0, <1>4
<1>6. rs \in Seq(Place) /\ Len(rs) = Len(h.routers) /\ rs[Len(h.routers)] = place
  <2> HIDE DEF place
  <2> QED
    BY <1>2, <1>4, <1>5
<1> HIDE DEF rs
<1>7. Len(h.routers) <= Len(rs)
  BY <1>5, <1>6
<1> QED
  BY <1>0, <1>1, <1>3, <1>5, <1>6, <1>7, NavOf

-----------------------------------------------------------------------------
(***************************************************************************)
(* The steps of the pages that move the router.                             *)
(***************************************************************************)
Here(h) == Page(h.routers[h.current].path)

Landed == hops \in {0, 1} /\ (hops = 1 => RedirectOf(Here(nav)) = {})

Routed == NavOK(nav) /\ Stands(nav) /\ Landed

LEMMA RedirectsLand ==
  ASSUME NEW page, NEW to \in RedirectOf(page)
  PROVE  to \in Path /\ RedirectOf(Page(to)) = {}
<1>1. CASE page = "home" /\ user # None
  <2>1. to = <<"todos">>
    BY <1>1 DEF RedirectOf, Home
  <2>2. RedirectOf(Page(<<"todos">>)) = {}
    BY <1>1, WebAppAssumption DEF RedirectOf
  <2> QED
    BY <2>1, <2>2, WebAppAssumption
<1>2. CASE user = None
  <2>1. to = <<"login">>
    BY <1>2 DEF RedirectOf, Home, LoginPath
  <2>2. RedirectOf(Page(<<"login">>)) = {}
    BY WebAppAssumption DEF RedirectOf
  <2> QED
    BY <2>1, <2>2, WebAppAssumption
<1> QED
  BY <1>1, <1>2 DEF RedirectOf

LEMMA ShownLands ==
  ASSUME NEW h, NavOK(h), Stands(h), NEW n, n = 0 \/ (n = 1 /\ RedirectOf(Here(h)) = {}),
         Shown(h, n)
  PROVE  Routed'
<1>1. UNCHANGED user
  BY DEF Shown, session
<1>2. CASE RedirectOf(Here(h)) # {}
  <2>1. PICK to \in RedirectOf(Here(h)) : nav' = Navigated(h, to, TRUE)
    BY <1>2 DEF Shown, Here, Replaces
  <2>2. n = 0 /\ hops' = n + 1
    BY <1>2 DEF Shown, Here
  <2>3. hops' = 1
    BY <2>2
  <2>4. to \in Path /\ RedirectOf(Page(to)) = {}
    BY RedirectsLand
  <2>5. NavOK(nav') /\ Stands(nav') /\ nav'.routers[nav'.current] = At(to)
    BY <2>1, <2>4, NavigatedStands
  <2>6. Here(nav') = Page(to)
    BY <2>5 DEF Here, At
  <2>7. Here(nav)' = Page(to)
    BY <2>6 DEF Here
  <2>8. RedirectOf(Here(nav))' = {}
    BY <1>1, <2>4, <2>7 DEF RedirectOf, Home
  <2> QED
    BY <2>3, <2>5, <2>8 DEF Routed, Landed, NavOK, Stands
<1>3. CASE RedirectOf(Here(h)) = {}
  <2>1. nav' = h /\ hops' = 0
    BY <1>3 DEF Shown, Here
  <2> QED
    BY <2>1 DEF Routed, Landed, NavOK, Stands
<1> QED
  BY <1>2, <1>3

LEMMA RoutedInit == Init => Routed
<1>1. Init => nav = Fresh /\ hops = 0
  BY DEF Init
<1>2. nav = Fresh => NavOK(nav) /\ Stands(nav)
  BY FreshStands
<1> QED
  BY <1>1, <1>2 DEF Routed, Landed

LEMMA RoutedNext ==
  ASSUME Routed, [Next]_vars
  PROVE  Routed'
<1>0. NavOK(nav) /\ Stands(nav) /\ Landed
  BY DEF Routed
\* A router that is sent somewhere ends the count of redirects.
<1>1. ASSUME NEW path \in Path, NEW replace \in BOOLEAN,
             nav' = Navigated(nav, path, replace), hops' = 0
      PROVE  Routed'
  BY <1>0, <1>1, NavigatedStands DEF Routed, Landed
<1>2. CASE Render
  BY <1>0, <1>2, ShownLands DEF Render, Landed
<1>3. ASSUME NEW injected \in BOOLEAN, App(injected)
      PROVE  Routed'
  <2>1. NavOK(Made(nav, injected)) /\ Stands(Made(nav, injected))
    BY <1>0, MadeStands
  <2> QED
    BY <1>3, <2>1, ShownLands DEF App
<1>4. ASSUME NEW path \in Links, FollowLink(path)
      PROVE  Routed'
  BY <1>1, <1>4, WebAppAssumption DEF FollowLink
<1>5. CASE Filter
  BY <1>1, <1>5, WebAppAssumption DEF Filter
<1>6. CASE BackOrForward
  <2>1. PICK step \in {-1, 1} : nav.idx + step \in DOMAIN nav.stack /\ nav' = Gone(nav, step)
    BY <1>6 DEF BackOrForward
  <2>2. hops' = 0
    BY <1>6 DEF BackOrForward
  <2> QED
    BY <1>0, <2>1, <2>2, GoneStands DEF Routed, Landed
<1>7. ASSUME NEW k \in Sub, LoggedIn(k)
      PROVE  Routed'
  <2>1. CASE call[k].ok
    BY <1>1, <1>7, <2>1, WebAppAssumption DEF LoggedIn
  <2>2. CASE ~call[k].ok
    <3>1. nav' = nav /\ hops' = hops /\ user' = user
      BY <1>7, <2>2 DEF LoggedIn, UserAfter
    <3> QED
      BY <1>0, <3>1 DEF Routed, Landed, RedirectOf, Home
  <2> QED
    BY <2>1, <2>2
<1>8. CASE LoggedOut
  BY <1>1, <1>8, WebAppAssumption DEF LoggedOut, LoginPath
<1>9. CASE Edit \/ Logout \/ CookieEnds \/ (\E k \in Sub, u \in User : Login(k, u))
           \/ (\E k \in Caller : Answer(k)) \/ UNCHANGED vars
  <2>1. nav' = nav /\ hops' = hops /\ user' = user
    BY <1>9 DEF Edit, Logout, CookieEnds, Login, Answer, vars, app, session
  <2> QED
    BY <1>0, <2>1 DEF Routed, Landed, RedirectOf, Home
<1> QED
  BY <1>2, <1>3, <1>4, <1>5, <1>6, <1>7, <1>8, <1>9 DEF Next

(***************************************************************************)
(* The current router stands where its history does, with the parameters of *)
(* that place, whichever routers were made on the history, navigated, sent  *)
(* back and forward (New, Navigate, Back, Forward of pkg/router).           *)
(***************************************************************************)
THEOREM AlwaysLocated == Spec => []Located
<1>1. Routed => Located
  BY DEF Routed, Stands, Located
<1> QED
  BY RoutedInit, RoutedNext, <1>1, PTL DEF Spec

(***************************************************************************)
(* A redirect leads to a page that does not redirect, for every table of    *)
(* routes in which login is open and todos is not home (Home, RequireLogin).*)
(***************************************************************************)
THEOREM AlwaysOneHop == Spec => []OneHop
<1>1. Routed => OneHop
  BY DEF Routed, Landed, OneHop
<1> QED
  BY RoutedInit, RoutedNext, <1>1, PTL DEF Spec

-----------------------------------------------------------------------------
(***************************************************************************)
(* The form, in whatever order it is edited, submitted, answered, reset and *)
(* made anew.  Until submits overlap there is one at a time, and one during *)
(* which nothing was edited has submitted what the form holds.              *)
(***************************************************************************)
Held == [Field -> Value]

FormTypes ==
  /\ value \in Held
  /\ errors \in [Field -> {"", "invalid", "refused"}]
  /\ sub \in [Sub -> Held \cup {None}]

OneAtATime == ~mixed => \A j, k \in Running : j = k

SubmittedHeld == \A k \in Running \ edited : sub[k] = value

FormStep ==
  \/ UNCHANGED form \/ UseForm \/ Reset
  \/ \E f \in Field, x \in Value : Set(f, x)
  \/ \E f \in Field : SetInvalid(f)
  \/ \E k \in Sub : Submit(k)
  \/ \E k \in Running : \E bad : Finish(k, bad)

LEMMA PagesStepForms == [Next]_vars => FormStep
<1> SUFFICES ASSUME [Next]_vars
             PROVE  FormStep
  OBVIOUS
<1>1. CASE Render \/ (\E i \in BOOLEAN : App(i))
  BY <1>1 DEF Render, App, Shown, FormStep
<1>2. CASE Edit
  BY <1>2 DEF Edit, FormStep
<1>3. CASE \E k \in Sub, u \in User : Login(k, u)
  BY <1>3 DEF Login, FormStep
<1>4. CASE \E k \in Sub : LoggedIn(k)
  BY <1>4 DEF LoggedIn, FormStep, Running
<1>5. CASE Filter \/ BackOrForward \/ Logout \/ LoggedOut \/ CookieEnds \/ (\E p \in Links : FollowLink(p))
           \/ (\E k \in Caller : Answer(k)) \/ UNCHANGED vars
  BY <1>5 DEF Filter, BackOrForward, Logout, LoggedOut, CookieEnds, FollowLink, Answer, vars, FormStep
<1> QED
  BY <1>1, <1>2, <1>3, <1>4, <1>5 DEF Next

LEMMA FormTypesInit == Init => FormTypes
  BY FormsAssumption DEF Init, FormInit, FormTypes, Held, Blank, NoErrors

LEMMA FormTypesStep ==
  ASSUME FormTypes, FormStep
  PROVE  FormTypes'
<1>1. CASE UNCHANGED form
  BY <1>1 DEF form, FormTypes
<1>2. CASE UseForm
  BY <1>2, FormsAssumption DEF UseForm, FormTypes, Held, Blank, NoErrors
<1>3. CASE Reset
  BY <1>3, FormsAssumption DEF Reset, FormTypes, Held, Blank, NoErrors
<1>4. ASSUME NEW f \in Field, NEW x \in Value, Set(f, x)
      PROVE  FormTypes'
  <2>1. value' \in Held /\ sub' = sub
    BY <1>4 DEF Set, FormTypes, Held
  <2>2. errors' \in [Field -> {"", "invalid", "refused"}]
    BY <1>4 DEF Set, FormTypes, Invalid
  <2> QED
    BY <2>1, <2>2 DEF FormTypes
<1>5. ASSUME NEW f \in Field, SetInvalid(f)
      PROVE  FormTypes'
  BY <1>5, FormsAssumption DEF SetInvalid, FormTypes, Held
<1>6. ASSUME NEW k \in Sub, Submit(k)
      PROVE  FormTypes'
  <2>1. value' = value /\ errors' = Invalid(value)
    BY <1>6 DEF Submit
  <2>2. errors' \in [Field -> {"", "invalid", "refused"}]
    BY <2>1 DEF Invalid
  <2>3. sub' \in [Sub -> Held \cup {None}]
    <3>1. sub' = sub \/ sub' = [sub EXCEPT ![k] = value]
      BY <1>6 DEF Submit
    <3> QED
      BY <3>1 DEF FormTypes
  <2> QED
    BY <2>1, <2>2, <2>3 DEF FormTypes
<1>7. ASSUME NEW k \in Running, NEW bad, Finish(k, bad)
      PROVE  FormTypes'
  BY <1>7 DEF Finish, FormTypes
<1> QED
  BY <1>1, <1>2, <1>3, <1>4, <1>5, <1>6, <1>7 DEF FormStep

Submits == FormTypes /\ OneAtATime /\ SubmittingExact

LEMMA SubmitsInit == Init => Submits
  BY FormTypesInit DEF Init, FormInit, Submits, OneAtATime, SubmittingExact, Running

LEMMA SubmitsStep ==
  ASSUME Submits, FormStep
  PROVE  Submits'
<1>0. FormTypes /\ OneAtATime /\ SubmittingExact /\ FormTypes'
  BY FormTypesStep DEF Submits
<1>1. CASE UNCHANGED <<sub, submitting, mixed>>
  BY <1>0, <1>1 DEF Submits, OneAtATime, SubmittingExact, Running
<1>2. CASE UseForm
  BY <1>0, <1>2 DEF UseForm, Submits, OneAtATime, SubmittingExact, Running
<1>3. CASE Reset
  <2>1. Running' = Running /\ (~mixed' => Running = {}) /\ submitting' = FALSE
    BY <1>3 DEF Reset, Running
  <2> QED
    BY <1>0, <2>1 DEF Submits, OneAtATime, SubmittingExact
<1>4. ASSUME NEW k \in Sub, Submit(k)
      PROVE  Submits'
  <2>1. CASE UNCHANGED <<submitting, sub, mixed>>
    BY <1>1, <2>1
  <2>2. CASE /\ submitting' = TRUE
             /\ sub' = [sub EXCEPT ![k] = value]
             /\ mixed' = (mixed \/ Running # {})
    <3>1. value # None
      BY <1>0, FormsAssumption DEF FormTypes, Held
    <3>2. Running' = Running \cup {k}
      BY <1>0, <2>2, <3>1 DEF Running, FormTypes
    <3> QED
      BY <1>0, <2>2, <3>2 DEF Submits, OneAtATime, SubmittingExact
  <2> QED
    BY <1>4, <2>1, <2>2 DEF Submit
<1>5. ASSUME NEW k \in Running, NEW bad, Finish(k, bad)
      PROVE  Submits'
  <2>1. Running' = Running \ {k}
    BY <1>0, <1>5 DEF Finish, Running, FormTypes
  <2>2. submitting' = FALSE /\ mixed' = (mixed /\ Running # {k})
    BY <1>5 DEF Finish, AfterSubmit
  <2>3. ~mixed' => Running = {k}
    BY <1>0, <2>2 DEF OneAtATime
  <2> QED
    BY <1>0, <2>1, <2>2, <2>3 DEF Submits, OneAtATime, SubmittingExact
<1> QED
  BY <1>1, <1>2, <1>3, <1>4, <1>5 DEF FormStep, form, history, Set, SetInvalid

(***************************************************************************)
(* IsSubmitting says whether a submit's function is running, until submits  *)
(* overlap or Reset is called during one (Submit, Reset of pkg/form).       *)
(***************************************************************************)
THEOREM SubmittingAlwaysExact == Spec => []SubmittingExact
<1>1. Submits => SubmittingExact
  BY DEF Submits
<1>2. Submits /\ [Next]_vars => Submits'
  BY SubmitsStep, PagesStepForms
<1> QED
  BY SubmitsInit, <1>1, <1>2, PTL DEF Spec

Fits == FormTypes /\ SubmittedHeld /\ ErrorsFit

LEMMA FitsInit == Init => Fits
  BY FormTypesInit DEF Init, FormInit, Fits, SubmittedHeld, ErrorsFit, Running, Refused, NoErrors

LEMMA FitsStep ==
  ASSUME Fits, FormStep, ~OnSubmitOnly
  PROVE  Fits'
<1>0. FormTypes /\ SubmittedHeld /\ ErrorsFit /\ FormTypes'
  BY FormTypesStep DEF Fits
<1>a. \A v : \A f \in Field : Invalid(v)[f] # "refused"
  BY DEF Invalid
<1>1. CASE UNCHANGED form
  BY <1>0, <1>1 DEF form, history, Fits, SubmittedHeld, ErrorsFit, Running, Refused
<1>2. CASE UseForm
  BY <1>0, <1>2 DEF UseForm, Fits, SubmittedHeld, ErrorsFit, Running, Refused, NoErrors
<1>3. CASE Reset
  BY <1>0, <1>3 DEF Reset, Fits, SubmittedHeld, ErrorsFit, Running, Refused, NoErrors
<1>4. ASSUME NEW f \in Field, NEW x \in Value, Set(f, x)
      PROVE  Fits'
  <2>1. errors' = Invalid(value') /\ edited' = edited \cup Running /\ sub' = sub
    BY <1>4 DEF Set, ValidatesOnChange
  <2>2. SubmittedHeld'
    BY <2>1 DEF SubmittedHeld, Running
  <2>3. ErrorsFit'
    BY <1>a, <2>1 DEF ErrorsFit, Refused
  <2> QED
    BY <1>0, <2>2, <2>3 DEF Fits
<1>5. ASSUME NEW f \in Field, SetInvalid(f)
      PROVE  Fits'
  BY <1>0, <1>5 DEF SetInvalid, Fits, SubmittedHeld, ErrorsFit, Running, Refused
<1>6. ASSUME NEW k \in Sub, Submit(k)
      PROVE  Fits'
  <2>1. errors' = Invalid(value) /\ judged' = None /\ value' = value /\ edited' = edited
    BY <1>6 DEF Submit
  <2>2. sub' = sub \/ sub' = [sub EXCEPT ![k] = value]
    BY <1>6 DEF Submit
  <2>3. SubmittedHeld'
    BY <1>0, <2>1, <2>2 DEF SubmittedHeld, Running, FormTypes
  <2>4. ErrorsFit'
    BY <2>1 DEF ErrorsFit
  <2> QED
    BY <1>0, <2>3, <2>4 DEF Fits
<1>7. ASSUME NEW k \in Running, NEW bad, Finish(k, bad)
      PROVE  Fits'
  <2>1. /\ errors' = [f \in Field |-> IF f \in bad THEN "refused" ELSE errors[f]]
        /\ sub' = [sub EXCEPT ![k] = None] /\ edited' = edited \ {k}
        /\ judged' = IF bad = {} THEN judged
                     ELSE IF k \in edited \/ (Refused /\ judged = None) THEN None ELSE sub[k]
        /\ UNCHANGED <<value, touched, torn>>
    BY <1>7 DEF Finish
  <2>2. SubmittedHeld'
    BY <1>0, <2>1 DEF SubmittedHeld, Running, FormTypes
  <2>3. errors' = NoErrors => errors = NoErrors
    BY <1>0, <2>1 DEF NoErrors, FormTypes
  <2>4. Refused' /\ judged' # None => value = judged'
    <3>1. CASE bad = {}
      <4>1. errors' = errors /\ judged' = judged
        BY <1>0, <2>1, <3>1 DEF FormTypes
      <4> QED
        BY <1>0, <4>1 DEF ErrorsFit, Refused
    <3>2. CASE bad # {}
      BY <1>0, <1>7, <2>1, <3>2 DEF SubmittedHeld
    <3> QED
      BY <3>1, <3>2
  <2>5. ErrorsFit'
    BY <1>0, <2>1, <2>3, <2>4 DEF ErrorsFit
  <2> QED
    BY <1>0, <2>2, <2>5 DEF Fits
<1> QED
  BY <1>1, <1>2, <1>3, <1>4, <1>5, <1>6, <1>7 DEF FormStep

(***************************************************************************)
(* A form that validates on change shows errors about the value it holds:   *)
(* no error means that the validators accept it, and what a server refused  *)
(* is what the form holds, unless it was edited meanwhile (Set, Submit).    *)
(***************************************************************************)
THEOREM ErrorsAlwaysFit ==
  ASSUME ~OnSubmitOnly
  PROVE  Spec => []ErrorsFit
<1>1. Fits => ErrorsFit
  BY DEF Fits
<1>2. Fits /\ [Next]_vars => Fits'
  BY FitsStep, PagesStepForms
<1> QED
  BY FitsInit, <1>1, <1>2, PTL DEF Spec

-----------------------------------------------------------------------------
(***************************************************************************)
(* Who is logged in.  A call that runs alone leaves the browser's session   *)
(* and the page's user as it found them or sets both; whatever had parted   *)
(* them before, such a call brings them together again once it is done.     *)
(***************************************************************************)
Call == [at: {"asked", "answered"}, user: User \cup {None}, done: BOOLEAN, ok: BOOLEAN,
         bad: SUBSET Field]

CallOK(k) ==
  LET c == call[k] IN
  /\ c.ok => c.done
  /\ c.at = "asked" => ~c.done
  /\ k = Button => c.user = None
  /\ ~together /\ c.done => given = c.user
  /\ ~parted /\ ~c.done => user = given
  /\ ~parted /\ c.at = "answered" => c.done = Assumed(k, c.ok)

Sessions ==
  /\ call \in [Caller -> {Idle} \cup Call]
  /\ cookie \in {given, None}
  /\ \A k \in Calling : CallOK(k)
  /\ ~together => \A j, k \in Calling : j = k
  /\ together /\ Calling # {} => parted
  /\ ~parted /\ Calling = {} => user = given

LEMMA SessionsInit == Init => Sessions
<1> SUFFICES ASSUME Init
             PROVE  Sessions
  OBVIOUS
<1>1. call = [k \in Caller |-> Idle] /\ user = None /\ cookie = given /\ (~parted => given = None)
  BY DEF Init
<1>2. \A k \in Caller : call[k].at = "idle"
  BY <1>1 DEF Idle
<1>3. Calling = {}
  BY <1>2 DEF Calling
<1>4. call \in [Caller -> {Idle} \cup Call]
  BY <1>1
<1> QED
  BY <1>1, <1>3, <1>4 DEF Sessions

\* Steps that are about neither calls nor the user.
LEMMA SessionsStill ==
  ASSUME Sessions, UNCHANGED <<call, user, given, together, parted>>, cookie' \in {cookie, None}
  PROVE  Sessions'
<1>1. Calling' = Calling
  BY DEF Calling
<1>2. \A k \in Calling : CallOK(k)'
  BY DEF Sessions, CallOK, Assumed
<1> QED
  BY <1>1, <1>2 DEF Sessions

\* A call that begins runs alone, or the calls overlap.
LEMMA SessionsAsk ==
  ASSUME Sessions, NEW k \in Caller, NEW u \in User \cup {None}, k = Button => u = None,
         Asks(k, u), UNCHANGED <<user, cookie, given>>
  PROVE  Sessions'
<1> DEFINE c == Asking(u)
<1>1. c \in Call /\ c.at = "asked" /\ c.user = u /\ ~c.done /\ ~c.ok
  BY DEF Call, Asking
<1>2. /\ call' = [call EXCEPT ![k] = c]
      /\ together' = (Calling # {}) /\ parted' = (parted \/ Calling # {})
  BY DEF Asks
<1> HIDE DEF c
<1>3. call' \in [Caller -> {Idle} \cup Call] /\ call'[k] = c
  BY <1>1, <1>2 DEF Sessions
<1>4. \A j \in Caller : j # k => call'[j] = call[j]
  BY <1>2 DEF Sessions
<1>5. Calling' = Calling \cup {k}
  BY <1>1, <1>3, <1>4 DEF Calling
<1>6. ASSUME NEW j \in Calling'
      PROVE  CallOK(j)'
  <2>1. CASE j = k
    BY <1>1, <1>2, <1>3, <2>1 DEF CallOK, Sessions
  <2>2. CASE j # k
    <3>1. j \in Calling /\ call'[j] = call[j] /\ CallOK(j)
      BY <1>4, <1>5, <2>2 DEF Sessions, Calling
    <3>2. together' /\ parted'
      BY <1>2, <3>1
    <3> QED
      BY <3>1, <3>2 DEF CallOK
  <2> QED
    BY <2>1, <2>2
<1> QED
  BY <1>2, <1>3, <1>5, <1>6 DEF Sessions

\* A call that ends leaves nobody calling, or calls have overlapped.
LEMMA SessionsEnd ==
  ASSUME Sessions, NEW k \in Calling, call[k].at = "answered", Told(k),
         UNCHANGED <<cookie, given, together>>,
         IF k = Button THEN user' = None ELSE user' = UserAfter(call[k])
  PROVE  Sessions'
<1> DEFINE c == call[k]
<1>0. k \in Caller /\ CallOK(k)
  BY DEF Calling, Sessions
<1>1. /\ call' = [call EXCEPT ![k] = Idle]
      /\ parted' = (parted /\ ~(c.done /\ Assumed(k, c.ok) /\ ~together))
  BY DEF Told
<1>2. call' \in [Caller -> {Idle} \cup Call]
  BY <1>1 DEF Sessions
<1>3. \A j \in Caller : call'[j] = IF j = k THEN Idle ELSE call[j]
  BY <1>1 DEF Sessions
<1>4. Calling' = Calling \ {k}
  BY <1>0, <1>3 DEF Calling, Idle
<1>5. together => parted /\ parted'
  BY <1>1 DEF Sessions
<1>6. ~together => Calling' = {}
  BY <1>4 DEF Sessions
<1>7. \A j \in Calling' : CallOK(j)'
  <2> SUFFICES ASSUME NEW j \in Calling'
               PROVE  CallOK(j)'
    OBVIOUS
  <2>1. j \in Calling /\ CallOK(j) /\ call'[j] = call[j] /\ together
    BY <1>3, <1>4, <1>6 DEF Sessions, Calling
  <2> QED
    BY <1>5, <2>1 DEF CallOK
<1>8. ~parted' => user' = given'
  <2> SUFFICES ASSUME ~parted'
               PROVE  user' = given
    OBVIOUS
  <2>1. ~together
    BY <1>5
  <2>2. c.done => Assumed(k, c.ok) /\ given = c.user
    BY <1>0, <1>1, <2>1 DEF CallOK
  <2>3. ~c.done => user = given /\ ~c.ok /\ k # Button
    BY <1>0, <1>1 DEF CallOK, Assumed
  <2> QED
    BY <1>0, <2>2, <2>3 DEF CallOK, Assumed, UserAfter
<1> QED
  BY <1>2, <1>4, <1>5, <1>6, <1>7, <1>8 DEF Sessions

LEMMA SessionsAnswer ==
  ASSUME Sessions, NEW k \in Caller, Answer(k)
  PROVE  Sessions'
<1>1. /\ call[k].at = "asked" /\ call[k] \in Call /\ k \in Calling /\ CallOK(k)
      /\ UNCHANGED <<user, together>>
  BY DEF Answer, Sessions, Calling, Idle
<1>2. PICK done \in BOOLEAN, ok \in BOOLEAN, bad \in SUBSET Field :
        /\ ok => done
        /\ call' = [call EXCEPT ![k] = [call[k] EXCEPT !.at = "answered", !.done = done, !.ok = ok,
                                                      !.bad = bad]]
        /\ cookie' = IF done THEN call[k].user ELSE cookie
        /\ given' = IF done THEN call[k].user ELSE given
        /\ parted' = (parted \/ done # Assumed(k, ok))
  BY <1>1 DEF Answer, Sessions
<1> DEFINE c == [call[k] EXCEPT !.at = "answered", !.done = done, !.ok = ok, !.bad = bad]
<1>3. c \in Call /\ c.at = "answered" /\ c.done = done /\ c.ok = ok /\ c.user = call[k].user
  BY <1>1 DEF Call
<1>4. call' = [call EXCEPT ![k] = c]
  BY <1>2
<1> HIDE DEF c
<1>5. call' \in [Caller -> {Idle} \cup Call] /\ call'[k] = c
  BY <1>3, <1>4 DEF Sessions
<1>6. \A j \in Caller : j # k => call'[j] = call[j]
  BY <1>4 DEF Sessions
<1>7. Calling' = Calling
  BY <1>1, <1>3, <1>5, <1>6 DEF Calling
<1>8. cookie' \in {given', None}
  BY <1>2 DEF Sessions
<1>9. CallOK(k)'
  <2>1. ~parted' => ~parted /\ done = Assumed(k, ok)
    BY <1>2
  <2>2. ~parted' /\ ~done => user' = given'
    BY <1>1, <1>2, <2>1 DEF CallOK
  <2>3. done => given' = c.user
    BY <1>2, <1>3
  <2>4. k = Button => c.user = None
    BY <1>1, <1>3 DEF CallOK
  <2> QED
    BY <1>2, <1>3, <1>5, <2>1, <2>2, <2>3, <2>4 DEF CallOK, Assumed
<1>10. ASSUME NEW j \in Calling, j # k
       PROVE  CallOK(j)'
  <2>1. together /\ parted /\ parted' /\ together' /\ call'[j] = call[j] /\ CallOK(j)
    BY <1>1, <1>2, <1>6, <1>10 DEF Sessions, Calling
  <2> QED
    BY <2>1 DEF CallOK
<1>11. \A j \in Calling' : CallOK(j)'
  BY <1>7, <1>9, <1>10
<1> QED
  BY <1>1, <1>2, <1>5, <1>7, <1>8, <1>11 DEF Sessions

LEMMA SessionsNext ==
  ASSUME Sessions, [Next]_vars
  PROVE  Sessions'
<1>1. CASE Render \/ Filter \/ BackOrForward \/ Edit \/ CookieEnds \/ (\E i \in BOOLEAN : App(i))
           \/ (\E p \in Links : FollowLink(p)) \/ UNCHANGED vars
  <2>1. UNCHANGED <<call, user, given, together, parted>> /\ cookie' \in {cookie, None}
    BY <1>1 DEF Render, Filter, BackOrForward, Edit, CookieEnds, App, FollowLink, Shown, vars, app, session
  <2> QED
    BY <2>1, SessionsStill
<1>2. ASSUME NEW k \in Sub, NEW u \in User, Login(k, u)
      PROVE  Sessions'
  <2>1. CASE UNCHANGED <<call, together, parted>>
    BY <1>2, <2>1, SessionsStill DEF Login
  <2>2. CASE ~UNCHANGED <<call, together, parted>>
    <3>1. k \in Caller /\ u \in User \cup {None} /\ k # Button
      BY WebAppAssumption DEF Caller
    <3> QED
      BY <1>2, <2>2, <3>1, SessionsAsk DEF Login
  <2> QED
    BY <2>1, <2>2
<1>3. CASE Logout
  <2>1. Button \in Caller /\ None \in User \cup {None}
    BY DEF Caller
  <2> QED
    BY <1>3, <2>1, SessionsAsk DEF Logout
<1>4. ASSUME NEW k \in Caller, Answer(k)
      PROVE  Sessions'
  BY <1>4, SessionsAnswer
<1>5. ASSUME NEW k \in Sub, LoggedIn(k)
      PROVE  Sessions'
  <2>1. k \in Calling /\ k # Button
    BY <1>5, WebAppAssumption DEF LoggedIn, Calling, Caller
  <2> QED
    BY <1>5, <2>1, SessionsEnd DEF LoggedIn
<1>6. CASE LoggedOut
  <2>1. Button \in Calling
    BY <1>6 DEF LoggedOut, Calling, Caller
  <2> QED
    BY <1>6, <2>1, SessionsEnd DEF LoggedOut
<1> QED
  BY <1>1, <1>2, <1>3, <1>4, <1>5, <1>6 DEF Next

(***************************************************************************)
(* The pages show whom the server last gave a session, and the browser has  *)
(* that session or its cookie has ended, for any number of forms and users, *)
(* calls refused, lost or ignored: from a page load, an overlap or a call   *)
(* that ended otherwise than the page assumed it may differ, but only until *)
(* the next call that runs alone is done (loginPage, signupPage, the logout *)
(* button).                                                                 *)
(***************************************************************************)
THEOREM UserAlwaysSessions == Spec => []UserIsSessions
<1>1. Sessions => UserIsSessions
  BY DEF Sessions, UserIsSessions
<1> QED
  BY SessionsInit, SessionsNext, <1>1, PTL DEF Spec

=============================================================================
