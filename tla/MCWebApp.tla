------------------------------ MODULE MCWebApp ------------------------------
(* The routes of the todo example and a child route, and a form with a field  *)
(* of each kind.                                                              *)
EXTENDS WebApp, TLC

CONSTANTS k1, k2, u1, u2, text, pointer, blank, filled

Leaf(pattern, page) == [pattern |-> pattern, page |-> page, children |-> <<>>]

TodoRoutes ==
  << Leaf(Root, "home"), Leaf(<<"login">>, "login"), Leaf(<<"signup">>, "signup"),
     Leaf(<<"todos">>, "todos"), Leaf(<<"todos", ":id">>, "todo"),
     [pattern |-> <<"settings">>, page |-> "settings",
      children |-> << [pattern |-> <<"*">>, page |-> "password"] >>] >>

TodoLinks == {Root, <<"signup">>, <<"todos", "7">>, <<"settings", "password">>, <<"nowhere">>}

TodoPaths == TodoLinks \cup {<<"login">>, <<"todos">>}

(* Either somebody works on the form and stays where it is, or goes about the *)
(* pages and only fills it in, or two people use the browser, of whom one     *)
(* signs up, without going back or evaluating App anew.  Only there may the   *)
(* browser have a session at first, lose its cookie, or an answer be lost;    *)
(* and about the pages calls do not overlap, nor does a logout fail.          *)
VARIABLE mix

MCInit == Init /\ mix \in {"forms", "pages", "people"} /\ (mix # "people" => cookie = None)

MCNext ==
  /\ Next /\ UNCHANGED mix
  /\ \A k \in Caller : call'[k].at # "idle" => call'[k].bad \in {{}, {text}}
  /\ mix # "people" =>
       /\ ~CookieEnds
       /\ \A k \in Caller : call'[k].at = "answered" => call'[k].done = call'[k].ok
  /\ mix # "pages" => Len(nav'.stack) = 1 /\ Len(nav'.routers) = 1
  /\ mix # "forms" =>
       /\ \A f \in Field : value'[f] # value[f] => value' = Blank \/ value'[f] = filled
       /\ ~torn'
  /\ mix = "pages" => call'[k2].at = "idle" /\ ~parted'
  /\ call[k1].at = "idle" /\ call'[k1].at = "asked" =>
       call'[k1].user = (IF mix = "people" /\ shown = "signup" THEN u2 ELSE u1)

MCSpec == MCInit /\ [][MCNext]_<<vars, mix>>

=============================================================================
