----------------------------- MODULE MCRequests -----------------------------
(***************************************************************************)
(* Clients of four kinds, chosen once: some log in and out while time       *)
(* passes, some guess passwords, some sign up and change their password,    *)
(* some have logged in and work on todos while the server may be stopped.   *)
(* Only the first tell the stores apart.                                    *)
(***************************************************************************)
EXTENDS Requests, TLC

CONSTANTS r1, r2, s1, s2, u1, u2, t1, t2, a, b, old, new

\* Bound: requests about todos in all.
TodoCalls == 3

VARIABLE mix

Mixes == {"sessions", "guesses", "accounts", "todos"}

MCCalls ==
  {[op |-> o] : o \in {"health", "options", "me", "logout"}}
    \cup {[op |-> "login", user |-> u1, good |-> g] : g \in BOOLEAN}
    \cup {[op |-> "signin", user |-> u, password |-> p] : u \in User, p \in Password}
    \cup {[op |-> "signup", user |-> u1, password |-> old]}
    \cup {[op |-> "change", old |-> p, new |-> q] : p, q \in Password}
    \cup {[op |-> "create", title |-> b], [op |-> "delete", id |-> t1],
          [op |-> "get", id |-> t1], [op |-> "list", filter |-> "all"],
          [op |-> "toggle", enabled |-> TRUE], [op |-> "toggle", enabled |-> FALSE]}
    \cup {[op |-> "update", id |-> t1, title |-> b, done |-> None],
          [op |-> "update", id |-> t1, title |-> None, done |-> TRUE]}

OpsOf ==
  [m \in Mixes |->
     CASE m = "sessions" -> {"signin", "me", "logout"}
       [] m = "guesses" -> {"login", "options"}
       [] m = "accounts" -> {"signup", "signin", "change"}
       [] m = "todos" -> {"health", "list", "get", "toggle", "create", "update", "delete"}]

LoggedIn ==
  /\ sessions = [s \in Sid |-> [user |-> IF s = s1 THEN u1 ELSE u2, expires |-> Duration]]
  /\ issued = [s \in Sid |-> sessions[s].user]
  /\ rows = [i \in Todo |-> IF i = t1 THEN [owner |-> u1, title |-> a, done |-> FALSE] ELSE None]

MCInit ==
  /\ mix \in Mixes
  /\ IF mix # "todos" THEN Init
     ELSE /\ now = 0 /\ calls = 0
          /\ waiter = "waiting" /\ serving = TRUE /\ result = None /\ gaveUp = FALSE
          /\ req = [r \in Req |-> Idle]
          /\ kind = "memory" /\ LoggedIn
          /\ seen = [s \in Sid |-> 0] /\ ended = {}
          /\ failures = Quiet /\ guesses = Quiet
          /\ promised = rows /\ overwritten = {} /\ failToggle = FALSE
  /\ mix # "sessions" => kind = "memory"
  /\ secret = [u \in User |-> IF mix = "accounts" THEN None ELSE old]

MCNext ==
  /\ Next /\ UNCHANGED mix
  /\ \A r \in Req : req'[r].at = "arrived" =>
       /\ req'[r].call.op \in OpsOf[mix]
       /\ req'[r].call.op \in {"health", "options", "toggle", "login", "signup", "signin"} <=> req'[r].sid = None
       /\ mix = "sessions" /\ req'[r].call.op = "signin" => req'[r].call.password = old
  /\ issued'[s2] # None => issued'[s1] # None   \* identifiers are alike
  /\ mix \in {"accounts", "todos"} => now' = now
  /\ mix = "todos" => calls' <= TodoCalls
  /\ mix # "todos" => server' = server

MCSpec == MCInit /\ [][MCNext]_<<vars, mix>> /\ Fair

=============================================================================
