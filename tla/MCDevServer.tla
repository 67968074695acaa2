---------------------------- MODULE MCDevServer ----------------------------
(* Small projects for the development server. *)
EXTENDS DevServer, TLC

CONSTANTS
  web,     \* cmd/web/main.go, the browser's entry point
  api,     \* internal/api/greeting.go
  types,   \* shared/types.go, with the endpoints
  made,    \* generated/gen_server.go and gen_client.go
  shell,   \* internal/web/page.go, the page that the server renders
  mail,    \* internal/mail/mail.go, imported by the backend
  maildir, \* its directory
  input,   \* .goflex-tailwind.input.css, written for each run of Tailwind
  p1, p2, c1, c2, c3

\* What classifyChange sees in their paths.
AllPlaces ==
  (web :> "other") @@ (api :> "server") @@ (types :> "shared") @@ (made :> "other")
    @@ (shell :> "other") @@ (mail :> "other") @@ (input :> "style") @@ (maildir :> "directory")

\* Imports; endpoints are declared in shared only; Tailwind looks at every Go file.
AllReaders ==
  (web :> {"frontend", "tailwind"}) @@ (api :> {"server", "tailwind"})
    @@ (types :> {"gen", "server", "frontend", "tailwind"}) @@ (made :> {"server", "frontend", "tailwind"})
    @@ (shell :> {"server", "tailwind"}) @@ (mail :> {"server", "tailwind"})
    @@ (input :> {}) @@ (maildir :> {})

ProjectPlaces == [x \in Files \cup NewDirs |-> AllPlaces[x]]
ProjectReaders == [x \in Files \cup NewDirs |-> AllReaders[x]]
ProjectInside == [d \in NewDirs |-> {mail}]

Interchangeable == Permutations(Pages) \cup Permutations(Conns)

=============================================================================
