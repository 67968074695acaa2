----------------------------- MODULE DevBackend -----------------------------
(***************************************************************************)
(* The backend process of `goflex dev`: start, rebuildServer,              *)
(* waitForBackend and stopBackend of internal/devserver/devserver.go.      *)
(*                                                                         *)
(* initialBuild, and later the watch goroutine, replace the application's  *)
(* process: stop the old one, start a new one on the same port, wait until *)
(* the port answers.  When the context is cancelled, by SIGINT, a shutdown *)
(* goroutine stops the backend at the same time, os/exec kills it too, and *)
(* waitForBackend gives up.                                                *)
(***************************************************************************)
EXTENDS Naturals, FiniteSets

CONSTANTS
  Procs,          \* backend processes that may be started: the bound on restarts
  ListenMayFail,  \* whether the development server's own port may be taken
  Crashes,        \* whether a backend may crash by itself
  NoProc

ASSUME ProcsAssumption == NoProc \notin Procs

VARIABLES
  ctx,           \* "live" or "done"
  main,          \* start and wait: "initial", "built", "serving", "leaving", "exited"
  rb,            \* rebuildServer: where it is, and the process it starts
  stopper,       \* a call of stopBackend by the rebuild or by the shutdown goroutine
  proc,          \* the processes
  backendCmd,
  backendReady

vars == <<ctx, main, rb, stopper, proc, backendCmd, backendReady>>

Callers == {"rebuild", "shutdown"}

Rebuild == [pc : {"idle", "compile", "stopping", "store", "wait", "ready"},
            proc : Procs \cup {NoProc}]
Stop == [pc : {"idle", "unready", "take", "signal", "await", "done"},
         victim : Procs \cup {NoProc}]

\* interrupted, killed: signals sent; bound: it has listened on the backend's port.
Process == [state : {"unborn", "booting", "serving", "draining", "dead"},
            interrupted : BOOLEAN, killed : BOOLEAN, bound : BOOLEAN]

TypeOK ==
  /\ ctx \in {"live", "done"}
  /\ main \in {"initial", "built", "serving", "leaving", "exited"}
  /\ rb \in Rebuild
  /\ stopper \in [Callers -> Stop]
  /\ \A a \in Callers : stopper[a].pc \in {"signal", "await"} => stopper[a].victim # NoProc
  /\ proc \in [Procs -> Process]
  /\ backendCmd \in Procs \cup {NoProc}
  /\ backendReady \in BOOLEAN

Init ==
  /\ ctx = "live"
  /\ main = "initial"
  /\ rb = [pc |-> "idle", proc |-> NoProc]
  /\ stopper = [a \in Callers |-> [pc |-> "idle", victim |-> NoProc]]
  /\ proc = [b \in Procs |->
       [state |-> "unborn", interrupted |-> FALSE, killed |-> FALSE, bound |-> FALSE]]
  /\ backendCmd = NoProc
  /\ backendReady = FALSE

Alive(b) == proc[b].state \in {"booting", "serving", "draining"}
Told(b) == proc[b].interrupted \/ proc[b].killed

\* The listener is open: also when the process has a signal it has not acted on.
Accepting(b) == proc[b].state = "serving"

-----------------------------------------------------------------------------
(* start, wait and the context. *)

\* SIGINT or SIGTERM.
Cancel ==
  /\ ctx = "live" /\ main # "exited"
  /\ ctx' = "done"
  /\ UNCHANGED <<main, rb, stopper, proc, backendCmd, backendReady>>

RebuildAt(pc) == rb' = [rb EXCEPT !.pc = pc]

\* initialBuild reaches rebuildServer once, unless generating the API fails.
InitialRebuild ==
  /\ main = "initial"
  /\ main' = "built"
  /\ RebuildAt("compile")
  /\ UNCHANGED <<ctx, stopper, proc, backendCmd, backendReady>>

\* initialBuild has ended, with or without an error, and start listens.
Listen ==
  /\ main \in {"initial", "built"} /\ rb.pc = "idle"
  /\ main' = "serving"
  /\ UNCHANGED <<ctx, rb, stopper, proc, backendCmd, backendReady>>

\* The port is taken: Run returns the error, and its caller cancels the context.
ListenFails ==
  /\ ListenMayFail
  /\ main \in {"initial", "built"} /\ rb.pc = "idle"
  /\ main' = "leaving"
  /\ ctx' = "done"
  /\ UNCHANGED <<rb, stopper, proc, backendCmd, backendReady>>

\* The watch goroutine rebuilds the server.
WatchRebuild ==
  /\ main = "serving" /\ ctx = "live" /\ rb.pc = "idle"
  /\ \E b \in Procs : proc[b].state = "unborn"
  /\ RebuildAt("compile")
  /\ UNCHANGED <<ctx, main, stopper, proc, backendCmd, backendReady>>

StopAt(a, pc, b) == stopper' = [stopper EXCEPT ![a] = [pc |-> pc, victim |-> b]]

\* The shutdown goroutine, which start runs.
Shutdown ==
  /\ main = "serving" /\ ctx = "done"
  /\ stopper["shutdown"].pc = "idle"
  /\ StopAt("shutdown", "unready", NoProc)
  /\ UNCHANGED <<ctx, main, rb, proc, backendCmd, backendReady>>

\* server.Shutdown makes Serve return at once: wait, and with it the process, ends.
Exit ==
  /\ \/ main = "leaving"
     \/ main = "serving" /\ stopper["shutdown"].pc = "done"
  /\ main' = "exited"
  /\ UNCHANGED <<ctx, rb, stopper, proc, backendCmd, backendReady>>

-----------------------------------------------------------------------------
(* stopBackend, called by a. *)

\* Wrong: requests are passed on until the new backend is ready (GatedWhileReplaced).
UnreadyNot(a) ==
  /\ stopper[a].pc = "unready"
  /\ StopAt(a, "take", NoProc)
  /\ UNCHANGED <<ctx, main, rb, proc, backendCmd, backendReady>>

Unready(a) ==
  /\ stopper[a].pc = "unready"
  /\ StopAt(a, "take", NoProc)
  /\ backendReady' = FALSE
  /\ UNCHANGED <<ctx, main, rb, proc, backendCmd>>

Take(a) ==
  /\ stopper[a].pc = "take"
  /\ StopAt(a, IF backendCmd = NoProc THEN "done" ELSE "signal", backendCmd)
  /\ backendCmd' = NoProc
  /\ UNCHANGED <<ctx, main, rb, proc, backendReady>>

Interrupt(a) ==
  /\ stopper[a].pc = "signal"
  /\ StopAt(a, "await", stopper[a].victim)
  /\ proc' = [proc EXCEPT ![stopper[a].victim].interrupted = TRUE]
  /\ UNCHANGED <<ctx, main, rb, backendCmd, backendReady>>

Reaped(a) ==
  /\ stopper[a].pc = "await"
  /\ ~Alive(stopper[a].victim)
  /\ StopAt(a, "done", NoProc)
  /\ UNCHANGED <<ctx, main, rb, proc, backendCmd, backendReady>>

\* Wrong: no time-out (CancelExits).
KillIfEnded(a) ==
  /\ stopper[a].pc = "await"
  /\ ~Alive(stopper[a].victim)
  /\ StopAt(a, "done", NoProc)
  /\ UNCHANGED <<ctx, main, rb, proc, backendCmd, backendReady>>

\* 500 ms have passed: kill it, and do not wait for its end.
KillLate(a) ==
  /\ stopper[a].pc = "await"
  /\ StopAt(a, "done", NoProc)
  /\ proc' = [proc EXCEPT ![stopper[a].victim].killed = TRUE]
  /\ UNCHANGED <<ctx, main, rb, backendCmd, backendReady>>

-----------------------------------------------------------------------------
(* rebuildServer. *)

\* go build fails, or there is no server to build, or the context is done.
CompileFails ==
  /\ rb.pc = "compile"
  /\ RebuildAt("idle")
  /\ UNCHANGED <<ctx, main, stopper, proc, backendCmd, backendReady>>

Compiled ==
  /\ rb.pc = "compile"
  /\ RebuildAt("stopping")
  /\ StopAt("rebuild", "unready", NoProc)
  /\ UNCHANGED <<ctx, main, proc, backendCmd, backendReady>>

Stopped == rb.pc = "stopping" /\ stopper["rebuild"].pc = "done"

\* exec does not start a command whose context is done.
Start(b) ==
  /\ Stopped /\ ctx = "live"
  /\ proc[b].state = "unborn"
  /\ proc' = [proc EXCEPT ![b].state = "booting"]
  /\ rb' = [pc |-> "store", proc |-> b]
  /\ StopAt("rebuild", "idle", NoProc)
  /\ UNCHANGED <<ctx, main, backendCmd, backendReady>>

StartFails ==
  /\ Stopped
  /\ RebuildAt("idle")
  /\ StopAt("rebuild", "idle", NoProc)
  /\ UNCHANGED <<ctx, main, proc, backendCmd, backendReady>>

\* Wrong: the command is not recorded before it is ready (Reachable).
StoreCmdNot ==
  /\ rb.pc = "store"
  /\ RebuildAt("wait")
  /\ UNCHANGED <<ctx, main, stopper, proc, backendCmd, backendReady>>

StoreCmd ==
  /\ rb.pc = "store"
  /\ RebuildAt("wait")
  /\ backendCmd' = rb.proc
  /\ UNCHANGED <<ctx, main, stopper, proc, backendReady>>

\* waitForBackend: the port accepts a connection.
Dialled ==
  /\ rb.pc = "wait"
  /\ \E b \in Procs : Accepting(b)
  /\ RebuildAt("ready")
  /\ UNCHANGED <<ctx, main, stopper, proc, backendCmd, backendReady>>

\* Wrong: a backend that is not ready in time is forgotten (OneBackend).
GiveUpForgets ==
  /\ rb.pc = "wait"
  /\ rb' = [pc |-> "idle", proc |-> NoProc]
  /\ backendCmd' = NoProc
  /\ UNCHANGED <<ctx, main, stopper, proc, backendReady>>

\* waitForBackend: ten seconds have passed, or the context is done.
GiveUp ==
  /\ rb.pc = "wait"
  /\ rb' = [pc |-> "idle", proc |-> NoProc]
  /\ UNCHANGED <<ctx, main, stopper, proc, backendCmd, backendReady>>

MarkReady ==
  /\ rb.pc = "ready"
  /\ rb' = [pc |-> "idle", proc |-> NoProc]
  /\ backendReady' = TRUE
  /\ UNCHANGED <<ctx, main, stopper, proc, backendCmd>>

-----------------------------------------------------------------------------
(* The processes. *)

\* exec kills a command when its context is done, while the parent lives.
ContextKill(b) ==
  /\ ctx = "done"
  /\ Alive(b) /\ ~proc[b].killed
  /\ proc' = [proc EXCEPT ![b].killed = TRUE]
  /\ UNCHANGED <<ctx, main, rb, stopper, backendCmd, backendReady>>

Becomes(b, state) ==
  /\ proc' = [proc EXCEPT ![b].state = state, ![b].bound = @ \/ state = "serving"]
  /\ UNCHANGED <<ctx, main, rb, stopper, backendCmd, backendReady>>

Bind(b) ==
  /\ proc[b].state = "booting"
  /\ \A c \in Procs : ~Accepting(c)
  /\ Becomes(b, "serving")

\* The port is in use: the application ends.
BindFails(b) ==
  /\ proc[b].state = "booting"
  /\ \E c \in Procs : Accepting(c)
  /\ Becomes(b, "dead")

\* An interrupted server closes its listener and finishes its requests.
Drain(b) ==
  /\ proc[b].state = "serving" /\ proc[b].interrupted
  /\ Becomes(b, "draining")

Die(b) ==
  /\ Alive(b)
  /\ \/ proc[b].killed
     \/ proc[b].interrupted /\ ~Accepting(b)
     \/ Crashes
  /\ Becomes(b, "dead")

-----------------------------------------------------------------------------
StopStep == \E a \in Callers :
  Unready(a) \/ Take(a) \/ Interrupt(a) \/ Reaped(a) \/ KillLate(a)

RebuildStep ==
  \/ CompileFails \/ Compiled \/ StartFails \/ StoreCmd \/ Dialled \/ GiveUp \/ MarkReady
  \/ \E b \in Procs : Start(b)

MainStep ==
  Cancel \/ InitialRebuild \/ Listen \/ ListenFails \/ WatchRebuild \/ Shutdown \/ Exit

ProcessStep == \E b \in Procs : Bind(b) \/ BindFails(b) \/ Drain(b) \/ Die(b)

\* When the development server's process has ended, its goroutines have too.
ServerStep ==
  main # "exited" /\ (MainStep \/ StopStep \/ RebuildStep \/ \E b \in Procs : ContextKill(b))

Next == ServerStep \/ ProcessStep

Spec == Init /\ [][Next]_vars

\* The goroutines go on and timers fire; a killed process dies.  Nothing else is fair:
\* no user interrupts, no interrupted process needs to end by itself.
Fairness ==
  /\ WF_vars(main # "exited" /\ (Listen \/ ListenFails))
  /\ WF_vars(main # "exited" /\ Shutdown)
  /\ WF_vars(main # "exited" /\ Exit)
  /\ WF_vars(main # "exited" /\ RebuildStep)
  /\ \A a \in Callers :
       WF_vars(main # "exited" /\ (Unready(a) \/ Take(a) \/ Interrupt(a)
                                     \/ Reaped(a) \/ KillLate(a)))
  /\ \A b \in Procs : WF_vars(proc[b].killed /\ Die(b))

FairSpec == Spec /\ Fairness

-----------------------------------------------------------------------------
(* Properties. *)

\* However rebuilds, failed starts, time-outs and the shutdown meet, at most one living
\* backend has not been told to stop: rebuildServer never leaves two behind.
OneBackend ==
  \A b, c \in Procs : Alive(b) /\ ~Told(b) /\ Alive(c) /\ ~Told(c) => b = c

\* While the backend is being replaced, requests are answered "backend not ready": from
\* the moment the old process may be signalled until the port has answered again.
GatedWhileReplaced ==
  backendReady =>
    /\ rb.pc \notin {"store", "wait", "ready"}
    /\ rb.pc = "stopping" => stopper["rebuild"].pc = "unready"

\* A backend nobody has told to stop can be found by stopBackend, now or in the step in
\* which rebuildServer records it, or is about to be signalled.
Reachable ==
  \A b \in Procs : Alive(b) /\ ~Told(b) =>
    \/ b = backendCmd
    \/ rb = [pc |-> "store", proc |-> b]
    \/ \E a \in Callers : stopper[a] = [pc |-> "signal", victim |-> b]

\* When the development server has exited, every backend it started has been told to.
NoOrphan == main = "exited" => \A b \in Procs : Alive(b) => Told(b)

\* Requests are sent on only to a backend that has been able to listen.
ReadyHasBound == backendReady /\ backendCmd # NoProc => proc[backendCmd].bound

\* After SIGINT the development server exits, even if a backend ignores its interrupt.
CancelExits == ctx = "done" ~> main = "exited"

=============================================================================
