-------------------------- MODULE DevBackendProofs --------------------------
(***************************************************************************)
(* rebuildServer never leaves two backends behind, and loses none.         *)
(*                                                                         *)
(* OneBackend follows from Reachable once the three places that Reachable  *)
(* names exclude one another (HandOver): the backend is in backendCmd, in  *)
(* the hands of one call of stopBackend, or just started.  The reason is   *)
(* that only rebuildServer starts a process, after it has taken            *)
(* backendCmd; and that the shutdown goroutine, which takes it too, runs   *)
(* after the context is done, when exec starts nothing (AfterCancel).      *)
(***************************************************************************)
EXTENDS DevBackend, TLAPS

\* The shutdown goroutine stops the backend only after the context is done.
AfterCancel == stopper["shutdown"].pc # "idle" => ctx = "done"

\* The rebuild's call of stopBackend lasts as long as rebuildServer is in it; and
\* rebuildServer is first called by initialBuild.
CallNested ==
  /\ rb.pc = "stopping" <=> stopper["rebuild"].pc # "idle"
  /\ main = "initial" => rb.pc = "idle"

\* At most one of backendCmd, the two calls of stopBackend and rebuildServer has it.
HandOver ==
  /\ rb.pc = "store" => backendCmd = NoProc
  /\ stopper["rebuild"].pc \in {"signal", "await", "done"} => backendCmd = NoProc
  /\ \A a \in Callers : stopper[a].pc = "signal" => backendCmd = NoProc /\ rb.pc # "store"
  /\ \A a, d \in Callers : stopper[a].pc = "signal" /\ stopper[d].pc = "signal" => a = d

Handed == AfterCancel /\ CallNested /\ HandOver /\ GatedWhileReplaced

IInv == TypeOK /\ Reachable /\ Handed

-----------------------------------------------------------------------------
(* Types. *)

LEMMA TypeInit == Init => TypeOK
<1> SUFFICES ASSUME Init PROVE TypeOK
  OBVIOUS
<1>1. [pc |-> "idle", proc |-> NoProc] \in Rebuild
  BY DEF Rebuild
<1>2. [pc |-> "idle", victim |-> NoProc] \in Stop
  BY DEF Stop
<1>3. [state |-> "unborn", interrupted |-> FALSE, killed |-> FALSE, bound |-> FALSE] \in Process
  BY DEF Process
<1>q. QED
  BY <1>1, <1>2, <1>3 DEF Init, TypeOK

\* Changing one field of one process.
LEMMA InterruptTyped ==
  ASSUME NEW p \in [Procs -> Process], NEW b \in Procs
  PROVE  [p EXCEPT ![b].interrupted = TRUE] \in [Procs -> Process]
<1>1. p[b] \in Process
  OBVIOUS
<1>2. [p[b] EXCEPT !.interrupted = TRUE] \in Process
  BY <1>1 DEF Process
<1>q. QED
  BY <1>2

LEMMA KillTyped ==
  ASSUME NEW p \in [Procs -> Process], NEW b \in Procs
  PROVE  [p EXCEPT ![b].killed = TRUE] \in [Procs -> Process]
<1>1. p[b] \in Process
  OBVIOUS
<1>2. [p[b] EXCEPT !.killed = TRUE] \in Process
  BY <1>1 DEF Process
<1>q. QED
  BY <1>2

LEMMA BecomesTyped ==
  ASSUME TypeOK, NEW b \in Procs,
         NEW s \in {"booting", "serving", "draining", "dead"}, Becomes(b, s)
  PROVE  TypeOK'
<1> DEFINE r == [proc[b] EXCEPT !.state = s, !.bound = @ \/ s = "serving"]
<1>1. proc[b] \in Process
  BY DEF TypeOK
<1>2. r \in Process
  BY <1>1 DEF Process
<1>3. proc' = [proc EXCEPT ![b] = r]
  BY DEF Becomes, TypeOK
<1>4. proc' \in [Procs -> Process]
  BY <1>2, <1>3 DEF TypeOK
<1>q. QED
  BY <1>4 DEF Becomes, TypeOK

LEMMA TypeStep == TypeOK /\ [Next]_vars => TypeOK'
<1> SUFFICES ASSUME TypeOK, [Next]_vars PROVE TypeOK'
  OBVIOUS
<1> USE ProcsAssumption
<1>1. CASE Cancel
  BY <1>1 DEF Cancel, TypeOK, Rebuild, Stop, Process, Callers
<1>2. CASE InitialRebuild
  BY <1>2 DEF InitialRebuild, RebuildAt, TypeOK, Rebuild, Stop, Process, Callers
<1>3. CASE Listen
  BY <1>3 DEF Listen, TypeOK, Rebuild, Stop, Process, Callers
<1>4. CASE ListenFails
  BY <1>4 DEF ListenFails, TypeOK, Rebuild, Stop, Process, Callers
<1>5. CASE WatchRebuild
  BY <1>5 DEF WatchRebuild, RebuildAt, TypeOK, Rebuild, Stop, Process, Callers
<1>6. CASE Shutdown
  BY <1>6 DEF Shutdown, StopAt, TypeOK, Rebuild, Stop, Process, Callers
<1>7. CASE Exit
  BY <1>7 DEF Exit, TypeOK, Rebuild, Stop, Process, Callers
<1>8. CASE \E a \in Callers : Unready(a)
  <2>1. PICK a \in Callers : Unready(a)
    BY <1>8
  <2>2. [pc |-> "take", victim |-> NoProc] \in Stop
    BY DEF Stop
  <2>3. stopper' = [stopper EXCEPT ![a] = [pc |-> "take", victim |-> NoProc]]
    BY <2>1 DEF Unready, StopAt
  <2>q. QED
    BY <2>1, <2>2, <2>3 DEF Unready, TypeOK
<1>9. CASE \E a \in Callers : Take(a)
  BY <1>9 DEF Take, StopAt, TypeOK, Rebuild, Stop, Process, Callers
<1>10. CASE \E a \in Callers : Interrupt(a)
  <2>1. PICK a \in Callers : Interrupt(a)
    BY <1>10
  <2>2. stopper[a] \in Stop /\ stopper[a].victim \in Procs
    BY <2>1 DEF Interrupt, TypeOK, Stop
  <2>3. PICK v \in Procs : v = stopper[a].victim
    BY <2>2
  <2>4. [pc |-> "await", victim |-> v] \in Stop
    BY DEF Stop
  <2>5. stopper' = [stopper EXCEPT ![a] = [pc |-> "await", victim |-> v]]
    BY <2>1, <2>3 DEF Interrupt, StopAt
  <2>6. stopper' \in [Callers -> Stop]
    BY <2>4, <2>5 DEF TypeOK
  <2>7. \A d \in Callers : stopper'[d].pc \in {"signal", "await"} => stopper'[d].victim # NoProc
    BY <2>5, ProcsAssumption DEF TypeOK
  <2>8. proc' = [proc EXCEPT ![v].interrupted = TRUE]
    BY <2>1, <2>3 DEF Interrupt
  <2>9. proc' \in [Procs -> Process]
    BY <2>8, InterruptTyped DEF TypeOK
  <2>q. QED
    BY <2>1, <2>6, <2>7, <2>9 DEF Interrupt, TypeOK
<1>11. CASE \E a \in Callers : Reaped(a)
  BY <1>11 DEF Reaped, StopAt, Alive, TypeOK, Rebuild, Stop, Process, Callers
<1>12. CASE \E a \in Callers : KillLate(a)
  <2>1. PICK a \in Callers : KillLate(a)
    BY <1>12
  <2>2. stopper[a] \in Stop /\ stopper[a].victim \in Procs
    BY <2>1 DEF KillLate, TypeOK, Stop
  <2>3. PICK v \in Procs : v = stopper[a].victim
    BY <2>2
  <2>4. [pc |-> "done", victim |-> NoProc] \in Stop
    BY DEF Stop
  <2>5. stopper' = [stopper EXCEPT ![a] = [pc |-> "done", victim |-> NoProc]]
    BY <2>1 DEF KillLate, StopAt
  <2>6. stopper' \in [Callers -> Stop]
    BY <2>4, <2>5 DEF TypeOK
  <2>7. \A d \in Callers : stopper'[d].pc \in {"signal", "await"} => stopper'[d].victim # NoProc
    BY <2>5 DEF TypeOK
  <2>8. proc' = [proc EXCEPT ![v].killed = TRUE]
    BY <2>1, <2>3 DEF KillLate
  <2>9. proc' \in [Procs -> Process]
    BY <2>8, KillTyped DEF TypeOK
  <2>q. QED
    BY <2>1, <2>6, <2>7, <2>9 DEF KillLate, TypeOK
<1>13. CASE CompileFails
  BY <1>13 DEF CompileFails, RebuildAt, TypeOK, Rebuild, Stop, Process, Callers
<1>14. CASE Compiled
  BY <1>14 DEF Compiled, RebuildAt, StopAt, TypeOK, Rebuild, Stop, Process, Callers
<1>15. CASE \E b \in Procs : Start(b)
  BY <1>15 DEF Start, StopAt, Stopped, TypeOK, Rebuild, Stop, Process, Callers
<1>16. CASE StartFails
  BY <1>16 DEF StartFails, StopAt, Stopped, RebuildAt, TypeOK, Rebuild, Stop, Process, Callers
<1>17. CASE StoreCmd
  BY <1>17 DEF StoreCmd, RebuildAt, TypeOK, Rebuild, Stop, Process, Callers
<1>18. CASE Dialled
  BY <1>18 DEF Dialled, RebuildAt, Accepting, TypeOK, Rebuild, Stop, Process, Callers
<1>19. CASE GiveUp
  BY <1>19 DEF GiveUp, TypeOK, Rebuild, Stop, Process, Callers
<1>20. CASE MarkReady
  BY <1>20 DEF MarkReady, TypeOK, Rebuild, Stop, Process, Callers
<1>21. CASE \E b \in Procs : ContextKill(b)
  <2>1. PICK b \in Procs : ContextKill(b)
    BY <1>21
  <2>2. proc' \in [Procs -> Process]
    BY <2>1, KillTyped DEF ContextKill, TypeOK
  <2>q. QED
    BY <2>1, <2>2 DEF ContextKill, TypeOK
<1>22. CASE \E b \in Procs : Bind(b)
  <2>1. PICK b \in Procs : Becomes(b, "serving")
    BY <1>22 DEF Bind
  <2>q. QED
    BY <2>1, BecomesTyped
<1>23. CASE \E b \in Procs : BindFails(b)
  <2>1. PICK b \in Procs : Becomes(b, "dead")
    BY <1>23 DEF BindFails
  <2>q. QED
    BY <2>1, BecomesTyped
<1>24. CASE \E b \in Procs : Drain(b)
  <2>1. PICK b \in Procs : Becomes(b, "draining")
    BY <1>24 DEF Drain
  <2>q. QED
    BY <2>1, BecomesTyped
<1>25. CASE \E b \in Procs : Die(b)
  <2>1. PICK b \in Procs : Becomes(b, "dead")
    BY <1>25 DEF Die
  <2>q. QED
    BY <2>1, BecomesTyped
<1>26. CASE UNCHANGED vars
  BY <1>26 DEF vars, TypeOK, Rebuild, Stop, Process, Callers
<1>q. QED
  BY <1>1, <1>2, <1>3, <1>4, <1>5, <1>6, <1>7, <1>8, <1>9, <1>10, <1>11, <1>12, <1>13, <1>14, <1>15, <1>16, <1>17, <1>18, <1>19, <1>20, <1>21, <1>22, <1>23, <1>24, <1>25, <1>26 DEF Next, ServerStep, MainStep, StopStep, RebuildStep, ProcessStep

\* Every reachable state is well typed, and a stop that signals has a process to signal.
THEOREM TypeCorrect == Spec => []TypeOK
<1>1. Init => TypeOK
  BY TypeInit
<1>2. TypeOK /\ [Next]_vars => TypeOK'
  BY TypeStep
<1>q. QED
  BY <1>1, <1>2, PTL DEF Spec
-----------------------------------------------------------------------------
(* The hand-over. *)

LEMMA IInvInit == Init => IInv
<1> SUFFICES ASSUME Init PROVE IInv
  OBVIOUS
<1>1. TypeOK
  BY TypeInit
<1>2. Reachable
  BY DEF Init, Reachable, Alive
<1>q. QED
  BY <1>1, <1>2 DEF Init, IInv, Handed, AfterCancel, CallNested, HandOver, GatedWhileReplaced, Callers

LEMMA IInvStep == IInv /\ [Next]_vars => IInv'
<1> SUFFICES ASSUME IInv, [Next]_vars PROVE IInv'
  OBVIOUS
<1>0. TypeOK'
  BY TypeStep DEF IInv
<1> USE <1>0, ProcsAssumption
    DEF IInv, TypeOK, Stop, Rebuild, Callers, AfterCancel, CallNested, HandOver,
        GatedWhileReplaced
<1>1. CASE Cancel
  <2>1. Reachable'
    BY <1>1 DEF Cancel, Reachable, Alive, Told
  <2>2. Handed'
    BY <1>1 DEF Cancel, Handed
  <2>q. QED
    BY <2>1, <2>2 DEF IInv
<1>2. CASE InitialRebuild
  <2>1. Reachable'
    BY <1>2 DEF InitialRebuild, RebuildAt, Reachable, Alive, Told, Handed
  <2>2. Handed'
    BY <1>2 DEF InitialRebuild, RebuildAt, Handed
  <2>q. QED
    BY <2>1, <2>2 DEF IInv
<1>3. CASE Listen
  <2>1. Reachable'
    BY <1>3 DEF Listen, Reachable, Alive, Told
  <2>2. Handed'
    BY <1>3 DEF Listen, Handed
  <2>q. QED
    BY <2>1, <2>2 DEF IInv
<1>4. CASE ListenFails
  <2>1. Reachable'
    BY <1>4 DEF ListenFails, Reachable, Alive, Told
  <2>2. Handed'
    BY <1>4 DEF ListenFails, Handed
  <2>q. QED
    BY <2>1, <2>2 DEF IInv
<1>5. CASE WatchRebuild
  <2>1. Reachable'
    BY <1>5 DEF WatchRebuild, RebuildAt, Reachable, Alive, Told
  <2>2. Handed'
    BY <1>5 DEF WatchRebuild, RebuildAt, Handed
  <2>q. QED
    BY <2>1, <2>2 DEF IInv
<1>6. CASE Shutdown
  <2>1. Reachable'
    BY <1>6 DEF Shutdown, StopAt, Reachable, Alive, Told
  <2>2. Handed'
    BY <1>6 DEF Shutdown, StopAt, Handed
  <2>q. QED
    BY <2>1, <2>2 DEF IInv
<1>7. CASE Exit
  <2>1. Reachable'
    BY <1>7 DEF Exit, Reachable, Alive, Told
  <2>2. Handed'
    BY <1>7 DEF Exit, Handed
  <2>q. QED
    BY <2>1, <2>2 DEF IInv
<1>8. CASE \E a \in Callers : Unready(a)
  <2>0. PICK a \in Callers : Unready(a)
    BY <1>8
  <2>1. Reachable'
    BY <2>0 DEF Unready, StopAt, Reachable, Alive, Told
  <2>2. Handed'
    BY <2>0 DEF Unready, StopAt, Handed
  <2>q. QED
    BY <2>1, <2>2 DEF IInv
<1>9. CASE \E a \in Callers : Take(a)
  <2>0. PICK a \in Callers : Take(a)
    BY <1>9
  <2>1. Reachable'
    BY <2>0 DEF Take, StopAt, Reachable, Alive, Told
  <2>2. Handed'
    BY <2>0 DEF Take, StopAt, Handed
  <2>q. QED
    BY <2>1, <2>2 DEF IInv
<1>10. CASE \E a \in Callers : Interrupt(a)
  <2>0. PICK a \in Callers : Interrupt(a)
    BY <1>10
  <2>1. Reachable'
    BY <2>0 DEF Interrupt, StopAt, Reachable, Alive, Told
  <2>2. Handed'
    BY <2>0 DEF Interrupt, StopAt, Handed
  <2>q. QED
    BY <2>1, <2>2 DEF IInv
<1>11. CASE \E a \in Callers : Reaped(a)
  <2>0. PICK a \in Callers : Reaped(a)
    BY <1>11
  <2>1. Reachable'
    BY <2>0 DEF Reaped, StopAt, Alive, Reachable, Told
  <2>2. Handed'
    BY <2>0 DEF Reaped, StopAt, Alive, Handed
  <2>q. QED
    BY <2>1, <2>2 DEF IInv
<1>12. CASE \E a \in Callers : KillLate(a)
  <2>0. PICK a \in Callers : KillLate(a)
    BY <1>12
  <2>1. Reachable'
    BY <2>0 DEF KillLate, StopAt, Reachable, Alive, Told
  <2>2. Handed'
    BY <2>0 DEF KillLate, StopAt, Handed
  <2>q. QED
    BY <2>1, <2>2 DEF IInv
<1>13. CASE CompileFails
  <2>1. Reachable'
    BY <1>13 DEF CompileFails, RebuildAt, Reachable, Alive, Told
  <2>2. Handed'
    BY <1>13 DEF CompileFails, RebuildAt, Handed
  <2>q. QED
    BY <2>1, <2>2 DEF IInv
<1>14. CASE Compiled
  <2>1. Reachable'
    BY <1>14 DEF Compiled, RebuildAt, StopAt, Reachable, Alive, Told, Handed
  <2>2. Handed'
    BY <1>14 DEF Compiled, RebuildAt, StopAt, Handed
  <2>q. QED
    BY <2>1, <2>2 DEF IInv
<1>15. CASE \E b \in Procs : Start(b)
  <2>0. PICK b \in Procs : Start(b)
    BY <1>15
  <2>1. Reachable'
    BY <2>0 DEF Start, StopAt, Stopped, Reachable, Alive, Told, Handed
  <2>2. Handed'
    BY <2>0 DEF Start, StopAt, Stopped, Handed
  <2>q. QED
    BY <2>1, <2>2 DEF IInv
<1>16. CASE StartFails
  <2>1. Reachable'
    BY <1>16 DEF StartFails, StopAt, Stopped, RebuildAt, Reachable, Alive, Told
  <2>2. Handed'
    BY <1>16 DEF StartFails, StopAt, Stopped, RebuildAt, Handed
  <2>q. QED
    BY <2>1, <2>2 DEF IInv
<1>17. CASE StoreCmd
  <2>1. Reachable'
    BY <1>17 DEF StoreCmd, RebuildAt, Reachable, Alive, Told, Handed
  <2>2. Handed'
    BY <1>17 DEF StoreCmd, RebuildAt, Handed
  <2>q. QED
    BY <2>1, <2>2 DEF IInv
<1>18. CASE Dialled
  <2>1. Reachable'
    BY <1>18 DEF Dialled, RebuildAt, Accepting, Reachable, Alive, Told
  <2>2. Handed'
    BY <1>18 DEF Dialled, RebuildAt, Accepting, Handed
  <2>q. QED
    BY <2>1, <2>2 DEF IInv
<1>19. CASE GiveUp
  <2>1. Reachable'
    BY <1>19 DEF GiveUp, Reachable, Alive, Told
  <2>2. Handed'
    BY <1>19 DEF GiveUp, Handed
  <2>q. QED
    BY <2>1, <2>2 DEF IInv
<1>20. CASE MarkReady
  <2>1. Reachable'
    BY <1>20 DEF MarkReady, Reachable, Alive, Told
  <2>2. Handed'
    BY <1>20 DEF MarkReady, Handed
  <2>q. QED
    BY <2>1, <2>2 DEF IInv
<1>21. CASE \E b \in Procs : ContextKill(b)
  <2>0. PICK b \in Procs : ContextKill(b)
    BY <1>21
  <2>1. Reachable'
    BY <2>0 DEF ContextKill, Alive, Reachable, Told
  <2>2. Handed'
    BY <2>0 DEF ContextKill, Alive, Handed
  <2>q. QED
    BY <2>1, <2>2 DEF IInv
<1>22. CASE \E b \in Procs : Bind(b)
  <2>0. PICK b \in Procs : Bind(b)
    BY <1>22
  <2>1. Reachable'
    BY <2>0 DEF Bind, Becomes, Accepting, Reachable, Alive, Told
  <2>2. Handed'
    BY <2>0 DEF Bind, Becomes, Accepting, Handed
  <2>q. QED
    BY <2>1, <2>2 DEF IInv
<1>23. CASE \E b \in Procs : BindFails(b)
  <2>0. PICK b \in Procs : BindFails(b)
    BY <1>23
  <2>1. Reachable'
    BY <2>0 DEF BindFails, Becomes, Reachable, Alive, Told
  <2>2. Handed'
    BY <2>0 DEF BindFails, Becomes, Handed
  <2>q. QED
    BY <2>1, <2>2 DEF IInv
<1>24. CASE \E b \in Procs : Drain(b)
  <2>0. PICK b \in Procs : Drain(b)
    BY <1>24
  <2>1. Reachable'
    BY <2>0 DEF Drain, Becomes, Reachable, Alive, Told
  <2>2. Handed'
    BY <2>0 DEF Drain, Becomes, Handed
  <2>q. QED
    BY <2>1, <2>2 DEF IInv
<1>25. CASE \E b \in Procs : Die(b)
  <2>0. PICK b \in Procs : Die(b)
    BY <1>25
  <2>1. Reachable'
    BY <2>0 DEF Die, Becomes, Reachable, Alive, Told
  <2>2. Handed'
    BY <2>0 DEF Die, Becomes, Handed
  <2>q. QED
    BY <2>1, <2>2 DEF IInv
<1>26. CASE UNCHANGED vars
  BY <1>26 DEF vars, Reachable, Alive, Told, Handed
<1>q. QED
  BY <1>1, <1>2, <1>3, <1>4, <1>5, <1>6, <1>7, <1>8, <1>9, <1>10, <1>11, <1>12, <1>13,
     <1>14, <1>15, <1>16, <1>17, <1>18, <1>19, <1>20, <1>21, <1>22, <1>23, <1>24, <1>25, <1>26
  DEF Next, ServerStep, MainStep, StopStep, RebuildStep, ProcessStep

LEMMA IInvAlways == Spec => []IInv
<1>1. Init => IInv
  BY IInvInit
<1>2. IInv /\ [Next]_vars => IInv'
  BY IInvStep
<1>q. QED
  BY <1>1, <1>2, PTL DEF Spec

\* A living backend that has not been told to stop can always be found.
THEOREM NeverLost == Spec => []Reachable
<1>1. IInv => Reachable
  BY DEF IInv
<1>q. QED
  BY <1>1, IInvAlways, PTL

\* Two such backends would be found in one place, or in two that exclude each other.
THEOREM OneAtATime == Spec => []OneBackend
<1>1. IInv => OneBackend
  <2> SUFFICES ASSUME IInv, NEW b \in Procs, NEW c \in Procs,
                      Alive(b), ~Told(b), Alive(c), ~Told(c)
               PROVE  b = c
    BY DEF OneBackend
  <2> DEFINE Stopping(x) == \E a \in Callers : stopper[a].pc = "signal" /\ stopper[a].victim = x
             Storing(x) == rb.pc = "store" /\ rb.proc = x
  <2>1. \A x \in Procs : Alive(x) /\ ~Told(x) => x = backendCmd \/ Storing(x) \/ Stopping(x)
    <3>1. SUFFICES ASSUME NEW x \in Procs, Alive(x), ~Told(x)
                   PROVE  x = backendCmd \/ Storing(x) \/ Stopping(x)
      OBVIOUS
    <3>2. CASE rb = [pc |-> "store", proc |-> x]
      BY <3>2
    <3>3. CASE \E a \in Callers : stopper[a] = [pc |-> "signal", victim |-> x]
      BY <3>3
    <3>q. QED
      BY <3>1, <3>2, <3>3 DEF IInv, Reachable
  <2>2. HandOver
    BY DEF IInv, Handed
  <2>3. CASE b = backendCmd
    BY <2>1, <2>2, <2>3, ProcsAssumption DEF HandOver
  <2>4. CASE Storing(b)
    BY <2>1, <2>2, <2>4, ProcsAssumption DEF HandOver
  <2>5. CASE Stopping(b)
    BY <2>1, <2>2, <2>5, ProcsAssumption DEF HandOver
  <2>q. QED
    BY <2>1, <2>3, <2>4, <2>5
<1>q. QED
  BY <1>1, IInvAlways, PTL

\* Requests are refused while the backend is being replaced.
THEOREM AlwaysGated == Spec => []GatedWhileReplaced
<1>1. IInv => GatedWhileReplaced
  BY DEF IInv, Handed
<1>q. QED
  BY <1>1, IInvAlways, PTL

=============================================================================
