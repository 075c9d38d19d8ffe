---------------------------- MODULE LaunchProofs ----------------------------
(***************************************************************************)
(* Theorems about Launch, for every set of requests, every set of threads, *)
(* every payload and pipe size.                                            *)
(***************************************************************************)
EXTENDS Launch, TLAPS

-----------------------------------------------------------------------------
(* What the parts that several actions share do to the types.              *)

LEMMA EndProcessType ==
  ASSUME TypeOK, NEW p \in Process, NEW ws \in Ended, EndProcess(p, ws)
  PROVE  ControlOK' /\ PipesOK'
<1>1. ControlOK'
  BY DEF TypeOK, ControlOK, EndProcess, Process, ParentStep, ChildStep
<1>2. PipesOK'
  BY DEF TypeOK, PipesOK, EndProcess, PipeEnd
<1> QED
  BY <1>1, <1>2

LEMMA ExitType ==
  ASSUME TypeOK, NEW p \in Process, NEW code \in 0..255, Exit(p, code)
  PROVE  ControlOK' /\ PipesOK'
<1>1. Exited(code) \in Ended
  BY DEF Exited, Ended
<1> QED
  BY <1>1, EndProcessType DEF Exit

LEMMA ParentGoto ==
  ASSUME TypeOK, NEW step \in ParentStep, Goto("parent", step), UNCHANGED status
  PROVE  ControlOK'
  BY DEF TypeOK, ControlOK, Goto, Process

LEMMA ChildGoto ==
  ASSUME TypeOK, NEW step \in ChildStep, Goto("child", step), UNCHANGED status
  PROVE  ControlOK'
  BY DEF TypeOK, ControlOK, Goto, Process

LEMMA CloseType ==
  ASSUME TypeOK, NEW p \in Process, NEW S, Close(p, S),
         UNCHANGED <<unsent, piped, received, ready>>
  PROVE  PipesOK'
  BY DEF TypeOK, PipesOK, Close, PipeEnd

LEMMA SamePipes ==
  ASSUME TypeOK, UNCHANGED pipeVars
  PROVE  PipesOK'
  BY DEF TypeOK, PipesOK, pipeVars

LEMMA SameWorld ==
  ASSUME TypeOK, UNCHANGED <<childVars, credVars>>
  PROVE  WorldOK'
  BY DEF TypeOK, WorldOK, childVars, credVars

LEMMA SameCommand ==
  ASSUME TypeOK, UNCHANGED cmdVars
  PROVE  CommandOK'
  BY DEF TypeOK, CommandOK, cmdVars

LEMMA FallBackType ==
  ASSUME TypeOK, FallBack
  PROVE  ControlOK' /\ PipesOK'
<1>1. CASE MayFallBack(request)
  BY <1>1, ParentGoto, CloseType DEF FallBack, Process, ParentStep
<1>2. CASE ~MayFallBack(request)
  BY <1>2, ExitType DEF FallBack, Process
<1> QED
  BY <1>1, <1>2

LEMMA StartCommandType ==
  ASSUME TypeOK, NEW p \in Process, NEW t \in Thread, StartCommand(p, t)
  PROVE  CommandOK'
<1>1. (IF p = "child" THEN namespaces ELSE {}) \in SUBSET Namespace
  BY DEF TypeOK, WorldOK
<1>2. box' \in Box
  BY <1>1 DEF StartCommand, Box
<1> QED
  BY <1>2 DEF TypeOK, CommandOK, StartCommand

(* The sets of namespaces and wait statuses the code computes are in range.*)
LEMMA CloneFlagsType == CloneFlags(request) \subseteq Namespace
  BY DEF CloneFlags, Namespace

LEMMA RelayedType ==
  ASSUME NEW ws \in Ended
  PROVE  Relayed(ws) \in 0..255
  BY DEF Relayed, Ended

LEMMA ReaperCodeType ==
  ASSUME NEW ws \in PayloadEnd \cup {Signaled(SIGKILL)}
  PROVE  ReaperCode(ws) \in 0..255
  BY PayloadEndAssumption DEF ReaperCode, Ended, Signaled, SIGKILL

-----------------------------------------------------------------------------
LEMMA TypeInit == Init => TypeOK
<1> SUFFICES ASSUME Init PROVE TypeOK
  OBVIOUS
<1>1. ControlOK
  BY DEF Init, ControlOK, Process, ParentStep, ChildStep
<1>2. PipesOK
  <2>1. StartupSize \in Nat /\ PipeSize \in Nat
    BY SizeAssumption
  <2>2. holders \in [PipeEnd -> SUBSET Process]
    BY DEF Init
  <2>3. ready \in BOOLEAN
    BY Zenon DEF Init
  <2>4. unsent = StartupSize /\ piped = 0 /\ received = 0
    BY DEF Init
  <2>5. /\ unsent \in 0..StartupSize /\ piped \in 0..PipeSize
        /\ received \in 0..StartupSize
        /\ unsent + piped + received = StartupSize
    BY <2>1, <2>4
  <2> QED
    BY <2>2, <2>3, <2>5 DEF PipesOK
<1>3. WorldOK
  BY DEF Init, WorldOK
<1>4. CommandOK
  BY DEF Init, CommandOK, Box, NoBox
<1> QED
  BY <1>1, <1>2, <1>3, <1>4 DEF Init, TypeOK

(* One step per action.                                                    *)
LEMMA TypeStep == TypeOK /\ [Next]_vars => TypeOK'
<1> SUFFICES ASSUME TypeOK, [Next]_vars PROVE TypeOK'
  OBVIOUS
<1> USE DEF TypeOK
<1>1. CASE Resolve
  BY <1>1, ExitType, ParentGoto, SamePipes, SameWorld, SameCommand DEF
     Resolve, Process, ParentStep
<1>2. CASE SetupNamespaces
  BY <1>2, ParentGoto, SamePipes, SameWorld, SameCommand DEF SetupNamespaces,
     ParentStep
<1>3. CASE PrepareChild
  <2>1. ControlOK' /\ PipesOK'
    BY <1>3, ExitType, ParentGoto DEF PrepareChild, PipesOK, PipeEnd, Process,
       ParentStep
  <2> QED
    BY <1>3, <2>1, SameWorld, SameCommand DEF PrepareChild
<1>4. CASE CloneChild
  <2>1. ControlOK'
    BY <1>4 DEF CloneChild, ControlOK, Process, ParentStep, ChildStep
  <2>2. PipesOK'
    BY <1>4 DEF CloneChild, PipesOK, PipeEnd, Process
  <2>3. WorldOK'
    BY <1>4, CloneFlagsType DEF CloneChild, WorldOK, Process
  <2> QED
    BY <1>4, <2>1, <2>2, <2>3, SameCommand DEF CloneChild
<1>5. CASE StartFails
  BY <1>5, ExitType, FallBackType, SameWorld, SameCommand DEF StartFails,
     Process
<1>6. CASE CloseChildEnds
  BY <1>6, CloseType, ParentGoto, SameWorld, SameCommand DEF CloseChildEnds,
     Process, ParentStep
<1>7. CASE WriteStartup
  <2>1. ControlOK'
    BY <1>7, ParentGoto DEF WriteStartup, ControlOK, ParentStep
  <2>2. PipesOK'
    BY <1>7, SizeAssumption DEF WriteStartup, Fits, PipesOK
  <2> QED
    BY <1>7, <2>1, <2>2, SameWorld, SameCommand DEF WriteStartup
<1>8. CASE CloseStartup
  BY <1>8, CloseType, ParentGoto, SameWorld, SameCommand DEF CloseStartup,
     Process, ParentStep
<1>9. CASE ReadSetup
  BY <1>9, CloseType, ParentGoto, SameWorld, SameCommand DEF ReadSetup,
     Process, ParentStep
<1>10. CASE ReapFailedChild
  BY <1>10, FallBackType, SameWorld, SameCommand DEF ReapFailedChild
<1>11. CASE WaitChild
  BY <1>11, ExitType, RelayedType, SameWorld, SameCommand DEF WaitChild,
     WaitReturns, Process
<1>12. CASE Enforce("parent")
  <2>1. WorldOK'
    BY <1>12 DEF Enforce, AllThreads, WorldOK, childVars, Process
  <2> QED
    BY <1>12, <2>1, ExitType, ParentGoto, SamePipes, SameCommand DEF Enforce,
       Process, ParentStep
<1>13. CASE ExecCommand
  BY <1>13, ExitType, ParentGoto, SamePipes, StartCommandType, SameWorld,
     SameCommand DEF ExecCommand, Process, ParentStep
<1>14. CASE Boot
  <2>1. WorldOK'
    BY <1>14 DEF Boot, WorldOK, credVars
  <2> QED
    BY <1>14, <2>1, ChildGoto, SamePipes, SameCommand DEF Boot, ChildStep
<1>15. CASE ReadStartup
  <2>1. PICK n \in 1..piped : piped' = piped - n /\ received' = received + n
    BY <1>15 DEF ReadStartup
  <2>2. StartupSize \in Nat /\ PipeSize \in Nat
    BY SizeAssumption
  <2>3. PipesOK'
    BY <1>15, <2>1, <2>2 DEF ReadStartup, PipesOK
  <2> QED
    BY <1>15, <2>3, SameWorld, SameCommand DEF ReadStartup, procVars,
       ControlOK
<1>16. CASE StartupRead
  BY <1>16, ExitType, ChildGoto, CloseType, SameWorld, SameCommand DEF
     StartupRead, Process, ChildStep
<1>17. CASE ParsePolicy
  BY <1>17, ExitType, ChildGoto, SamePipes, SameWorld, SameCommand DEF
     ParsePolicy, Process, ChildStep
<1>18. CASE MountProc
  <2>1. ownProc' \in BOOLEAN
    <3>1. \/ ownProc' = ("mount_proc" \in request.unshare)
          \/ ownProc' = ownProc
      BY <1>18, Zenon DEF MountProc
    <3>2. ("mount_proc" \in request.unshare) \in BOOLEAN
      OBVIOUS
    <3> QED
      BY <3>1, <3>2, Zenon DEF WorldOK
  <2>2. WorldOK'
    BY <1>18, <2>1 DEF MountProc, WorldOK, credVars
  <2> QED
    BY <1>18, <2>2, ExitType, ChildGoto, SamePipes, SameCommand DEF MountProc,
       Process, ChildStep
<1>19. CASE BringLoopbackUp
  <2>1. WorldOK'
    BY <1>19 DEF BringLoopbackUp, WorldOK, credVars
  <2> QED
    BY <1>19, <2>1, ExitType, ChildGoto, SamePipes, SameCommand DEF
       BringLoopbackUp, Process, ChildStep
<1>20. CASE DropAllCaps
  <2>1. WorldOK'
    BY <1>20 DEF DropAllCaps, WorldOK, childVars, Process
  <2> QED
    BY <1>20, <2>1, ExitType, ChildGoto, SamePipes, SameCommand DEF
       DropAllCaps, Process, ChildStep
<1>21. CASE ReportReady
  <2>1. PipesOK'
    BY <1>21 DEF ReportReady, OkWritten, Close, PipesOK, PipeEnd
  <2> QED
    BY <1>21, <2>1, ChildGoto, SameWorld, SameCommand DEF ReportReady,
       ChildStep
<1>22. CASE Enforce("child")
  <2>1. WorldOK'
    BY <1>22 DEF Enforce, AllThreads, WorldOK, childVars, Process
  <2> QED
    BY <1>22, <2>1, ExitType, ChildGoto, SamePipes, SameCommand DEF Enforce,
       Process, ChildStep
<1>23. CASE ForkCommand
  BY <1>23, ExitType, ChildGoto, SamePipes, StartCommandType, SameWorld,
     SameCommand DEF ForkCommand, Process, ChildStep
<1>24. CASE ReapCommand
  BY <1>24, ExitType, ReaperCodeType, SameWorld, SameCommand DEF ReapCommand,
     Reaps, NoOutcome, CommandOK, Process
<1>25. CASE CommandEnds
  <2>1. ControlOK' /\ PipesOK'
    BY <1>25, EndProcessType, SamePipes, PayloadEndAssumption DEF CommandEnds,
       procVars, ControlOK, Process
  <2>2. CommandOK'
    BY <1>25 DEF CommandEnds, CommandOK
  <2> QED
    BY <1>25, <2>1, <2>2, SameWorld DEF CommandEnds
<1>26. CASE KillParent
  <2>1. Signaled(SIGKILL) \in Ended
    BY DEF Signaled, SIGKILL, Ended
  <2> QED
    BY <1>26, <2>1, EndProcessType, SameWorld, SameCommand DEF KillParent,
       Process
<1>27. CASE ChildDies
  <2>1. Signaled(SIGKILL) \in Ended
    BY DEF Signaled, SIGKILL, Ended
  <2>2. CommandOK'
    BY <1>27 DEF ChildDies, CommandOK
  <2> QED
    BY <1>27, <2>1, <2>2, EndProcessType, SameWorld DEF ChildDies, Process
<1>28. CASE UNCHANGED vars
  BY <1>28, SamePipes, SameWorld, SameCommand DEF vars, procVars, ControlOK
<1> QED
  BY <1>1, <1>2, <1>3, <1>4, <1>5, <1>6, <1>7, <1>8, <1>9, <1>10, <1>11,
     <1>12, <1>13, <1>14, <1>15, <1>16, <1>17, <1>18, <1>19, <1>20, <1>21,
     <1>22, <1>23, <1>24, <1>25, <1>26, <1>27, <1>28 DEF Next, Parent, Child,
     Environment, KillChild, ParentDeathSignal

(* Every variable keeps its type, and the startup payload its length,      *)
(* whatever fails and whoever is killed.                                   *)
THEOREM TypeCorrect == Spec => []TypeOK
  BY TypeInit, TypeStep, PTL DEF Spec

-----------------------------------------------------------------------------
(* Wait statuses and namespaces.                                           *)

LEMMA Fields ==
  /\ \A c : Exited(c).how = "exited" /\ Exited(c).n = c
  /\ \A s : Signaled(s).how = "signaled" /\ Signaled(s).n = s
  BY DEF Exited, Signaled

LEMMA Ends ==
  /\ \A c \in 0..255 : Exited(c) \in Ended 
  /\ Signaled(SIGKILL) \in Ended
  /\ Alive \notin Ended /\ Alive.how = "alive" /\ Absent \notin Ended /\ Alive # Absent
  /\ \A ws \in Ended : ws.how \in {"exited", "signaled"}
  /\ \A ws \in PayloadEnd : ws \in Ended
  BY PayloadEndAssumption DEF Ended, Exited, Signaled, SIGKILL, Alive, Absent

LEMMA Zero == 
  /\ \A c \in 1..255 : Exited(c) # Exited(0)
  /\ Signaled(SIGKILL) # Exited(0) /\ Alive # Exited(0) /\ Absent # Exited(0) /\ Alive # Absent
<1>1. Absent.how = "absent" /\ Alive.how = "alive"
  BY DEF Absent, Alive
<1>2. \A c \in 1..255 : Exited(c).n # Exited(0).n
  BY Fields
<1>3. Signaled(SIGKILL).how # Exited(0).how
  BY Fields
<1> QED
  BY <1>1, <1>2, <1>3, Fields

LEMMA OnlyZero ==
  ASSUME NEW ws \in Ended, ws.how = "exited", ws.n = 0
  PROVE  ws = Exited(0)
  BY DEF Ended, Exited

LEMMA RelayedZero ==
  ASSUME NEW ws \in Ended, Relayed(ws) = 0
  PROVE  ws = Exited(0)
<1>1. ws.how = "exited" /\ ws.n = 0
  BY DEF Relayed
<1> QED
  BY <1>1, OnlyZero

LEMMA ReaperZero ==
  ASSUME NEW ws \in PayloadEnd \cup {Signaled(SIGKILL)}, ReaperCode(ws) = 0
  PROVE  ws = Exited(0)
<1>1. ws \in Ended /\ (ws.how = "signaled" => ws.n \in 1..64)
  <2>1. CASE ws = Signaled(SIGKILL)
    BY <2>1, Ends, Fields DEF SIGKILL
  <2>2. CASE ws \in PayloadEnd
    BY <2>2, PayloadEndAssumption
  <2> QED
    BY <2>1, <2>2
<1>2. ws.n \in 0..255 /\ ws.how \in {"exited", "signaled"}
  BY <1>1 DEF Ended
<1>3. ws.how = "exited" /\ ws.n = 0
  BY <1>1, <1>2 DEF ReaperCode
<1> QED
  BY <1>1, <1>3, OnlyZero

(* The clone flags are the namespaces Sandbox promises.                    *)
LEMMA AskedIsCloned ==
  ASSUME NEW r \in Request
  PROVE  CloneFlags(r) = Promise!Asked(r)
<1>1. r.net \in NetworkMode /\ r.unshare \subseteq Unshare
  BY DEF Request
<1>2. CloneFlags(r) \subseteq Namespace
  BY DEF CloneFlags, Namespace
<1>3. private(r.net) <=> r.net # "host"
  BY <1>1 DEF private, NetworkMode
<1>4. ASSUME NEW ns \in Namespace
      PROVE  ns \in CloneFlags(r) <=>
               \/ ns \in r.unshare
               \/ ns \in {"user", "net"} /\ r.net # "host"
               \/ ns = "mount" /\ "mount_proc" \in r.unshare
  <2>1. CASE ns = "user"
    BY <1>1, <1>3, <2>1 DEF CloneFlags, Unshare
  <2>2. CASE ns = "net"
    BY <1>1, <1>3, <2>2 DEF CloneFlags, Unshare
  <2>3. CASE ns = "mount"
    BY <1>1, <1>3, <2>3 DEF CloneFlags, Unshare
  <2>4. CASE ns \in {"pid", "cgroup"}
    BY <1>1, <1>3, <2>4 DEF CloneFlags, Unshare
  <2> QED
    BY <2>1, <2>2, <2>3, <2>4 DEF Namespace
<1>5. \A ns : ns \in Promise!Asked(r) <=> ns \in CloneFlags(r)
  BY <1>2, <1>4 DEF Promise!Asked, Promise!Namespace, Namespace
<1> QED
  BY <1>5

-----------------------------------------------------------------------------
(* The inductive invariant.  Its conjuncts lean on each other -- Started   *)
(* on Handshake, Handshake on Holding -- so each is shown to be preserved  *)
(* by every step from a state that satisfies all of them.                  *)

LEMMA IndInit == Init => IndInv
<1> SUFFICES ASSUME Init PROVE IndInv
  OBVIOUS
<1>1. TypeOK
  BY TypeInit
<1>2. Life
  BY Ends DEF Init, Life, ChildGone, Process
<1>3. Holding
  BY DEF Init, Holding, ChildSetup, ChildAfter, ChildGone, Process, PipeEnd
<1>4. Handshake
  BY DEF Init, Handshake, ChildSetup, ChildAfter, ChildGone, Process
<1>5. Started
  BY DEF Init, Started
<1>6. Boxing
  BY DEF Init, Boxing, ChildSetup, ChildAfter, Process
<1>7. Verdict
  BY Zero DEF Init, Verdict, Process
<1>8. Tells
  BY Ends DEF Init, Tells, Process
<1>9. Undisturbed
  BY DEF Init, Undisturbed, OnTrack, ChildGone, ChildAfter, Process
<1> QED
  BY <1>1, <1>2, <1>3, <1>4, <1>5, <1>6, <1>7, <1>8, <1>9 DEF IndInv

(* Processes and their program counters.                                   *)
LEMMA LifeStep ==
  ASSUME IndInv, [Next]_vars
  PROVE  Life'
<1> USE Ends, Fields DEF IndInv, TypeOK, ControlOK, Process, procVars,
      pipeVars, childVars, credVars, cmdVars
<1>1. CASE Resolve
  BY <1>1 DEF Resolve, Exit, EndProcess, Goto, Life, ChildSetup, ChildAfter,
       ChildGone, Handshake
<1>2. CASE SetupNamespaces
  BY <1>2 DEF SetupNamespaces, NeedsChild, Goto, Life, ChildSetup, ChildAfter,
       ChildGone, Handshake
<1>3. CASE PrepareChild
  BY <1>3 DEF PrepareChild, Exit, EndProcess, Goto, Life, ChildSetup,
       ChildAfter, ChildGone, Handshake
<1>4. CASE CloneChild
  BY <1>4 DEF CloneChild, ChildEnds, Life, ChildSetup, ChildAfter, ChildGone,
       Handshake
<1>5. CASE StartFails
  BY <1>5 DEF StartFails, FallBack, Exit, EndProcess, Goto, Life, ChildSetup,
       ChildAfter, ChildGone, Handshake
<1>6. CASE CloseChildEnds
  BY <1>6 DEF CloseChildEnds, ClosedByParent, ChildEnds, Close, Goto, Life,
       ChildSetup, ChildAfter, ChildGone, Handshake
<1>7. CASE WriteStartup
  BY <1>7 DEF WriteStartup, Goto, Life, ChildSetup, ChildAfter, ChildGone,
       Handshake
<1>8. CASE CloseStartup
  BY <1>8 DEF CloseStartup, Close, Goto, Life, ChildSetup, ChildAfter,
       ChildGone, Handshake
<1>9. CASE ReadSetup
  BY <1>9 DEF ReadSetup, Close, Goto, Life, ChildSetup, ChildAfter, ChildGone,
       Handshake
<1>10. CASE ReapFailedChild
  BY <1>10 DEF ReapFailedChild, WaitReturns, FallBack, MayFallBack,
       ClosedOnFailure, Close, Exit, EndProcess, Goto, Life, ChildSetup,
       ChildAfter, ChildGone, Handshake
<1>11. CASE WaitChild
  BY <1>11, RelayedType DEF WaitChild, WaitReturns, Exit, EndProcess, Goto,
       Life, ChildSetup, ChildAfter, ChildGone, Handshake
<1>12. CASE Enforce("parent")
  BY <1>12 DEF Enforce, Exit, EndProcess, Goto, Life, ChildSetup, ChildAfter,
       ChildGone, Handshake
<1>13. CASE ExecCommand
  BY <1>13, SMTT(20) DEF ExecCommand, Exit, EndProcess, Goto, Life, ChildSetup,
       ChildAfter, ChildGone, Handshake
<1>14. CASE Boot
  BY <1>14 DEF Boot, Goto, Life, ChildSetup, ChildAfter, ChildGone, Handshake
<1>15. CASE ReadStartup
  BY <1>15 DEF ReadStartup, Life, ChildSetup, ChildAfter, ChildGone, Handshake
<1>16. CASE StartupRead
  BY <1>16 DEF StartupRead, Close, Exit, EndProcess, Goto, Life, ChildSetup,
       ChildAfter, ChildGone, Handshake
<1>17. CASE ParsePolicy
  <2>1. /\ pc["child"] = "parse" /\ pc'["parent"] = pc["parent"]
        /\ status'["parent"] = status["parent"]
        /\ \/ pc'["child"] = "mountProc" /\ status'["child"] = status["child"]
           \/ pc'["child"] = "done" /\ status'["child"] = Exited(1)
    BY <1>17 DEF ParsePolicy, Exit, EndProcess, Goto
  <2> QED
    BY <2>1 DEF Life, ChildSetup, ChildAfter, ChildGone
<1>18. CASE MountProc
  BY <1>18 DEF MountProc, Exit, EndProcess, Goto, Life, ChildSetup, ChildAfter,
       ChildGone, Handshake
<1>19. CASE BringLoopbackUp
  BY <1>19 DEF BringLoopbackUp, Exit, EndProcess, Goto, Life, ChildSetup,
       ChildAfter, ChildGone, Handshake
<1>20. CASE DropAllCaps
  BY <1>20 DEF DropAllCaps, AllThreads, Exit, EndProcess, Goto, Life,
       ChildSetup, ChildAfter, ChildGone, Handshake
<1>21. CASE ReportReady
  BY <1>21 DEF ReportReady, OkWritten, Close, Goto, Life, ChildSetup,
       ChildAfter, ChildGone, Handshake
<1>22. CASE Enforce("child")
  BY <1>22 DEF Enforce, AllThreads, Exit, EndProcess, Goto, Life, ChildSetup,
       ChildAfter, ChildGone, Handshake
<1>23. CASE ForkCommand
  BY <1>23 DEF ForkCommand, StartCommand, Exit, EndProcess, Goto, Life,
       ChildSetup, ChildAfter, ChildGone, Handshake
<1>24. CASE ReapCommand
  <2>1. ReaperCode(outcome) \in 0..255
    BY <1>24, ReaperCodeType DEF ReapCommand, Reaps, NoOutcome, CommandOK
  <2> QED
  BY <1>24, <2>1 DEF ReapCommand, Exit, EndProcess, Goto, Life, ChildSetup,
       ChildAfter, ChildGone, Handshake
<1>25. CASE CommandEnds
  BY <1>25 DEF CommandEnds, EndProcess, Life, ChildSetup, ChildAfter,
       ChildGone, Handshake, Started
<1>26. CASE KillParent
  BY <1>26 DEF KillParent, EndProcess, Goto, Life, ChildSetup, ChildAfter,
       ChildGone, Handshake
<1>27. CASE ChildDies
  BY <1>27 DEF ChildDies, EndProcess, Goto, Life, ChildSetup, ChildAfter,
       ChildGone, Handshake
<1>28. CASE UNCHANGED vars
  BY <1>28 DEF vars, Life, ChildSetup, ChildAfter, ChildGone, Handshake
<1> QED
  BY <1>1, <1>2, <1>3, <1>4, <1>5, <1>6, <1>7, <1>8, <1>9, <1>10, <1>11, <1>12,
       <1>13, <1>14, <1>15, <1>16, <1>17, <1>18, <1>19, <1>20, <1>21, <1>22,
       <1>23, <1>24, <1>25, <1>26, <1>27, <1>28 DEF Next, Parent, Child,
       Environment, KillChild, ParentDeathSignal

(* Who holds which pipe end.                                               *)
LEMMA HoldingStep ==
  ASSUME IndInv, [Next]_vars
  PROVE  Holding'
<1> USE DEF IndInv, TypeOK, ControlOK, Process, procVars, pipeVars, childVars,
      credVars, cmdVars
<1>1. CASE Resolve
  BY <1>1 DEF Resolve, Exit, EndProcess, Exited, Goto, Holding, ChildSetup,
       ChildAfter, ChildGone, PipeEnd
<1>2. CASE SetupNamespaces
  BY <1>2 DEF SetupNamespaces, NeedsChild, Goto, Holding, ChildSetup,
       ChildAfter, ChildGone, PipeEnd
<1>3. CASE PrepareChild
  <2>1. CASE Goto("parent", "start") /\ holders' = [e \in PipeEnd |->
        {"parent"}]
    BY <1>3, <2>1 DEF PrepareChild, Goto, Holding, Handshake, ChildSetup,
         ChildAfter, ChildGone, PipeEnd
  <2>2. CASE Exit("parent", 1)
    BY <1>3, <2>2 DEF PrepareChild, Exit, EndProcess, Holding, ChildSetup,
         ChildAfter, ChildGone, PipeEnd
  <2> QED
    BY <1>3, <2>1, <2>2 DEF PrepareChild
<1>4. CASE CloneChild
  BY <1>4 DEF CloneChild, ChildEnds, Holding, ChildSetup, ChildAfter,
       ChildGone, PipeEnd
<1>5. CASE StartFails
  BY <1>5 DEF StartFails, FallBack, MayFallBack, ClosedOnFailure, Close, Exit,
       EndProcess, Exited, Goto, Holding, ChildSetup, ChildAfter, ChildGone,
       PipeEnd
<1>6. CASE CloseChildEnds
  BY <1>6 DEF CloseChildEnds, ClosedByParent, ChildEnds, Close, Goto, Holding,
       ChildSetup, ChildAfter, ChildGone, PipeEnd
<1>7. CASE WriteStartup
  BY <1>7 DEF WriteStartup, Goto, Holding, ChildSetup, ChildAfter, ChildGone,
       PipeEnd
<1>8. CASE CloseStartup
  BY <1>8 DEF CloseStartup, Close, Goto, Holding, ChildSetup, ChildAfter,
       ChildGone, PipeEnd
<1>9. CASE ReadSetup
  BY <1>9 DEF ReadSetup, Close, Goto, Holding, ChildSetup, ChildAfter,
       ChildGone, PipeEnd
<1>10. CASE ReapFailedChild
  BY <1>10 DEF ReapFailedChild, WaitReturns, FallBack, MayFallBack,
       ClosedOnFailure, Close, Exit, EndProcess, Exited, Goto, Holding,
       ChildSetup, ChildAfter, ChildGone, PipeEnd
<1>11. CASE WaitChild
  BY <1>11 DEF WaitChild, WaitReturns, Exit, EndProcess, Exited, Holding,
       ChildSetup, ChildAfter, ChildGone, PipeEnd
<1>12. CASE Enforce("parent")
  BY <1>12 DEF Enforce, AllThreads, Exit, EndProcess, Exited, Goto, Holding,
       ChildSetup, ChildAfter, ChildGone, PipeEnd
<1>13. CASE ExecCommand
  BY <1>13 DEF ExecCommand, StartCommand, Exit, EndProcess, Exited, Goto,
       Holding, ChildSetup, ChildAfter, ChildGone, PipeEnd
<1>14. CASE Boot
  BY <1>14 DEF Boot, Goto, Holding, ChildSetup, ChildAfter, ChildGone, PipeEnd
<1>15. CASE ReadStartup
  BY <1>15 DEF ReadStartup, Holding, ChildSetup, ChildAfter, ChildGone, PipeEnd
<1>16. CASE StartupRead
  BY <1>16 DEF StartupRead, Close, Exit, EndProcess, Exited, Goto, Holding,
       ChildSetup, ChildAfter, ChildGone, PipeEnd
<1>17. CASE ParsePolicy
  BY <1>17 DEF ParsePolicy, Exit, EndProcess, Exited, Goto, Holding,
       ChildSetup, ChildAfter, ChildGone, PipeEnd
<1>18. CASE MountProc
  BY <1>18 DEF MountProc, Exit, EndProcess, Exited, Goto, Holding, ChildSetup,
       ChildAfter, ChildGone, PipeEnd
<1>19. CASE BringLoopbackUp
  BY <1>19 DEF BringLoopbackUp, Exit, EndProcess, Exited, Goto, Holding,
       ChildSetup, ChildAfter, ChildGone, PipeEnd
<1>20. CASE DropAllCaps
  BY <1>20 DEF DropAllCaps, AllThreads, Exit, EndProcess, Exited, Goto,
       Holding, ChildSetup, ChildAfter, ChildGone, PipeEnd
<1>21. CASE ReportReady
  BY <1>21 DEF ReportReady, OkWritten, Close, Goto, Holding, ChildSetup,
       ChildAfter, ChildGone, PipeEnd
<1>22. CASE Enforce("child")
  BY <1>22 DEF Enforce, AllThreads, Exit, EndProcess, Exited, Goto, Holding,
       ChildSetup, ChildAfter, ChildGone, PipeEnd
<1>23. CASE ForkCommand
  BY <1>23 DEF ForkCommand, StartCommand, Exit, EndProcess, Exited, Goto,
       Holding, ChildSetup, ChildAfter, ChildGone, PipeEnd
<1>24. CASE ReapCommand
  BY <1>24 DEF ReapCommand, Reaps, ReaperCode, Exit, EndProcess, Exited,
       Holding, ChildSetup, ChildAfter, ChildGone, PipeEnd
<1>25. CASE CommandEnds
  BY <1>25 DEF CommandEnds, EndProcess, Holding, ChildSetup, ChildAfter,
       ChildGone, PipeEnd
<1>26. CASE KillParent
  BY <1>26 DEF KillParent, EndProcess, Signaled, Holding, ChildSetup,
       ChildAfter, ChildGone, PipeEnd
<1>27. CASE ChildDies
  BY <1>27 DEF ChildDies, EndProcess, Signaled, Holding, ChildSetup,
       ChildAfter, ChildGone, PipeEnd
<1>28. CASE UNCHANGED vars
  BY <1>28 DEF vars, Holding, ChildSetup, ChildAfter, ChildGone, PipeEnd
<1> QED
  BY <1>1, <1>2, <1>3, <1>4, <1>5, <1>6, <1>7, <1>8, <1>9, <1>10, <1>11, <1>12,
       <1>13, <1>14, <1>15, <1>16, <1>17, <1>18, <1>19, <1>20, <1>21, <1>22,
       <1>23, <1>24, <1>25, <1>26, <1>27, <1>28 DEF Next, Parent, Child,
       Environment, KillChild, ParentDeathSignal

(* What a pipe end, open or closed, tells the other side.                  *)
LEMMA HandshakeStep ==
  ASSUME IndInv, [Next]_vars
  PROVE  Handshake'
<1> USE DEF IndInv, TypeOK, ControlOK, Process, procVars, pipeVars, childVars,
      credVars, cmdVars
<1>1. CASE Resolve
  BY <1>1 DEF Resolve, Exit, EndProcess, Exited, Goto, Handshake, Holding,
       Life, Alive, Absent, Ended, ChildSetup, ChildAfter, ChildGone, PipeEnd
<1>2. CASE SetupNamespaces
  BY <1>2 DEF SetupNamespaces, NeedsChild, Goto, Handshake, Holding, Life,
       Alive, Absent, Ended, ChildSetup, ChildAfter, ChildGone, PipeEnd
<1>3. CASE PrepareChild
  BY <1>3 DEF PrepareChild, Exit, EndProcess, Exited, Goto, Handshake, Holding,
       Life, Alive, Absent, Ended, ChildSetup, ChildAfter, ChildGone, PipeEnd
<1>4. CASE CloneChild
  BY <1>4 DEF CloneChild, ChildEnds, Handshake, Holding, Life, Alive, Absent,
       Ended, ChildSetup, ChildAfter, ChildGone, PipeEnd
<1>5. CASE StartFails
  BY <1>5 DEF StartFails, FallBack, MayFallBack, ClosedOnFailure, Close, Exit,
       EndProcess, Exited, Goto, Handshake, Holding, Life, Alive, Absent,
       Ended, ChildSetup, ChildAfter, ChildGone, PipeEnd
<1>6. CASE CloseChildEnds
  BY <1>6 DEF CloseChildEnds, ClosedByParent, ChildEnds, Close, Goto,
       Handshake, Holding, Life, Alive, Absent, Ended, ChildSetup, ChildAfter,
       ChildGone, PipeEnd
<1>7. CASE WriteStartup
  BY <1>7 DEF WriteStartup, Goto, Handshake, Holding, Life, Alive, Absent,
       Ended, ChildSetup, ChildAfter, ChildGone, PipeEnd
<1>8. CASE CloseStartup
  BY <1>8 DEF CloseStartup, Close, Goto, Handshake, Holding, Life, Alive,
       Absent, Ended, ChildSetup, ChildAfter, ChildGone, PipeEnd
<1>9. CASE ReadSetup
  BY <1>9 DEF ReadSetup, Close, Goto, Handshake, Holding, Life, Alive, Absent,
       Ended, ChildSetup, ChildAfter, ChildGone, PipeEnd
<1>10. CASE ReapFailedChild
  BY <1>10 DEF ReapFailedChild, WaitReturns, FallBack, MayFallBack,
       ClosedOnFailure, Close, Exit, EndProcess, Exited, Goto, Handshake,
       Holding, Life, Alive, Absent, Ended, ChildSetup, ChildAfter, ChildGone,
       PipeEnd
<1>11. CASE WaitChild
  BY <1>11 DEF WaitChild, WaitReturns, Exit, EndProcess, Exited, Handshake,
       Holding, Life, Alive, Absent, Ended, ChildSetup, ChildAfter, ChildGone,
       PipeEnd
<1>12. CASE Enforce("parent")
  BY <1>12 DEF Enforce, AllThreads, Exit, EndProcess, Exited, Goto, Handshake,
       Holding, Life, Alive, Absent, Ended, ChildSetup, ChildAfter, ChildGone,
       PipeEnd
<1>13. CASE ExecCommand
  BY <1>13 DEF ExecCommand, StartCommand, Exit, EndProcess, Exited, Goto,
       Handshake, Holding, Life, Alive, Absent, Ended, ChildSetup, ChildAfter,
       ChildGone, PipeEnd
<1>14. CASE Boot
  BY <1>14 DEF Boot, Goto, Handshake, Holding, Life, Alive, Absent, Ended,
       ChildSetup, ChildAfter, ChildGone, PipeEnd
<1>15. CASE ReadStartup
  BY <1>15 DEF ReadStartup, Handshake, Holding, Life, Alive, Absent, Ended,
       ChildSetup, ChildAfter, ChildGone, PipeEnd
<1>16. CASE StartupRead
  BY <1>16 DEF StartupRead, Close, Exit, EndProcess, Exited, Goto, Handshake,
       Holding, Life, Alive, Absent, Ended, ChildSetup, ChildAfter, ChildGone,
       PipeEnd
<1>17. CASE ParsePolicy
  BY <1>17 DEF ParsePolicy, Exit, EndProcess, Exited, Goto, Handshake, Holding,
       Life, Alive, Absent, Ended, ChildSetup, ChildAfter, ChildGone, PipeEnd
<1>18. CASE MountProc
  BY <1>18 DEF MountProc, Exit, EndProcess, Exited, Goto, Handshake, Holding,
       Life, Alive, Absent, Ended, ChildSetup, ChildAfter, ChildGone, PipeEnd
<1>19. CASE BringLoopbackUp
  BY <1>19 DEF BringLoopbackUp, Exit, EndProcess, Exited, Goto, Handshake,
       Holding, Life, Alive, Absent, Ended, ChildSetup, ChildAfter, ChildGone,
       PipeEnd
<1>20. CASE DropAllCaps
  BY <1>20 DEF DropAllCaps, AllThreads, Exit, EndProcess, Exited, Goto,
       Handshake, Holding, Life, Alive, Absent, Ended, ChildSetup, ChildAfter,
       ChildGone, PipeEnd
<1>21. CASE ReportReady
  <2>1. pc["parent"] # "done" => ready'
    <3>1. pc["parent"] # "done" => holders["setupR"] # {}
      BY <1>21 DEF ReportReady, Holding, Handshake, ChildSetup, ChildAfter,
           ChildGone, ParentStep
    <3> QED
      BY <1>21, <3>1, Zenon DEF ReportReady, OkWritten
  <2>2. pc' = [pc EXCEPT !["child"] = "enforce"] /\ pc["child"] = "reportReady"
    BY <1>21 DEF ReportReady, Goto
  <2>3. UNCHANGED ranBy
    BY <1>21 DEF ReportReady
  <2> QED
    BY <2>1, <2>2, <2>3 DEF Handshake, Started, ChildSetup, ChildAfter,
         ChildGone
<1>22. CASE Enforce("child")
  BY <1>22 DEF Enforce, AllThreads, Exit, EndProcess, Exited, Goto, Handshake,
       Holding, Life, Alive, Absent, Ended, ChildSetup, ChildAfter, ChildGone,
       PipeEnd
<1>23. CASE ForkCommand
  BY <1>23 DEF ForkCommand, StartCommand, Exit, EndProcess, Exited, Goto,
       Handshake, Holding, Life, Alive, Absent, Ended, ChildSetup, ChildAfter,
       ChildGone, PipeEnd
<1>24. CASE ReapCommand
  BY <1>24 DEF ReapCommand, Reaps, ReaperCode, Exit, EndProcess, Exited,
       Handshake, Holding, Life, Alive, Absent, Ended, ChildSetup, ChildAfter,
       ChildGone, PipeEnd
<1>25. CASE CommandEnds
  BY <1>25 DEF CommandEnds, EndProcess, Handshake, Holding, Life, Alive,
       Absent, Ended, ChildSetup, ChildAfter, ChildGone, PipeEnd
<1>26. CASE KillParent
  BY <1>26 DEF KillParent, EndProcess, Signaled, Handshake, Holding, Life,
       Alive, Absent, Ended, ChildSetup, ChildAfter, ChildGone, PipeEnd
<1>27. CASE ChildDies
  BY <1>27 DEF ChildDies, EndProcess, Signaled, Handshake, Holding, Life,
       Alive, Absent, Ended, ChildSetup, ChildAfter, ChildGone, PipeEnd
<1>28. CASE UNCHANGED vars
  BY <1>28 DEF vars, Handshake, Holding, Life, Alive, Absent, Ended,
       ChildSetup, ChildAfter, ChildGone, PipeEnd
<1> QED
  BY <1>1, <1>2, <1>3, <1>4, <1>5, <1>6, <1>7, <1>8, <1>9, <1>10, <1>11, <1>12,
       <1>13, <1>14, <1>15, <1>16, <1>17, <1>18, <1>19, <1>20, <1>21, <1>22,
       <1>23, <1>24, <1>25, <1>26, <1>27, <1>28 DEF Next, Parent, Child,
       Environment, KillChild, ParentDeathSignal

(* Who may have started the command.                                       *)
LEMMA StartedStep ==
  ASSUME IndInv, [Next]_vars
  PROVE  Started'
<1> USE DEF IndInv, TypeOK, ControlOK, Process, procVars, pipeVars, childVars,
      credVars, cmdVars
<1>1. CASE Resolve
  BY <1>1 DEF Resolve, Exit, EndProcess, Exited, Goto, Started, Handshake,
       Life, Alive, Absent, Ended, ChildSetup, ChildAfter, ChildGone
<1>2. CASE SetupNamespaces
  BY <1>2 DEF SetupNamespaces, NeedsChild, Goto, Started, Handshake, Life,
       Alive, Absent, Ended, ChildSetup, ChildAfter, ChildGone
<1>3. CASE PrepareChild
  BY <1>3 DEF PrepareChild, Exit, EndProcess, Exited, Goto, Started, Handshake,
       Life, Alive, Absent, Ended, ChildSetup, ChildAfter, ChildGone
<1>4. CASE CloneChild
  BY <1>4 DEF CloneChild, ChildEnds, Started, Handshake, Life, Alive, Absent,
       Ended, ChildSetup, ChildAfter, ChildGone
<1>5. CASE StartFails
  BY <1>5 DEF StartFails, FallBack, MayFallBack, ClosedOnFailure, Close, Exit,
       EndProcess, Exited, Goto, Started, Handshake, Life, Alive, Absent,
       Ended, ChildSetup, ChildAfter, ChildGone
<1>6. CASE CloseChildEnds
  BY <1>6 DEF CloseChildEnds, ClosedByParent, ChildEnds, Close, Goto, Started,
       Handshake, Life, Alive, Absent, Ended, ChildSetup, ChildAfter, ChildGone
<1>7. CASE WriteStartup
  BY <1>7 DEF WriteStartup, Goto, Started, Handshake, Life, Alive, Absent,
       Ended, ChildSetup, ChildAfter, ChildGone
<1>8. CASE CloseStartup
  BY <1>8 DEF CloseStartup, Close, Goto, Started, Handshake, Life, Alive,
       Absent, Ended, ChildSetup, ChildAfter, ChildGone
<1>9. CASE ReadSetup
  BY <1>9 DEF ReadSetup, Close, Goto, Started, Handshake, Life, Alive, Absent,
       Ended, ChildSetup, ChildAfter, ChildGone
<1>10. CASE ReapFailedChild
  BY <1>10 DEF ReapFailedChild, WaitReturns, FallBack, MayFallBack,
       ClosedOnFailure, Close, Exit, EndProcess, Exited, Goto, Started,
       Handshake, Life, Alive, Absent, Ended, ChildSetup, ChildAfter, ChildGone
<1>11. CASE WaitChild
  BY <1>11 DEF WaitChild, WaitReturns, Exit, EndProcess, Exited, Started,
       Handshake, Life, Alive, Absent, Ended, ChildSetup, ChildAfter, ChildGone
<1>12. CASE Enforce("parent")
  BY <1>12 DEF Enforce, AllThreads, Exit, EndProcess, Exited, Goto, Started,
       Handshake, Life, Alive, Absent, Ended, ChildSetup, ChildAfter, ChildGone
<1>13. CASE ExecCommand
  BY <1>13 DEF ExecCommand, StartCommand, Exit, EndProcess, Exited, Goto,
       Started, Handshake, Life, Alive, Absent, Ended, ChildSetup, ChildAfter,
       ChildGone
<1>14. CASE Boot
  BY <1>14 DEF Boot, Goto, Started, Handshake, Life, Alive, Absent, Ended,
       ChildSetup, ChildAfter, ChildGone
<1>15. CASE ReadStartup
  BY <1>15 DEF ReadStartup, Started, Handshake, Life, Alive, Absent, Ended,
       ChildSetup, ChildAfter, ChildGone
<1>16. CASE StartupRead
  BY <1>16 DEF StartupRead, Close, Exit, EndProcess, Exited, Goto, Started,
       Handshake, Life, Alive, Absent, Ended, ChildSetup, ChildAfter, ChildGone
<1>17. CASE ParsePolicy
  BY <1>17 DEF ParsePolicy, Exit, EndProcess, Exited, Goto, Started, Handshake,
       Life, Alive, Absent, Ended, ChildSetup, ChildAfter, ChildGone
<1>18. CASE MountProc
  BY <1>18 DEF MountProc, Exit, EndProcess, Exited, Goto, Started, Handshake,
       Life, Alive, Absent, Ended, ChildSetup, ChildAfter, ChildGone
<1>19. CASE BringLoopbackUp
  BY <1>19 DEF BringLoopbackUp, Exit, EndProcess, Exited, Goto, Started,
       Handshake, Life, Alive, Absent, Ended, ChildSetup, ChildAfter, ChildGone
<1>20. CASE DropAllCaps
  BY <1>20 DEF DropAllCaps, AllThreads, Exit, EndProcess, Exited, Goto,
       Started, Handshake, Life, Alive, Absent, Ended, ChildSetup, ChildAfter,
       ChildGone
<1>21. CASE ReportReady
  BY <1>21 DEF ReportReady, OkWritten, Close, Goto, Started, Handshake, Life,
       Alive, Absent, Ended, ChildSetup, ChildAfter, ChildGone
<1>22. CASE Enforce("child")
  BY <1>22 DEF Enforce, AllThreads, Exit, EndProcess, Exited, Goto, Started,
       Handshake, Life, Alive, Absent, Ended, ChildSetup, ChildAfter, ChildGone
<1>23. CASE ForkCommand
  BY <1>23 DEF ForkCommand, StartCommand, Exit, EndProcess, Exited, Goto,
       Started, Handshake, Life, Alive, Absent, Ended, ChildSetup, ChildAfter,
       ChildGone
<1>24. CASE ReapCommand
  BY <1>24 DEF ReapCommand, Reaps, ReaperCode, Exit, EndProcess, Exited,
       Started, Handshake, Life, Alive, Absent, Ended, ChildSetup, ChildAfter,
       ChildGone
<1>25. CASE CommandEnds
  BY <1>25 DEF CommandEnds, EndProcess, Started, Handshake, Life, Alive,
       Absent, Ended, ChildSetup, ChildAfter, ChildGone
<1>26. CASE KillParent
  BY <1>26 DEF KillParent, EndProcess, Signaled, Started, Handshake, Life,
       Alive, Absent, Ended, ChildSetup, ChildAfter, ChildGone
<1>27. CASE ChildDies
  BY <1>27 DEF ChildDies, EndProcess, Signaled, Started, Handshake, Life,
       Alive, Absent, Ended, ChildSetup, ChildAfter, ChildGone
<1>28. CASE UNCHANGED vars
  BY <1>28 DEF vars, Started, Handshake, Life, Alive, Absent, Ended,
       ChildSetup, ChildAfter, ChildGone
<1> QED
  BY <1>1, <1>2, <1>3, <1>4, <1>5, <1>6, <1>7, <1>8, <1>9, <1>10, <1>11, <1>12,
       <1>13, <1>14, <1>15, <1>16, <1>17, <1>18, <1>19, <1>20, <1>21, <1>22,
       <1>23, <1>24, <1>25, <1>26, <1>27, <1>28 DEF Next, Parent, Child,
       Environment, KillChild, ParentDeathSignal

(* The box the command gets.                                               *)
LEMMA BoxingStep ==
  ASSUME IndInv, [Next]_vars
  PROVE  Boxing'
<1> USE DEF IndInv, TypeOK, ControlOK, WorldOK, Process, procVars, pipeVars,
      childVars, credVars, cmdVars
<1>1. CASE Resolve
  BY <1>1 DEF Resolve, Exit, EndProcess, Exited, Goto, Boxing, Started,
       Handshake, ChildSetup, ChildAfter, ChildGone
<1>2. CASE SetupNamespaces
  BY <1>2 DEF SetupNamespaces, NeedsChild, Goto, Boxing, Started, Handshake,
       ChildSetup, ChildAfter, ChildGone
<1>3. CASE PrepareChild
  BY <1>3 DEF PrepareChild, Exit, EndProcess, Exited, Goto, Boxing, Started,
       Handshake, ChildSetup, ChildAfter, ChildGone
<1>4. CASE CloneChild
  BY <1>4 DEF CloneChild, ChildEnds, Boxing, Started, Handshake, ChildSetup,
       ChildAfter, ChildGone
<1>5. CASE StartFails
  BY <1>5 DEF StartFails, FallBack, MayFallBack, ClosedOnFailure, Close, Exit,
       EndProcess, Exited, Goto, Boxing, Started, Handshake, ChildSetup,
       ChildAfter, ChildGone
<1>6. CASE CloseChildEnds
  BY <1>6 DEF CloseChildEnds, ClosedByParent, ChildEnds, Close, Goto, Boxing,
       Started, Handshake, ChildSetup, ChildAfter, ChildGone
<1>7. CASE WriteStartup
  BY <1>7 DEF WriteStartup, Goto, Boxing, Started, Handshake, ChildSetup,
       ChildAfter, ChildGone
<1>8. CASE CloseStartup
  BY <1>8 DEF CloseStartup, Close, Goto, Boxing, Started, Handshake,
       ChildSetup, ChildAfter, ChildGone
<1>9. CASE ReadSetup
  BY <1>9 DEF ReadSetup, Close, Goto, Boxing, Started, Handshake, ChildSetup,
       ChildAfter, ChildGone
<1>10. CASE ReapFailedChild
  BY <1>10 DEF ReapFailedChild, WaitReturns, FallBack, MayFallBack,
       ClosedOnFailure, Close, Exit, EndProcess, Exited, Goto, Boxing, Started,
       Handshake, ChildSetup, ChildAfter, ChildGone
<1>11. CASE WaitChild
  BY <1>11 DEF WaitChild, WaitReturns, Exit, EndProcess, Exited, Boxing,
       Started, Handshake, ChildSetup, ChildAfter, ChildGone
<1>12. CASE Enforce("parent")
  <2>1. domain' = [domain EXCEPT !["parent"] = @ \cup Thread] \/ pc'["parent"]
        = "done"
     BY <1>12 DEF Enforce, AllThreads, Exit, EndProcess
  <2>2. pc'["child"] = pc["child"] /\ pc'["parent"] \in {"exec", "done"} /\
        pc["parent"] = "enforce"
     BY <1>12 DEF Enforce, Goto, Exit, EndProcess
  <2>3. pc["child"] # "fork"
     BY <2>2 DEF Handshake, ChildGone
  <2>4. UNCHANGED <<request, childVars, capable, ranBy, box>>
     BY <1>12 DEF Enforce
  <2>5. domain'["parent"] = Thread \/ pc'["parent"] = "done"
     BY <2>1
  <2> QED
  BY <2>2, <2>3, <2>4, <2>5 DEF Boxing, ChildSetup, ChildAfter, ChildGone
<1>13. CASE ExecCommand
  <2>1. CASE Exit("parent", 126) /\ UNCHANGED cmdVars
    BY <1>13, <2>1 DEF ExecCommand, Exit, EndProcess, Boxing, ChildSetup,
         ChildAfter, ChildGone
  <2>2. CASE Goto("parent", "payload") /\ \E t \in Thread :
        StartCommand("parent", t)
    <3>1. PICK t \in Thread : StartCommand("parent", t)
      BY <2>2
    <3>2. domain["parent"] = Thread /\ ~private(request.net) /\ pc["child"] \in
          ChildGone
      BY <1>13 DEF ExecCommand, Boxing, Handshake
    <3>3. capable["parent"] = IF request.root THEN Thread ELSE {}
      BY DEF Boxing
    <3>4. request.net = "host"
      BY <3>2, RequestsAssumption DEF private, Request, NetworkMode
    <3>5. Promise!Permitted(request, box')
      BY <3>1, <3>2, <3>3, <3>4 DEF StartCommand, Promise!Permitted
    <3> QED
      BY <1>13, <2>2, <3>2, <3>5 DEF ExecCommand, Goto, Boxing, ChildSetup,
           ChildAfter, ChildGone
  <2> QED
    BY <1>13, <2>1, <2>2 DEF ExecCommand
<1>14. CASE Boot
  BY <1>14 DEF Boot, Goto, Boxing, Started, Handshake, ChildSetup, ChildAfter,
       ChildGone
<1>15. CASE ReadStartup
  BY <1>15 DEF ReadStartup, Boxing, Started, Handshake, ChildSetup, ChildAfter,
       ChildGone
<1>16. CASE StartupRead
  BY <1>16 DEF StartupRead, Close, Exit, EndProcess, Exited, Goto, Boxing,
       Started, Handshake, ChildSetup, ChildAfter, ChildGone
<1>17. CASE ParsePolicy
  BY <1>17 DEF ParsePolicy, Exit, EndProcess, Exited, Goto, Boxing, Started,
       Handshake, ChildSetup, ChildAfter, ChildGone
<1>18. CASE MountProc
  BY <1>18 DEF MountProc, Exit, EndProcess, Exited, Goto, Boxing, Started,
       Handshake, ChildSetup, ChildAfter, ChildGone
<1>19. CASE BringLoopbackUp
  BY <1>19 DEF BringLoopbackUp, Exit, EndProcess, Exited, Goto, Boxing,
       Started, Handshake, ChildSetup, ChildAfter, ChildGone
<1>20. CASE DropAllCaps
  <2>1. capable'["child"] = {} \/ pc'["child"] = "done"
     BY <1>20 DEF DropAllCaps, AllThreads, Exit, EndProcess
  <2>2. pc'["parent"] = pc["parent"] /\ pc'["child"] \in {"reportReady",
        "done"} /\ pc["child"] = "dropCaps"
     BY <1>20 DEF DropAllCaps, Goto, Exit, EndProcess
  <2>3. capable'["parent"] = capable["parent"]
     BY <1>20 DEF DropAllCaps
  <2>4. UNCHANGED <<request, childVars, domain, ranBy, box>>
     BY <1>20 DEF DropAllCaps
  <2> QED
  BY <2>1, <2>2, <2>3, <2>4 DEF Boxing, ChildSetup, ChildAfter, ChildGone
<1>21. CASE ReportReady
  BY <1>21 DEF ReportReady, OkWritten, Close, Goto, Boxing, Started, Handshake,
       ChildSetup, ChildAfter, ChildGone
<1>22. CASE Enforce("child")
  <2>1. domain'["child"] = Thread \/ pc'["child"] = "done"
     BY <1>22 DEF Enforce, AllThreads, Exit, EndProcess
  <2>2. pc'["parent"] = pc["parent"] /\ pc'["child"] \in {"fork", "done"} /\
        pc["child"] = "enforce"
     BY <1>22 DEF Enforce, Goto, Exit, EndProcess
  <2>3. pc["parent"] # "exec"
     BY <2>2 DEF Handshake, ChildGone
  <2>4. UNCHANGED <<request, childVars, capable, ranBy, box>>
     BY <1>22 DEF Enforce
  <2> QED
  BY <2>1, <2>2, <2>3, <2>4 DEF Boxing, ChildSetup, ChildAfter, ChildGone
<1>23. CASE ForkCommand
  <2>1. CASE pc'["child"] = "done" /\ pc'["parent"] = pc["parent"] /\ UNCHANGED
        <<ranBy, box>>
    BY <1>23, <2>1 DEF ForkCommand, Boxing, ChildSetup, ChildAfter, ChildGone
  <2>2. CASE Goto("child", "reaper") /\ \E t \in Thread : StartCommand("child",
        t)
    <3>1. PICK t \in Thread : StartCommand("child", t)
      BY <2>2
    <3>2. domain["child"] = Thread /\ capable["child"] = {} /\ ~plumbingEnv /\
          namespaces = CloneFlags(request)
      BY <1>23 DEF ForkCommand, Boxing, ChildSetup, ChildAfter
    <3>3. /\ ownProc <=> "mount_proc" \in request.unshare
          /\ loopback <=> request.net = "isolated"
      BY <1>23 DEF ForkCommand, Boxing, ChildSetup, ChildAfter
    <3>4. \A e \in PipeEnd : "child" \notin holders[e]
      BY <1>23 DEF ForkCommand, Holding, ChildSetup, ChildAfter, PipeEnd
    <3>5. CloneFlags(request) = Promise!Asked(request)
      BY AskedIsCloned, RequestsAssumption
    <3>6. /\ private(request.net) <=> request.net # "host"
          /\ private(request.net) => "net" \in CloneFlags(request)
          /\ "mount" \in CloneFlags(request) <=> "mount_proc" \in
                request.unshare
      BY RequestsAssumption DEF CloneFlags, Request, NetworkMode, private
    <3>7. /\ box'.landlocked /\ ~box'.capable /\ ~box'.plumbing
          /\ box'.namespaces = namespaces
          /\ box'.loopback <=> loopback
          /\ box'.ownProc <=> ownProc
      BY <3>1, <3>2, <3>4 DEF StartCommand
    <3>8. Promise!Permitted(request, box')
      BY <3>2, <3>3, <3>5, <3>6, <3>7 DEF Promise!Permitted
    <3> QED
      BY <1>23, <2>2, <3>8, <3>2, <3>3 DEF ForkCommand, Goto, Boxing,
           ChildSetup, ChildAfter, ChildGone
  <2> QED
    BY <1>23, <2>1, <2>2 DEF ForkCommand, Exit, EndProcess
<1>24. CASE ReapCommand
  BY <1>24 DEF ReapCommand, Reaps, ReaperCode, Exit, EndProcess, Exited,
       Boxing, Started, Handshake, ChildSetup, ChildAfter, ChildGone
<1>25. CASE CommandEnds
  BY <1>25 DEF CommandEnds, EndProcess, Boxing, Started, Handshake, ChildSetup,
       ChildAfter, ChildGone
<1>26. CASE KillParent
  BY <1>26 DEF KillParent, EndProcess, Signaled, Boxing, Started, Handshake,
       ChildSetup, ChildAfter, ChildGone
<1>27. CASE ChildDies
  <2>1. pc["child"] # "absent"
     BY <1>27, Zero DEF ChildDies, Life, ChildSetup, ChildAfter
  <2>2. pc'["parent"] = pc["parent"] /\ pc'["child"] = "done" /\ pc["child"] #
        "absent"
     BY <1>27, <2>1 DEF ChildDies, EndProcess
  <2>4. UNCHANGED <<request, childVars, capable, domain, ranBy, box>>
     BY <1>27 DEF ChildDies
  <2> QED
  BY <2>2, <2>4 DEF Boxing, ChildSetup, ChildAfter, ChildGone
<1>28. CASE UNCHANGED vars
  BY <1>28 DEF vars, Boxing, Started, Handshake, ChildSetup, ChildAfter,
       ChildGone
<1> QED
  BY <1>1, <1>2, <1>3, <1>4, <1>5, <1>6, <1>7, <1>8, <1>9, <1>10, <1>11, <1>12,
       <1>13, <1>14, <1>15, <1>16, <1>17, <1>18, <1>19, <1>20, <1>21, <1>22,
       <1>23, <1>24, <1>25, <1>26, <1>27, <1>28 DEF Next, Parent, Child,
       Environment, KillChild, ParentDeathSignal

(* What an exit code of zero means.                                        *)
LEMMA VerdictStep ==
  ASSUME IndInv, [Next]_vars
  PROVE  Verdict'
<1> USE Ends, Zero DEF IndInv, TypeOK, ControlOK, Process, procVars, pipeVars,
      childVars, credVars, cmdVars
<1>1. CASE Resolve
  BY <1>1 DEF Resolve, Exit, EndProcess, Goto, Verdict
<1>2. CASE SetupNamespaces
  BY <1>2 DEF SetupNamespaces, NeedsChild, Goto, Verdict
<1>3. CASE PrepareChild
  BY <1>3 DEF PrepareChild, Exit, EndProcess, Goto, Verdict
<1>4. CASE CloneChild
  BY <1>4 DEF CloneChild, Verdict
<1>5. CASE StartFails
  BY <1>5 DEF StartFails, FallBack, MayFallBack, ClosedOnFailure, Close, Exit,
       EndProcess, Goto, Verdict
<1>6. CASE CloseChildEnds
  BY <1>6 DEF CloseChildEnds, ClosedByParent, ChildEnds, Close, Goto, Verdict
<1>7. CASE WriteStartup
  BY <1>7 DEF WriteStartup, Goto, Verdict
<1>8. CASE CloseStartup
  BY <1>8 DEF CloseStartup, Close, Goto, Verdict
<1>9. CASE ReadSetup
  BY <1>9 DEF ReadSetup, Close, Goto, Verdict
<1>10. CASE ReapFailedChild
  BY <1>10 DEF ReapFailedChild, WaitReturns, FallBack, MayFallBack,
       ClosedOnFailure, Close, Exit, EndProcess, Goto, Verdict
<1>11. CASE WaitChild
  <2>1. status["child"] \in Ended
    BY <1>11 DEF WaitChild, WaitReturns
  <2>2. Relayed(status["child"]) = 0 => status["child"] = Exited(0)
    BY <2>1, RelayedZero
  <2>3. Exited(Relayed(status["child"])) = Exited(0) =>
        Relayed(status["child"]) = 0
    BY Fields
  <2> QED
  BY <1>11, <2>2, <2>3 DEF WaitChild, Exit, EndProcess, Verdict
<1>12. CASE Enforce("parent")
  BY <1>12 DEF Enforce, AllThreads, Exit, EndProcess, Goto, Verdict
<1>13. CASE ExecCommand
  <2>1. ~ready /\ "child" \notin ranBy /\ "parent" \notin ranBy
    BY <1>13 DEF ExecCommand, Started, Handshake
  <2>2. command = "waiting"
    BY <2>1 DEF Started, CommandOK
  <2>3. status["child"] # Exited(0) /\ UNCHANGED request
    BY <1>13, <2>2 DEF ExecCommand, Verdict
  <2>4. status' = status \/ status' = [status EXCEPT !["parent"] = Exited(126)]
    BY <1>13 DEF ExecCommand, Exit, EndProcess
  <2>5. status["parent"] # Exited(0)
    BY <1>13 DEF ExecCommand, Life
  <2> QED
    BY <2>3, <2>4, <2>5 DEF Verdict
<1>14. CASE Boot
  BY <1>14 DEF Boot, Goto, Verdict
<1>15. CASE ReadStartup
  BY <1>15 DEF ReadStartup, Verdict
<1>16. CASE StartupRead
  BY <1>16 DEF StartupRead, Close, Exit, EndProcess, Goto, Verdict
<1>17. CASE ParsePolicy
  BY <1>17 DEF ParsePolicy, Exit, EndProcess, Goto, Verdict
<1>18. CASE MountProc
  BY <1>18 DEF MountProc, Exit, EndProcess, Goto, Verdict
<1>19. CASE BringLoopbackUp
  BY <1>19 DEF BringLoopbackUp, Exit, EndProcess, Goto, Verdict
<1>20. CASE DropAllCaps
  BY <1>20 DEF DropAllCaps, AllThreads, Exit, EndProcess, Goto, Verdict
<1>21. CASE ReportReady
  BY <1>21 DEF ReportReady, OkWritten, Close, Goto, Verdict
<1>22. CASE Enforce("child")
  BY <1>22 DEF Enforce, AllThreads, Exit, EndProcess, Goto, Verdict
<1>23. CASE ForkCommand
  <2>1. status["child"] = Alive /\ status["parent"] # Exited(0)
    BY <1>23, Fields DEF ForkCommand, Life, ChildSetup, ChildAfter, ChildGone
  <2>2. \/ status' = status
        \/ \E c \in 1..255 : status' = [status EXCEPT !["child"] = Exited(c)]
    BY <1>23, SMTT(20) DEF ForkCommand, Exit, EndProcess
  <2> QED
    BY <2>1, <2>2 DEF Verdict
<1>24. CASE ReapCommand
  <2>1. outcome \in PayloadEnd \cup {Signaled(SIGKILL)}
    BY <1>24 DEF ReapCommand, Reaps, NoOutcome, CommandOK
  <2>2. ReaperCode(outcome) = 0 => outcome = Exited(0)
    BY <2>1, ReaperZero
  <2>3. Exited(ReaperCode(outcome)) = Exited(0) => outcome = Exited(0)
    BY <2>2, Fields
  <2> QED
  BY <1>24, <2>3 DEF ReapCommand, Exit, EndProcess, Verdict
<1>25. CASE CommandEnds
  BY <1>25 DEF CommandEnds, EndProcess, Verdict
<1>26. CASE KillParent
  BY <1>26 DEF KillParent, EndProcess, Verdict
<1>27. CASE ChildDies
  BY <1>27 DEF ChildDies, EndProcess, Verdict
<1>28. CASE UNCHANGED vars
  BY <1>28 DEF vars, Verdict
<1> QED
  BY <1>1, <1>2, <1>3, <1>4, <1>5, <1>6, <1>7, <1>8, <1>9, <1>10, <1>11, <1>12,
       <1>13, <1>14, <1>15, <1>16, <1>17, <1>18, <1>19, <1>20, <1>21, <1>22,
       <1>23, <1>24, <1>25, <1>26, <1>27, <1>28 DEF Next, Parent, Child,
       Environment, KillChild, ParentDeathSignal

(* What the child's end tells, and a command in the launcher's place.      *)
LEMMA TellsStep ==
  ASSUME IndInv, [Next]_vars
  PROVE  Tells'
<1> USE Ends, Zero, Fields DEF IndInv, TypeOK, ControlOK, Process, procVars, pipeVars,
      childVars, credVars, cmdVars
<1>1. CASE Resolve
  BY <1>1 DEF Resolve, Exit, EndProcess, Goto, Tells, Started, Handshake,
       ChildSetup, ChildAfter, ChildGone
<1>2. CASE SetupNamespaces
  BY <1>2 DEF SetupNamespaces, Goto, Tells, Started, Handshake, ChildSetup,
       ChildAfter, ChildGone
<1>3. CASE PrepareChild
  BY <1>3 DEF PrepareChild, Exit, EndProcess, Goto, Tells, Started, Handshake,
       ChildSetup, ChildAfter, ChildGone
<1>4. CASE CloneChild
  BY <1>4 DEF CloneChild, Tells, Started, Handshake, ChildSetup, ChildAfter,
       ChildGone
<1>5. CASE StartFails
  BY <1>5 DEF StartFails, FallBack, Close, Exit, EndProcess, Goto, Tells,
       Started, Handshake, ChildSetup, ChildAfter, ChildGone
<1>6. CASE CloseChildEnds
  BY <1>6 DEF CloseChildEnds, Close, Goto, Tells, Started, Handshake,
       ChildSetup, ChildAfter, ChildGone
<1>7. CASE WriteStartup
  BY <1>7 DEF WriteStartup, Goto, Tells, Started, Handshake, ChildSetup,
       ChildAfter, ChildGone
<1>8. CASE CloseStartup
  BY <1>8 DEF CloseStartup, Close, Goto, Tells, Started, Handshake, ChildSetup,
       ChildAfter, ChildGone
<1>9. CASE ReadSetup
  BY <1>9 DEF ReadSetup, Close, Goto, Tells, Started, Handshake, ChildSetup,
       ChildAfter, ChildGone
<1>10. CASE ReapFailedChild
  BY <1>10 DEF ReapFailedChild, FallBack, Close, Exit, EndProcess, Goto, Tells,
       Started, Handshake, ChildSetup, ChildAfter, ChildGone
<1>11. CASE WaitChild
  BY <1>11 DEF WaitChild, Exit, EndProcess, Tells, Started, Handshake,
       ChildSetup, ChildAfter, ChildGone
<1>12. CASE Enforce("parent")
  BY <1>12 DEF Enforce, Exit, EndProcess, Goto, Tells, Started, Handshake,
       ChildSetup, ChildAfter, ChildGone
<1>13. CASE ExecCommand
  <2>1. ~ready /\ ranBy = {} /\ command = "waiting" /\ pc["parent"] = "exec"
    BY <1>13 DEF ExecCommand, Started, Handshake, CommandOK
  <2>2. UNCHANGED <<request, outcome>> /\ status'["child"] = status["child"]
        /\ pc'["child"] = pc["child"]
    BY <1>13 DEF ExecCommand, StartCommand, Exit, EndProcess, Goto
  <2>3. \/ command' = "running" /\ ranBy' = {"parent"} /\ pc'["parent"] = "payload"
        \/ UNCHANGED <<command, ranBy>> /\ pc'["parent"] = "done"
    BY <1>13, <2>1 DEF ExecCommand, StartCommand, Exit, EndProcess, Goto
  <2> QED
    BY <2>1, <2>2, <2>3 DEF Tells
<1>14. CASE Boot
  BY <1>14 DEF Boot, Goto, Tells, Started, Handshake, ChildSetup, ChildAfter,
       ChildGone
<1>15. CASE ReadStartup
  BY <1>15 DEF ReadStartup, Tells, Started, Handshake, ChildSetup, ChildAfter,
       ChildGone
<1>16. CASE StartupRead
  BY <1>16 DEF StartupRead, Close, Exit, EndProcess, Goto, Tells, Started,
       Handshake, ChildSetup, ChildAfter, ChildGone
<1>17. CASE ParsePolicy
  BY <1>17 DEF ParsePolicy, Exit, EndProcess, Goto, Tells, Started, Handshake,
       ChildSetup, ChildAfter, ChildGone
<1>18. CASE MountProc
  BY <1>18 DEF MountProc, Exit, EndProcess, Goto, Tells, Started, Handshake,
       ChildSetup, ChildAfter, ChildGone
<1>19. CASE BringLoopbackUp
  BY <1>19 DEF BringLoopbackUp, Exit, EndProcess, Goto, Tells, Started,
       Handshake, ChildSetup, ChildAfter, ChildGone
<1>20. CASE DropAllCaps
  BY <1>20 DEF DropAllCaps, Exit, EndProcess, Goto, Tells, Started, Handshake,
       ChildSetup, ChildAfter, ChildGone
<1>21. CASE ReportReady
  BY <1>21 DEF ReportReady, Close, Goto, Tells, Started, Handshake, ChildSetup,
       ChildAfter, ChildGone
<1>22. CASE Enforce("child")
  BY <1>22 DEF Enforce, Exit, EndProcess, Goto, Tells, Started, Handshake,
       ChildSetup, ChildAfter, ChildGone
<1>23. CASE ForkCommand
  <2>1. pc["child"] = "fork" /\ "parent" \notin ranBy /\ "child" \notin ranBy
    BY <1>23 DEF ForkCommand, Started, ChildGone
  <2>2. command = "waiting" /\ status["child"] = Alive
    BY <1>23, <2>1 DEF ForkCommand, Started, CommandOK, Life, ChildSetup,
         ChildAfter
  <2>3. /\ UNCHANGED <<request, outcome>> /\ pc'["parent"] = pc["parent"]
        /\ \/ command' = "running" /\ ranBy' = ranBy \cup {"child"} /\ status' = status
           \/ /\ UNCHANGED <<command, ranBy>>
              /\ \E code \in {126, 127} : status' = [status EXCEPT !["child"] = Exited(code)]
    BY <1>23 DEF ForkCommand, StartCommand, Exit, EndProcess, Goto
  <2>4. pc["parent"] # "payload" /\ request.mode = "run"
    BY <2>1 DEF Tells
  <2> QED
    BY <2>1, <2>2, <2>3, <2>4 DEF Tells
<1>24. CASE ReapCommand
  <2>1. /\ UNCHANGED <<request, cmdVars>> /\ pc'["parent"] = pc["parent"]
        /\ status'["child"] = Exited(ReaperCode(outcome))
        /\ command = "ended" /\ pc["child"] = "reaper"
    BY <1>24 DEF ReapCommand, Exit, EndProcess
  <2>2. ReaperCode(outcome) = ShellCode(outcome)
    BY DEF ReaperCode, ShellCode
  <2> QED
    BY <2>1, <2>2 DEF Tells
<1>25. CASE CommandEnds
  BY <1>25 DEF CommandEnds, EndProcess, Tells, Started, Handshake, ChildSetup,
       ChildAfter, ChildGone
<1>26. CASE KillParent
  BY <1>26 DEF KillParent, EndProcess, Tells, Started, Handshake, ChildSetup,
       ChildAfter, ChildGone
<1>27. CASE ChildDies
  <2>1. /\ UNCHANGED <<request, ranBy>> /\ pc'["parent"] = pc["parent"]
        /\ status'["child"] = Signaled(SIGKILL) /\ pc["child"] # "absent"
    BY <1>27 DEF ChildDies, EndProcess, Life, ChildSetup, ChildAfter
  <2>2. \/ UNCHANGED <<command, outcome>>
        \/ command = "running" /\ command' = "ended" /\ outcome' = Signaled(SIGKILL)
    BY <1>27 DEF ChildDies
  <2>3. "parent" \in ranBy => UNCHANGED <<command, outcome>>
    BY <1>27 DEF ChildDies, Started, Life, ChildGone, ChildSetup, ChildAfter
  <2> QED
    BY <2>1, <2>2, <2>3 DEF Tells
<1>28. CASE UNCHANGED vars
  BY <1>28 DEF vars, Tells, Started, Handshake, ChildSetup, ChildAfter,
       ChildGone
<1> QED
  BY <1>1, <1>2, <1>3, <1>4, <1>5, <1>6, <1>7, <1>8, <1>9, <1>10, <1>11, <1>12,
       <1>13, <1>14, <1>15, <1>16, <1>17, <1>18, <1>19, <1>20, <1>21, <1>22,
       <1>23, <1>24, <1>25, <1>26, <1>27, <1>28 DEF Next, Parent, Child,
     Environment, KillChild, ParentDeathSignal

(* The request is never changed.                                           *)
LEMMA SameRequest == [Next]_vars => request' = request
BY DEF Next, Parent, Child, Environment, vars, Resolve, SetupNamespaces,
     PrepareChild, CloneChild, StartFails, CloseChildEnds, WriteStartup,
     CloseStartup, ReadSetup, ReapFailedChild, WaitChild, Enforce, ExecCommand,
     Boot, ReadStartup, StartupRead, ParsePolicy, MountProc, BringLoopbackUp,
     DropAllCaps, ReportReady, ForkCommand, ReapCommand, CommandEnds,
     KillParent, ChildDies, KillChild, ParentDeathSignal

(* Launches in which nothing goes wrong.                                   *)
LEMMA UndisturbedStep ==
  ASSUME IndInv, [Next]_vars
  PROVE  Undisturbed'
<1> SUFFICES ASSUME Unhindered PROVE OnTrack'
  BY SameRequest DEF Undisturbed, Unhindered, Faults, ClonePermitted,
       CloneFlags
<1>0. OnTrack
  BY DEF Undisturbed, IndInv
<1> USE <1>0, Ends, Zero, Fields DEF IndInv, TypeOK, ControlOK, Process, procVars, pipeVars,
      childVars, credVars, cmdVars
<1>1. CASE Resolve
  BY <1>1, SMTT(20) DEF Resolve, Exit, EndProcess, Goto, OnTrack, Unhindered, Faults,
       Started, Handshake, Holding, Life, ChildSetup, ChildAfter, ChildGone
<1>2. CASE SetupNamespaces
  BY <1>2 DEF SetupNamespaces, Goto, OnTrack, Unhindered, Faults, Started,
       Handshake, Holding, Life, ChildSetup, ChildAfter, ChildGone
<1>3. CASE PrepareChild
  BY <1>3 DEF PrepareChild, Exit, EndProcess, Goto, OnTrack, Unhindered,
       Faults, Started, Handshake, Holding, Life, ChildSetup, ChildAfter,
       ChildGone
<1>4. CASE CloneChild
  <2>1. /\ pc["parent"] = "start" /\ pc'["parent"] = "closeEnds" /\ pc'["child"] = "boot"
        /\ "child" \in holders'["startupR"] /\ "parent" \in holders'["startupW"]
        /\ UNCHANGED <<request, cmdVars>>
    BY <1>4 DEF CloneChild, ChildEnds, PipeEnd
  <2> QED
    BY <2>1 DEF OnTrack, ChildGone, ChildAfter, Started
<1>5. CASE StartFails
  BY <1>5 DEF StartFails, FallBack, Close, Exit, EndProcess, Goto, OnTrack,
       Unhindered, Faults, Started, Handshake, Holding, Life, ChildSetup,
       ChildAfter, ChildGone
<1>6. CASE CloseChildEnds
  <2>1. /\ pc["parent"] = "closeEnds" /\ pc'["parent"] = "writeStartup"
        /\ pc'["child"] = pc["child"]
        /\ "child" \in holders["startupR"] => "child" \in holders'["startupR"]
        /\ "parent" \in holders["startupW"] => "parent" \in holders'["startupW"]
        /\ UNCHANGED <<request, ready, unsent, cmdVars>>
    BY <1>6 DEF CloseChildEnds, ClosedByParent, ChildEnds, Close, Goto, PipeEnd
  <2> QED
    BY <2>1 DEF OnTrack, Started
<1>7. CASE WriteStartup
  BY <1>7 DEF WriteStartup, Goto, OnTrack, Unhindered, Faults, Started,
       Handshake, Holding, Life, ChildSetup, ChildAfter, ChildGone
<1>8. CASE CloseStartup
  <2>1. /\ pc["parent"] = "closeStartup" /\ pc'["parent"] = "readSetup"
        /\ pc'["child"] = pc["child"]
        /\ "child" \in holders["startupR"] => "child" \in holders'["startupR"]
        /\ UNCHANGED <<request, ready, unsent, cmdVars>>
    BY <1>8 DEF CloseStartup, Close, Goto, PipeEnd
  <2> QED
    BY <2>1 DEF OnTrack, Started
<1>9. CASE ReadSetup
  <2>1. /\ pc["parent"] = "readSetup" /\ pc'["child"] = pc["child"]
        /\ ready \/ holders["setupW"] = {}
        /\ pc'["parent"] = IF ready THEN "wait" ELSE "reap"
        /\ "child" \in holders["startupR"] => "child" \in holders'["startupR"]
        /\ UNCHANGED <<request, ready, unsent, cmdVars>>
    BY <1>9 DEF ReadSetup, Close, Goto, PipeEnd
  <2>2. ready
    BY <2>1 DEF OnTrack, Holding, ChildSetup, ChildAfter, ChildStep
  <2> QED
    BY <2>1, <2>2 DEF OnTrack, Started
<1>10. CASE ReapFailedChild
  BY <1>10 DEF ReapFailedChild, FallBack, Close, Exit, EndProcess, Goto,
       OnTrack, Unhindered, Faults, Started, Handshake, Holding, Life,
       ChildSetup, ChildAfter, ChildGone
<1>11. CASE WaitChild
  <2>1. /\ pc["parent"] = "wait" /\ pc'["parent"] = "done" /\ pc'["child"] = pc["child"]
        /\ status["child"] \in Ended
        /\ "child" \in holders["startupR"] => "child" \in holders'["startupR"]
        /\ UNCHANGED <<request, ready, unsent, cmdVars>>
    BY <1>11 DEF WaitChild, WaitReturns, Exit, EndProcess, PipeEnd
  <2>2. pc["child"] = "done"
    BY <2>1 DEF Life
  <2> QED
    BY <2>1, <2>2 DEF OnTrack, Started, ChildGone
<1>12. CASE Enforce("parent")
  BY <1>12 DEF Enforce, Exit, EndProcess, Goto, OnTrack, Unhindered, Faults,
       Started, Handshake, Holding, Life, ChildSetup, ChildAfter, ChildGone
<1>13. CASE ExecCommand
  <2>1. /\ pc["parent"] = "exec" /\ pc'["parent"] = "payload" /\ pc'["child"] = pc["child"]
        /\ box'.namespaces = {}
        /\ UNCHANGED <<request, pipeVars>>
    BY <1>13 DEF ExecCommand, StartCommand, Goto, Unhindered, Faults
  <2>2. ~NeedsChild(request)
    BY <2>1 DEF OnTrack
  <2>3. CloneFlags(request) = {}
    BY <2>2 DEF CloneFlags, NeedsChild
  <2>4. box'.namespaces = Promise!Asked(request)
    BY <2>1, <2>3, AskedIsCloned, RequestsAssumption
  <2>5. Promise!Asked(request)' = Promise!Asked(request) /\ NeedsChild(request)' = NeedsChild(request)
    BY <2>1 DEF Promise!Asked, NeedsChild
  <2> QED
    BY <2>1, <2>2, <2>4, <2>5 DEF OnTrack
<1>14. CASE Boot
  BY <1>14 DEF Boot, Goto, OnTrack, Unhindered, Faults, Started, Handshake,
       Holding, Life, ChildSetup, ChildAfter, ChildGone
<1>15. CASE ReadStartup
  BY <1>15 DEF ReadStartup, OnTrack, Unhindered, Faults, Started, Handshake,
       Holding, Life, ChildSetup, ChildAfter, ChildGone
<1>16. CASE StartupRead
  <2>1. pc["child"] = "readStartup" /\ piped = 0 /\ holders["startupW"] = {}
    BY <1>16 DEF StartupRead
  <2>2. ~ready /\ pc["parent"] \in {"closeEnds", "writeStartup", "closeStartup", "readSetup"}
    BY <2>1 DEF OnTrack, Handshake, ChildSetup, ChildGone, ParentStep
  <2>3. unsent = 0
    BY <2>1, <2>2 DEF OnTrack
  <2>4. received = StartupSize
    BY <2>1, <2>3, SizeAssumption DEF PipesOK
  <2>5. /\ pc'["parent"] = pc["parent"] /\ pc'["child"] = "parse"
        /\ "parent" \in holders["startupW"] => "parent" \in holders'["startupW"]
        /\ UNCHANGED <<request, ready, unsent, cmdVars>>
    BY <1>16, <2>4 DEF StartupRead, Goto, Close, PipeEnd
  <2> QED
    BY <2>1, <2>2, <2>5 DEF OnTrack, ChildAfter
<1>17. CASE ParsePolicy
  BY <1>17 DEF ParsePolicy, Exit, EndProcess, Goto, OnTrack, Unhindered,
       Faults, Started, Handshake, Holding, Life, ChildSetup, ChildAfter,
       ChildGone
<1>18. CASE MountProc
  BY <1>18 DEF MountProc, Exit, EndProcess, Goto, OnTrack, Unhindered, Faults,
       Started, Handshake, Holding, Life, ChildSetup, ChildAfter, ChildGone
<1>19. CASE BringLoopbackUp
  BY <1>19 DEF BringLoopbackUp, Exit, EndProcess, Goto, OnTrack, Unhindered,
       Faults, Started, Handshake, Holding, Life, ChildSetup, ChildAfter,
       ChildGone
<1>20. CASE DropAllCaps
  BY <1>20 DEF DropAllCaps, Exit, EndProcess, Goto, OnTrack, Unhindered,
       Faults, Started, Handshake, Holding, Life, ChildSetup, ChildAfter,
       ChildGone
<1>21. CASE ReportReady
  <2>1. /\ pc["child"] = "reportReady" /\ pc'["child"] = "enforce"
        /\ pc'["parent"] = pc["parent"]
        /\ ready' = OkWritten
        /\ "parent" \in holders["startupW"] => "parent" \in holders'["startupW"]
        /\ UNCHANGED <<request, unsent, cmdVars>>
    BY <1>21 DEF ReportReady, Goto, Close, PipeEnd
  <2>2. ~ready /\ pc["parent"] \in {"closeEnds", "writeStartup", "closeStartup", "readSetup"}
    BY <2>1 DEF OnTrack, Handshake, ChildSetup, ChildGone, ParentStep
  <2>3. ready'
    BY <2>1, <2>2 DEF Holding, OkWritten
  <2> QED
    BY <2>1, <2>2, <2>3 DEF OnTrack
<1>22. CASE Enforce("child")
  <2>1. /\ pc["child"] = "enforce" /\ pc'["child"] = "fork" /\ pc'["parent"] = pc["parent"]
        /\ UNCHANGED <<request, pipeVars, cmdVars>>
    BY <1>22 DEF Enforce, Goto, Unhindered, Faults
  <2>2. ready
    BY <2>1 DEF OnTrack, ChildAfter
  <2> QED
    BY <2>1, <2>2 DEF OnTrack, ChildAfter, ChildGone
<1>23. CASE ForkCommand
  <2>1. /\ pc["child"] = "fork" /\ pc'["child"] = "reaper" /\ pc'["parent"] = pc["parent"]
        /\ box'.namespaces = namespaces /\ ranBy' = ranBy \cup {"child"}
        /\ UNCHANGED <<request, pipeVars>>
    BY <1>23 DEF ForkCommand, StartCommand, Goto, Unhindered, Faults
  <2>2. ready /\ pc["parent"] # "done"
    BY <2>1 DEF OnTrack, ChildAfter, ChildGone
  <2>3. namespaces = Promise!Asked(request)
    BY <2>1, AskedIsCloned, RequestsAssumption DEF Boxing
  <2>4. Promise!Asked(request)' = Promise!Asked(request) /\ NeedsChild(request)' = NeedsChild(request)
    BY <2>1 DEF Promise!Asked, NeedsChild
  <2> QED
    BY <2>1, <2>2, <2>3, <2>4 DEF OnTrack
<1>24. CASE ReapCommand
  <2>1. /\ pc["child"] = "reaper" /\ pc'["child"] = "done" /\ pc'["parent"] = pc["parent"]
        /\ "parent" \in holders["startupW"] => "parent" \in holders'["startupW"]
        /\ UNCHANGED <<request, ready, unsent, cmdVars>>
    BY <1>24 DEF ReapCommand, Exit, EndProcess, PipeEnd
  <2>2. ready
    BY <2>1 DEF OnTrack, ChildAfter
  <2> QED
    BY <2>1, <2>2 DEF OnTrack, ChildGone
<1>25. CASE CommandEnds
  BY <1>25 DEF CommandEnds, EndProcess, OnTrack, Unhindered, Faults, Started,
       Handshake, Holding, Life, ChildSetup, ChildAfter, ChildGone
<1>26. CASE KillParent
  BY <1>26 DEF KillParent, EndProcess, OnTrack, Unhindered, Faults, Started,
       Handshake, Holding, Life, ChildSetup, ChildAfter, ChildGone
<1>27. CASE KillChild \/ ParentDeathSignal
  <2>1. status["child"] = Alive /\ status["parent"] \in Ended
    BY <1>27 DEF KillChild, ParentDeathSignal, ChildDies, Unhindered, Faults
  <2>2. pc["parent"] = "done"
    BY <2>1 DEF Life
  <2>3. pc["child"] = "absent" \/ pc["child"] = "done"
    BY <2>2 DEF OnTrack, ChildGone
  <2> QED
    BY <2>1, <2>3 DEF Life, ChildSetup, ChildAfter
<1>28. CASE UNCHANGED vars
  BY <1>28 DEF vars, OnTrack, Unhindered, Faults, Started, Handshake, Holding,
       Life, ChildSetup, ChildAfter, ChildGone
<1> QED
  BY <1>1, <1>2, <1>3, <1>4, <1>5, <1>6, <1>7, <1>8, <1>9, <1>10, <1>11, <1>12,
       <1>13, <1>14, <1>15, <1>16, <1>17, <1>18, <1>19, <1>20, <1>21, <1>22,
       <1>23, <1>24, <1>25, <1>26, <1>27, <1>28 DEF Next, Parent, Child,
     Environment

LEMMA IndStep == IndInv /\ [Next]_vars => IndInv'
<1> SUFFICES ASSUME IndInv, [Next]_vars PROVE IndInv'
  OBVIOUS
<1>1. TypeOK'
  BY TypeStep DEF IndInv
<1> QED
  BY <1>1, LifeStep, HoldingStep, HandshakeStep, StartedStep, BoxingStep,
     VerdictStep, TellsStep, UndisturbedStep DEF IndInv

THEOREM Inductive == Spec => []IndInv
  BY IndInit, IndStep, PTL DEF Spec

-----------------------------------------------------------------------------
(* The command is never started both by the child and by the fallback,     *)
(* whatever fails during the handshake and whoever is killed.              *)
THEOREM StartsAtMostOnce == Spec => []AtMostOnce
<1>1. IndInv => AtMostOnce
  BY DEF IndInv, Started, AtMostOnce, Process
<1> QED
  BY <1>1, Inductive, PTL

(* Whoever starts the command, it is in a box that its request permits.    *)
THEOREM RunsConfined == Spec => []Confined
<1>1. IndInv => Confined
  BY DEF IndInv, Started, Boxing, Confined
<1> QED
  BY <1>1, Inductive, PTL

(* The fallback begins only after every trace of the child is gone.        *)
THEOREM FallsBackCleanly == Spec => []CleanFallback
<1>1. IndInv => CleanFallback
  <2> SUFFICES ASSUME IndInv, "parent" \in ranBy PROVE CleanFallback
    BY DEF CleanFallback
  <2>1. /\ pc["parent"] \in {"payload", "done"}
        /\ pc["child"] \in ChildGone
        /\ ~ready
    BY DEF IndInv, Started
  <2>2. status["child"] # Alive
    BY <2>1, Ends, Zero DEF IndInv, Life, ChildGone, ChildSetup, ChildAfter
  <2>3. \A e \in PipeEnd : holders[e] = {}
    BY <2>1 DEF IndInv, TypeOK, PipesOK, Holding, Process
  <2> QED
    BY <2>1, <2>2, <2>3 DEF CleanFallback
<1> QED
  BY <1>1, Inductive, PTL

(* A launcher that exits by itself has outlived its child.                 *)
THEOREM LeavesNoChild == Spec => []NoChildLeftBehind
<1>1. IndInv => NoChildLeftBehind
  BY Ends, Zero DEF IndInv, Life, ChildGone, ChildSetup, ChildAfter,
                    NoChildLeftBehind
<1> QED
  BY <1>1, Inductive, PTL

(* Exit code 0 of a launch is the command's own.                           *)
THEOREM SucceedsTruthfully == Spec => []NoFalseSuccess
<1>1. IndInv => NoFalseSuccess
  BY DEF IndInv, Verdict, NoFalseSuccess
<1> QED
  BY <1>1, Inductive, PTL

(* If the kernel grants the namespaces, no call fails and nobody is        *)
(* killed, the command runs in all of them -- unless an empty --ro or --rw *)
(* path makes the child refuse the policy, which this excludes.            *)
THEOREM GetsNamespaces ==
  ASSUME \A r \in Requests : r.faults \/ ~r.emptyPath
  PROVE  Spec => []NamespacesIfGranted
<1>1. IndInv => NamespacesIfGranted
  BY DEF IndInv, TypeOK, Undisturbed, Unhindered, OnTrack, Faults, NamespacesIfGranted
<1> QED
  BY <1>1, Inductive, PTL
=============================================================================
