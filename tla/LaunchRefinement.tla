-------------------------- MODULE LaunchRefinement --------------------------
(***************************************************************************)
(* Launch implements Sandbox, for every set of requests, every set of      *)
(* threads, every payload and pipe size: each of its steps is a step of    *)
(* Sandbox or changes nothing that Sandbox can see.                        *)
(***************************************************************************)
EXTENDS LaunchProofs

-----------------------------------------------------------------------------
(* What the caller has learnt, by how the launcher is.                     *)

LEMMA ReportAlive ==
  ASSUME status["parent"] = Alive
  PROVE  report = Promise!Pending
BY Ends DEF report, Promise!Pending

LEMMA ReportExited ==
  ASSUME NEW c \in 0..255
  PROVE  /\ status["parent"] = Exited(c) => report = c
         /\ status'["parent"] = Exited(c) => report' = c
<1>1. Exited(c) \in Ended /\ ShellCode(Exited(c)) = c /\ Exited(c).how = "exited"
  BY Ends, Fields DEF ShellCode
<1> QED
  BY <1>1 DEF report

LEMMA ReportKilled ==
  ASSUME status'["parent"] = Signaled(SIGKILL), "parent" \notin ranBy'
  PROVE  report' = Promise!Killed
BY Ends, Fields DEF report, Promise!Killed

-----------------------------------------------------------------------------
(* What several actions look like to Sandbox.                              *)

(* Nothing.                                                                *)
LEMMA Unseen ==
  ASSUME UNCHANGED <<request, cmdVars>>, status'["parent"] = status["parent"]
  PROVE  UNCHANGED Promise!vars
BY DEF cmdVars, report, Promise!vars

(* Before it starts the command or leaves it to the child the launcher is  *)
(* alive and nothing has been started.                                     *)
LEMMA Waiting ==
  ASSUME IndInv,
         pc["parent"] \in {"resolve", "setup", "prepare", "start", "reap", "enforce", "exec"}
  PROVE  command = "waiting" /\ ranBy = {} /\ status["parent"] = Alive
BY DEF IndInv, TypeOK, CommandOK, Process, Life, Handshake, Started

(* The launcher gives up.                                                  *)
LEMMA GivesUp ==
  ASSUME NEW c \in 1..255,
         command = "waiting", status["parent"] = Alive,
         UNCHANGED <<request, cmdVars>>, status'["parent"] = Exited(c)
  PROVE  Promise!Refuse
<1>1. report = Promise!Pending /\ report' = c
  BY ReportAlive, ReportExited
<1>2. c \in Promise!Code \ {0}
  BY DEF Promise!Code
<1> QED
  BY <1>1, <1>2 DEF Promise!Refuse, cmdVars

(* The command starts, in a box that the request permits.                  *)
LEMMA Starts ==
  ASSUME IndInv, IndInv', NEW p \in Process, NEW t \in Thread, StartCommand(p, t),
         request.mode = "run", command = "waiting",
         UNCHANGED <<request, status>>, report \in {Promise!Pending, Promise!Killed},
         report' = report
  PROVE  Promise!Run
<1>1. ranBy' # {} /\ command' = "running" /\ outcome' = outcome
  BY DEF StartCommand
<1>2. box' \in Box
  BY DEF IndInv, TypeOK, CommandOK
<1>3. Promise!Permitted(request', box')
  BY <1>1 DEF IndInv, Boxing
<1>4. Promise!Permitted(request, box')
  BY <1>3
<1>5. box' \in Promise!Box
  BY <1>2 DEF Box, Namespace, Promise!Box, Promise!Namespace
<1> QED
  BY <1>1, <1>4, <1>5 DEF Promise!Run

(* The command ends as ws.                                                 *)
LEMMA Finishes ==
  ASSUME NEW ws \in Ended, command = "running", command' = "ended", outcome' = ws,
         UNCHANGED <<request, box>>,
         report' = report \/ (report = Promise!Pending /\ report' = ShellCode(ws))
  PROVE  Promise!End
BY DEF Promise!End, Promise!ShellCode, ShellCode, Promise!Ended, Ended

-----------------------------------------------------------------------------
(* The actions that Sandbox can see.                                       *)

LEMMA ResolveSeen ==
  ASSUME IndInv, Resolve
  PROVE  [Promise!Next]_(Promise!vars)
<1>1. command = "waiting" /\ status["parent"] = Alive /\ UNCHANGED <<request, cmdVars>>
  BY Waiting DEF Resolve
<1>2. CASE status' = status
  BY <1>1, <1>2, Unseen
<1>3. CASE request.mode # "run" /\ status'["parent"] = Exited(0)
  <2>1. report = Promise!Pending /\ report' = 0
    BY <1>1, <1>3, ReportAlive, ReportExited
  <2> QED
    BY <1>1, <1>3, <2>1 DEF Promise!PrintOnly, Promise!Next, cmdVars
<1>4. ASSUME NEW c \in {1, 2, 127}, status'["parent"] = Exited(c)
      PROVE  Promise!Refuse
  BY <1>1, <1>4, GivesUp
<1>5. \/ status' = status
      \/ request.mode # "run" /\ status'["parent"] = Exited(0)
      \/ \E c \in {1, 2, 127} : status'["parent"] = Exited(c)
  BY DEF Resolve, Exit, EndProcess, IndInv, TypeOK, ControlOK, Process
<1> QED
  BY <1>2, <1>3, <1>4, <1>5 DEF Promise!Next

(* The launcher's other steps before it has started anything go on, or     *)
(* give up.                                                                *)
LEMMA ParentSeen ==
  ASSUME IndInv,
         SetupNamespaces \/ PrepareChild \/ StartFails \/ ReapFailedChild \/ Enforce("parent")
  PROVE  [Promise!Next]_(Promise!vars)
<1>1. command = "waiting" /\ status["parent"] = Alive
  BY Waiting DEF SetupNamespaces, PrepareChild, StartFails, ReapFailedChild, Enforce
<1>2. UNCHANGED <<request, cmdVars>>
  BY DEF SetupNamespaces, PrepareChild, StartFails, ReapFailedChild, Enforce
<1>3. status'["parent"] \in {status["parent"], Exited(1)}
  BY DEF SetupNamespaces, PrepareChild, StartFails, ReapFailedChild, Enforce, FallBack,
         Exit, EndProcess, IndInv, TypeOK, ControlOK, Process
<1> QED
  BY <1>1, <1>2, <1>3, Unseen, GivesUp DEF Promise!Next

(* The launcher exits as its child did: with the command's own code; or    *)
(* with another than 0, because the child gave up; or with 255, because    *)
(* the child was killed, whether or not it had started the command.        *)
LEMMA WaitChildSeen ==
  ASSUME IndInv, WaitChild
  PROVE  Promise!Next
<1> DEFINE ws == status["child"]
<1>1. pc["parent"] = "wait" /\ ws \in Ended /\ UNCHANGED <<request, cmdVars>>
  BY DEF WaitChild, WaitReturns
<1>2. status'["parent"] = Exited(Relayed(ws)) /\ Relayed(ws) \in 0..255
  BY <1>1, RelayedType DEF WaitChild, Exit, EndProcess, IndInv, TypeOK, ControlOK, Process
<1>3. ready /\ "parent" \notin ranBy /\ status["parent"] = Alive
  BY <1>1 DEF IndInv, Handshake, Started, Life
<1>4. report = Promise!Pending /\ report' = Relayed(ws)
  BY <1>2, <1>3, ReportAlive, ReportExited
<1>5. "child" \notin ranBy => command = "waiting"
  BY <1>3 DEF IndInv, TypeOK, CommandOK, Process, Started
<1>6. CASE ws.how = "exited" /\ "child" \notin ranBy /\ ws.n # 0
  <2>1. Relayed(ws) \in 1..255
    BY <1>2, <1>6, <1>1 DEF Relayed, Ended
  <2> QED
    BY <1>1, <1>2, <1>3, <1>5, <1>6, <2>1, GivesUp DEF Promise!Next
<1>7. CASE ws.how = "exited" /\ command = "ended" /\ ws.n = ShellCode(outcome)
  <2>1. report' = Promise!ShellCode(outcome)
    BY <1>4, <1>7 DEF Relayed, ShellCode, Promise!ShellCode
  <2> QED
    BY <1>1, <1>4, <1>7, <2>1 DEF Promise!Report, Promise!Next, cmdVars
<1>8. CASE ws.how # "exited"
  <2>1. Relayed(ws) = 255
    BY <1>8 DEF Relayed
  <2>2. CASE command = "waiting"
    BY <1>1, <1>2, <1>3, <2>1, <2>2, GivesUp DEF Promise!Next
  <2>3. CASE command # "waiting"
    BY <1>1, <1>4, <2>1, <2>3 DEF Promise!Abandon, Promise!Next, cmdVars
  <2> QED
    BY <2>2, <2>3
<1> QED
  BY <1>1, <1>6, <1>7, <1>8 DEF IndInv, Tells

LEMMA ExecCommandSeen ==
  ASSUME IndInv, IndInv', ExecCommand
  PROVE  Promise!Next
<1>1. pc["parent"] = "exec" /\ request' = request
  BY DEF ExecCommand
<1>2. command = "waiting" /\ ranBy = {} /\ status["parent"] = Alive
  BY <1>1, Waiting
<1>3. CASE \E t \in Thread : StartCommand("parent", t) /\ status' = status
  <2>1. report = Promise!Pending /\ report' = report
    BY <1>2, <1>3, Ends DEF report, Promise!Pending
  <2>2. request.mode = "run"
    BY <1>1 DEF IndInv, Tells
  <2> QED
    BY <1>1, <1>2, <1>3, <2>1, <2>2, Starts DEF Process, Promise!Next
<1>4. CASE status'["parent"] = Exited(126) /\ UNCHANGED cmdVars
  BY <1>1, <1>2, <1>4, GivesUp DEF Promise!Next
<1> QED
  BY <1>3, <1>4 DEF ExecCommand, Exit, EndProcess, IndInv, TypeOK, ControlOK, Process

(* The child may start the command although the launcher has been killed.  *)
LEMMA ForkCommandSeen ==
  ASSUME IndInv, IndInv', ForkCommand
  PROVE  [Promise!Next]_(Promise!vars)
<1>1. pc["child"] = "fork" /\ request' = request
  BY DEF ForkCommand
<1>2. ranBy = {} /\ command = "waiting"
  BY <1>1 DEF IndInv, TypeOK, CommandOK, Started, Process, ChildGone
<1>3. CASE \E t \in Thread : StartCommand("child", t) /\ status' = status
  <2>1. "parent" \notin ranBy /\ "parent" \notin ranBy'
    BY <1>2, <1>3 DEF StartCommand
  <2>2. status["parent"] \in Ended => status["parent"].how = "signaled"
    BY <1>1, Ends DEF IndInv, Life, ChildGone
  <2>3. report \in {Promise!Pending, Promise!Killed} /\ report' = report
    BY <1>3, <2>1, <2>2 DEF report, Promise!Pending, Promise!Killed
  <2>4. request.mode = "run"
    BY <1>1 DEF IndInv, Tells
  <2> QED
    BY <1>1, <1>2, <1>3, <2>3, <2>4, Starts DEF Process, Promise!Next
<1>4. CASE status'["parent"] = status["parent"] /\ UNCHANGED cmdVars
  BY <1>1, <1>4, Unseen
<1> QED
  BY <1>3, <1>4 DEF ForkCommand, Exit, EndProcess, IndInv, TypeOK, ControlOK, Process

(* The command's end is the launcher's if it runs in the launcher's place. *)
LEMMA CommandEndsSeen ==
  ASSUME IndInv, CommandEnds
  PROVE  Promise!Next
<1>1. /\ command = "running" /\ command' = "ended" /\ outcome' \in Ended
      /\ UNCHANGED <<request, box, ranBy>>
  BY Ends DEF CommandEnds
<1>2. CASE "parent" \in ranBy
  <2>1. status["parent"] = Alive
    BY <1>1, <1>2 DEF IndInv, Tells, Life
  <2>2. status'["parent"] = outcome' /\ "parent" \in ranBy'
    BY <1>1, <1>2 DEF CommandEnds, EndProcess, IndInv, TypeOK, ControlOK, Process
  <2>3. report = Promise!Pending /\ report' = ShellCode(outcome')
    BY <1>1, <2>1, <2>2, ReportAlive DEF report
  <2> QED
    BY <1>1, <2>3, Finishes DEF Promise!Next
<1>3. CASE "parent" \notin ranBy
  <2>1. report' = report
    BY <1>1, <1>3 DEF CommandEnds, procVars, report
  <2> QED
    BY <1>1, <2>1, Finishes DEF Promise!Next
<1> QED
  BY <1>2, <1>3

LEMMA KillParentSeen ==
  ASSUME IndInv, KillParent
  PROVE  Promise!Next
<1>1. /\ status["parent"] = Alive /\ pc["parent"] # "payload"
      /\ status'["parent"] = Signaled(SIGKILL)
      /\ UNCHANGED <<request, cmdVars>>
  BY DEF KillParent, EndProcess, IndInv, TypeOK, ControlOK, Process
<1>2. "parent" \notin ranBy
  BY <1>1, Ends DEF IndInv, Started, Life
<1>3. report = Promise!Pending /\ report' = Promise!Killed
  BY <1>1, <1>2, ReportAlive, ReportKilled DEF cmdVars
<1> QED
  BY <1>1, <1>3 DEF Promise!KillLauncher, Promise!Next, cmdVars

(* The child takes the command with it if it is its init.                  *)
LEMMA ChildDiesSeen ==
  ASSUME IndInv, ChildDies
  PROVE  [Promise!Next]_(Promise!vars)
<1>1. /\ status'["parent"] = status["parent"]
      /\ UNCHANGED <<request, ranBy, box>>
  BY DEF ChildDies, EndProcess, IndInv, TypeOK, ControlOK, Process
<1>2. report' = report
  BY <1>1 DEF report
<1>3. CASE command = "running" /\ command' = "ended" /\ outcome' = Signaled(SIGKILL)
  BY <1>1, <1>2, <1>3, Ends, Finishes DEF Promise!Next
<1>4. CASE UNCHANGED <<command, outcome>>
  BY <1>1, <1>4, Unseen DEF cmdVars
<1> QED
  BY <1>3, <1>4 DEF ChildDies

-----------------------------------------------------------------------------
(* The other steps change nothing but pipes, credentials and the child.    *)
LEMMA OthersUnseen ==
  ASSUME IndInv,
         \/ CloneChild \/ CloseChildEnds \/ WriteStartup \/ CloseStartup \/ ReadSetup
         \/ Boot \/ ReadStartup \/ StartupRead \/ ParsePolicy \/ MountProc
         \/ BringLoopbackUp \/ DropAllCaps \/ ReportReady \/ Enforce("child")
         \/ ReapCommand
  PROVE  UNCHANGED Promise!vars
<1>1. UNCHANGED <<request, cmdVars>>
  BY DEF CloneChild, CloseChildEnds, WriteStartup, CloseStartup, ReadSetup, Boot, ReadStartup,
         StartupRead, ParsePolicy, MountProc, BringLoopbackUp, DropAllCaps, ReportReady,
         Enforce, ReapCommand
<1>2. status'["parent"] = status["parent"]
  <2> USE DEF IndInv, TypeOK, ControlOK, Process
  <2>1. CASE CloneChild \/ CloseChildEnds \/ WriteStartup \/ CloseStartup \/ ReadSetup
             \/ Boot \/ ReadStartup \/ ReportReady
    BY <2>1 DEF CloneChild, CloseChildEnds, WriteStartup, CloseStartup, ReadSetup, Boot,
                ReadStartup, ReportReady, procVars
  <2>2. CASE StartupRead \/ ParsePolicy \/ MountProc \/ BringLoopbackUp
    BY <2>2 DEF StartupRead, ParsePolicy, MountProc, BringLoopbackUp, Exit, EndProcess
  <2>3. CASE DropAllCaps \/ Enforce("child") \/ ReapCommand
    BY <2>3 DEF DropAllCaps, Enforce, ReapCommand, Exit, EndProcess
  <2> QED
    BY <2>1, <2>2, <2>3
<1> QED
  BY <1>1, <1>2, Unseen

(* Launch implements Sandbox: whatever fails and whoever is killed, the    *)
(* command runs at most once and in a permitted box, and the exit code     *)
(* tells what became of it.                                                *)
THEOREM ImplementsSandbox == Spec => Implements
<1>1. Init => Promise!Init
  <2> SUFFICES ASSUME Init PROVE Promise!Init
    OBVIOUS
  <2>1. report = Promise!Pending
    BY ReportAlive DEF Init, Process
  <2> QED
    BY <2>1 DEF Init, Promise!Init, NoBox, Promise!NoBox, NoOutcome, Promise!NoOutcome
<1>2. IndInv /\ IndInv' /\ [Next]_vars => [Promise!Next]_(Promise!vars)
  <2> SUFFICES ASSUME IndInv, IndInv', [Next]_vars PROVE [Promise!Next]_(Promise!vars)
    OBVIOUS
  <2>1. CASE Resolve
    BY <2>1, ResolveSeen
  <2>2. CASE SetupNamespaces \/ PrepareChild \/ StartFails \/ ReapFailedChild \/ Enforce("parent")
    BY <2>2, ParentSeen
  <2>3. CASE WaitChild \/ ExecCommand
    BY <2>3, WaitChildSeen, ExecCommandSeen
  <2>4. CASE ForkCommand
    BY <2>4, ForkCommandSeen
  <2>5. CASE CommandEnds \/ KillParent
    BY <2>5, CommandEndsSeen, KillParentSeen
  <2>6. CASE KillChild \/ ParentDeathSignal
    BY <2>6, ChildDiesSeen DEF KillChild, ParentDeathSignal
  <2>7. CASE UNCHANGED vars
    BY <2>7, Unseen DEF vars, procVars
  <2> QED
    BY <2>1, <2>2, <2>3, <2>4, <2>5, <2>6, <2>7, OthersUnseen
    DEF Next, Parent, Child, Environment
<1> QED
  BY <1>1, <1>2, Inductive, PTL DEF Spec, Implements, Promise!Spec
=============================================================================
