------------------------------- MODULE Launch -------------------------------
(***************************************************************************)
(* How landcage starts a command on Linux.  The launcher ("parent")        *)
(* re-executes itself as a "child" inside new namespaces, hands it the     *)
(* policy over a startup pipe and waits on a setup pipe for "ok".  The     *)
(* child enforces the policy, forks the command and reaps it.  If the      *)
(* child cannot be had, the parent enforces the policy on itself and execs *)
(* the command in its own place -- unless a private network was asked for. *)
(*                                                                         *)
(* Either process can be killed at any step, and each step that makes a    *)
(* system call can fail.  Other signals are the business of Relay.         *)
(***************************************************************************)
EXTENDS Invocation

CONSTANTS
  Thread,        \* the threads of the Go runtime in one process
  StartupSize,   \* size of the startup payload, in blocks
  PipeSize       \* capacity of a pipe, in blocks

(* A process that has not ended.                                           *)
Alive  == [how |-> "alive", n |-> 0]
Absent == [how |-> "absent", n |-> 0]

ASSUME ThreadAssumption     == Thread # {}
ASSUME SizeAssumption       == StartupSize \in Nat \ {0} /\ PipeSize \in Nat \ {0}

Process == {"parent", "child"}

(* The ends of the setup pipe (pr, pw) and of the startup pipe.            *)
PipeEnd   == {"setupR", "setupW", "startupR", "startupW"}
ChildEnds == {"setupW", "startupR"}

VARIABLES
  request,      \* the invocation
  pc,           \* [Process -> Step], the step each process takes next
  status,       \* [Process -> Absent, Alive or how it ended]
  holders,      \* [PipeEnd -> the processes that have it open]
  unsent,       \* blocks of the startup payload still to be written
  piped,        \* blocks in the startup pipe
  received,     \* blocks the child has read
  ready,        \* "ok" is in the setup pipe, or was
  namespaces,   \* the namespaces the child was cloned into
  loopback,     \* lo is up in the child's network namespace
  ownProc,      \* the child's /proc shows its own pid namespace
  plumbingEnv,  \* the _LANDCAGE_ variables are in the child's environment
  capable,      \* [Process -> the threads that hold capabilities]
  domain,       \* [Process -> the threads in the Landlock domain]
  command,      \* "waiting", "running" or "ended"
  ranBy,        \* the processes that started the command
  box,          \* the command's surroundings at its start
  outcome       \* how the command ended

procVars  == <<pc, status>>
pipeVars  == <<holders, unsent, piped, received, ready>>
childVars == <<namespaces, loopback, ownProc, plumbingEnv>>
credVars  == <<capable, domain>>
cmdVars   == <<command, ranBy, box, outcome>>
vars == <<request, procVars, pipeVars, childVars, credVars, cmdVars>>

ParentStep == {"resolve", "setup", "prepare", "start", "closeEnds",
               "writeStartup", "closeStartup", "readSetup", "reap", "wait",
               "enforce", "exec", "payload", "done"}
ChildStep  == {"absent", "boot", "readStartup", "parse", "mountProc",
               "loopback", "dropCaps", "reportReady", "enforce", "fork",
               "reaper", "done"}

-----------------------------------------------------------------------------
(* Helpers.  A definition named ...Bug is not part of the specification:   *)
(* it is a slip in the code that one of the properties below catches.     *)

private(net) == net \in {"none", "isolated"}

(* namespaceAttrs: a private network brings its user namespace along, and  *)
(* mount_proc its mount namespace.                                         *)
CloneFlagsBug(r) == r.unshare \cap {"user", "pid", "cgroup"}
CloneFlags(r) ==
  (r.unshare \cap {"pid", "cgroup"})
    \cup (IF "mount_proc" \in r.unshare THEN {"mount"} ELSE {})
    \cup (IF "user" \in r.unshare \/ private(r.net) THEN {"user"} ELSE {})
    \cup (IF private(r.net) THEN {"net"} ELSE {})

(* Policy.Validate, as far as the launch depends on it.                    *)
Valid(r) == "mount_proc" \in r.unshare => "pid" \in r.unshare

(* setupNamespaces: is a child needed, and may the parent do without it?   *)
NeedsChild(r) == r.unshare # {} \/ private(r.net)

MayFallBack(r) == ~private(r.net)

(* The kernel creates namespaces for whoever has capabilities, or asks for *)
(* a user namespace with them.                                             *)
ClonePermitted(r) == "user" \in CloneFlags(r) \/ r.root

(* ExitError.ExitCode is -1 for a process that a signal ended, and os.Exit *)
(* keeps the low eight bits of that.                                       *)
RelayedBug(ws) == IF ws.how = "exited" THEN ws.n ELSE 0
Relayed(ws)    == IF ws.how = "exited" THEN ws.n ELSE 255

(* The reaper's exit code for the command's wait status, and the statuses  *)
(* it takes for an end.                                                    *)
ReapsBug(ws) == ws.how = "exited"
Reaps(ws)    == ws.how \in {"exited", "signaled"}
ReaperCodeBug(ws) == ws.n
ReaperCode(ws) == IF ws.how = "exited" THEN ws.n ELSE 128 + ws.n

(* The ends forkChild closes in the parent once the child has its own.     *)
ClosedByParentBug == {"startupR"}
ClosedByParent    == ChildEnds

(* The ends it closes when the child could not be started.                 *)
ClosedOnFailureBug == {"setupR", "setupW"}
ClosedOnFailure    == PipeEnd

(* The threads a credential change reaches: allthreads and go-landlock     *)
(* change every thread of the process.                                     *)
AllThreadsBug == {CHOOSE t \in Thread : TRUE}
AllThreads    == Thread

(* namespaceAttrs: the child is to be killed when its parent dies.         *)
PdeathsigBug == FALSE
Pdeathsig    == TRUE

-----------------------------------------------------------------------------
Goto(p, step) == pc' = [pc EXCEPT ![p] = step]

(* Process p ends; the kernel closes the pipe ends it held.                *)
EndProcess(p, ws) ==
  /\ pc' = [pc EXCEPT ![p] = "done"]
  /\ status' = [status EXCEPT ![p] = ws]
  /\ holders' = [e \in PipeEnd |-> holders[e] \ {p}]
  /\ UNCHANGED <<unsent, piped, received, ready>>

Exit(p, code) == EndProcess(p, Exited(code))

(* Process p closes the pipe ends in S.                                    *)
Close(p, S) ==
  holders' = [e \in PipeEnd |-> IF e \in S THEN holders[e] \ {p} ELSE holders[e]]

(* The namespaces are not to be had: go on without them, or refuse.        *)
FallBack ==
  IF MayFallBack(request)
  THEN /\ Goto("parent", "enforce")
       /\ Close("parent", ClosedOnFailure)
       /\ UNCHANGED <<status, unsent, piped, received, ready>>
  ELSE Exit("parent", 1)

(* The command starts from thread t of process p.  The parent's exec drops *)
(* the pipe ends, all close-on-exec; the child's two are not, and          *)
(* inheritFDs hands on whatever is still open.                             *)
StartCommand(p, t) ==
  /\ command' = "running"
  /\ ranBy' = ranBy \cup {p}
  /\ box' = [landlocked |-> t \in domain[p],
             capable    |-> t \in capable[p],
             namespaces |-> IF p = "child" THEN namespaces ELSE {},
             loopback   |-> p = "child" /\ loopback,
             ownProc    |-> p = "child" /\ ownProc,
             plumbing   |-> /\ p = "child"
                            /\ \/ plumbingEnv
                               \/ \E e \in PipeEnd : "child" \in holders[e]]
  /\ UNCHANGED outcome

-----------------------------------------------------------------------------
Init ==
  /\ request \in Requests
  /\ pc = [p \in Process |-> IF p = "parent" THEN "resolve" ELSE "absent"]
  /\ status = [p \in Process |-> IF p = "parent" THEN Alive ELSE Absent]
  /\ holders = [e \in PipeEnd |-> {}]
  /\ unsent = StartupSize /\ piped = 0 /\ received = 0
  /\ ready = FALSE
  /\ namespaces = {}
  /\ loopback = FALSE /\ ownProc = FALSE /\ plumbingEnv = FALSE
  /\ capable = [p \in Process |-> IF p = "parent" /\ request.root THEN Thread ELSE {}]
  /\ domain = [p \in Process |-> {}]
  /\ command = "waiting"
  /\ ranBy = {}
  /\ box = NoBox
  /\ outcome = NoOutcome

-----------------------------------------------------------------------------
(* The parent.                                                             *)

(* Whether system calls may fail and processes be killed.                  *)
Faults == request.faults

(* main up to setupNamespaces: flags, policy, payload environment and the  *)
(* command's path; --dry-run and --expand end here.  An empty --ro or --rw *)
(* path passes, since it is appended after the policy was validated.       *)
Resolve ==
  /\ pc["parent"] = "resolve"
  /\ \/ /\ request.mode = "run" /\ Valid(request)
        /\ Goto("parent", "setup")
        /\ UNCHANGED <<status, pipeVars>>
     \/ request.mode # "run" /\ Valid(request) /\ Exit("parent", 0)
     \/ /\ Faults \/ ~Valid(request)
        /\ \E code \in {1, 2} : Exit("parent", code)
     \/ /\ Faults /\ request.mode = "run" /\ Valid(request)
        /\ Exit("parent", 127)
  /\ UNCHANGED <<request, childVars, credVars, cmdVars>>

SetupNamespaces ==
  /\ pc["parent"] = "setup"
  /\ Goto("parent", IF NeedsChild(request) THEN "prepare" ELSE "enforce")
  /\ UNCHANGED <<request, status, pipeVars, childVars, credVars, cmdVars>>

(* forkChild up to Start: resolving itself, serialising, both pipes.       *)
PrepareChild ==
  /\ pc["parent"] = "prepare"
  /\ \/ /\ Goto("parent", "start")
        /\ holders' = [e \in PipeEnd |-> {"parent"}]
        /\ UNCHANGED <<status, unsent, piped, received, ready>>
     \/ Faults /\ Exit("parent", 1)
  /\ UNCHANGED <<request, childVars, credVars, cmdVars>>

(* child.Start: the clone and the exec of the child succeed ...            *)
CloneChild ==
  /\ pc["parent"] = "start"
  /\ ClonePermitted(request)
  /\ pc' = [pc EXCEPT !["parent"] = "closeEnds", !["child"] = "boot"]
  /\ status' = [status EXCEPT !["child"] = Alive]
  /\ holders' = [e \in PipeEnd |-> IF e \in ChildEnds THEN Process ELSE {"parent"}]
  /\ namespaces' = CloneFlags(request)
  /\ plumbingEnv' = TRUE
  /\ capable' = [capable EXCEPT !["child"] =
                   IF "user" \in CloneFlags(request) THEN Thread ELSE capable["parent"]]
  /\ UNCHANGED <<request, unsent, piped, received, ready, loopback, ownProc,
                 domain, cmdVars>>

(* ... or fail, with an errno that isNamespaceError knows or another.      *)
StartFails ==
  /\ pc["parent"] = "start"
  /\ \/ (Faults \/ ~ClonePermitted(request)) /\ FallBack
     \/ Faults /\ Exit("parent", 1)
  /\ UNCHANGED <<request, childVars, credVars, cmdVars>>

CloseChildEnds ==
  /\ pc["parent"] = "closeEnds"
  /\ Close("parent", ClosedByParent)
  /\ Goto("parent", "writeStartup")
  /\ UNCHANGED <<request, status, unsent, piped, received, ready, childVars,
                 credVars, cmdVars>>

Fits(n) == piped + n <= PipeSize

(* The write blocks while the pipe is full; without a reader it fails, and *)
(* the error is ignored.                                                   *)
WriteStartup ==
  /\ pc["parent"] = "writeStartup"
  /\ IF holders["startupR"] = {} \/ unsent = 0
     THEN Goto("parent", "closeStartup") /\ UNCHANGED <<unsent, piped>>
     ELSE /\ \E n \in 1..unsent :
               /\ Fits(n)
               /\ piped' = piped + n
               /\ unsent' = unsent - n
          /\ UNCHANGED pc
  /\ UNCHANGED <<request, status, holders, received, ready, childVars,
                 credVars, cmdVars>>

CloseStartup ==
  /\ pc["parent"] = "closeStartup"
  /\ Close("parent", {"startupW"})
  /\ Goto("parent", "readSetup")
  /\ UNCHANGED <<request, status, unsent, piped, received, ready, childVars,
                 credVars, cmdVars>>

(* The read of the setup pipe returns with "ok", or with end of file once  *)
(* nobody holds the write end any more.                                    *)
ReadSetup ==
  /\ pc["parent"] = "readSetup"
  /\ ready \/ holders["setupW"] = {}
  /\ Goto("parent", IF ready THEN "wait" ELSE "reap")
  /\ Close("parent", {"setupR"})
  /\ UNCHANGED <<request, status, unsent, piped, received, ready, childVars,
                 credVars, cmdVars>>

(* child.Wait returns once the child has ended.                            *)
WaitReturnsBug == TRUE
WaitReturns    == status["child"] \in Ended

(* No "ok": wait for the child and fall back.                              *)
ReapFailedChild ==
  /\ pc["parent"] = "reap"
  /\ WaitReturns
  /\ FallBack
  /\ UNCHANGED <<request, childVars, credVars, cmdVars>>

(* "ok": wait for the child and exit as it did.                            *)
WaitChild ==
  /\ pc["parent"] = "wait"
  /\ WaitReturns
  /\ Exit("parent", Relayed(status["child"]))
  /\ UNCHANGED <<request, childVars, credVars, cmdVars>>

(* runSandboxed in the parent: the command takes over its process.  The    *)
(* main goroutine may be on any thread.                                    *)
ExecCommand ==
  /\ pc["parent"] = "exec"
  /\ \/ /\ \E t \in Thread : StartCommand("parent", t)
        /\ Goto("parent", "payload")
        /\ UNCHANGED <<status, pipeVars>>
     \/ Faults /\ Exit("parent", 126) /\ UNCHANGED cmdVars
  /\ UNCHANGED <<request, childVars, credVars>>

-----------------------------------------------------------------------------
(* The child.                                                              *)

(* childMain takes the pipe fds and removes its plumbing variables.        *)
Boot ==
  /\ pc["child"] = "boot"
  /\ plumbingEnv' = FALSE
  /\ Goto("child", "readStartup")
  /\ UNCHANGED <<request, status, pipeVars, namespaces, loopback, ownProc,
                 credVars, cmdVars>>

(* readChildStartup reads until end of file, then closes its end.  A       *)
(* payload cut short does not decode.                                      *)
ReadStartup ==
  /\ pc["child"] = "readStartup"
  /\ piped > 0
  /\ \E n \in 1..piped : piped' = piped - n /\ received' = received + n
  /\ UNCHANGED <<request, procVars, holders, unsent, ready, childVars,
                 credVars, cmdVars>>

StartupRead ==
  /\ pc["child"] = "readStartup"
  /\ piped = 0 /\ holders["startupW"] = {}
  /\ IF received = StartupSize
     THEN /\ Goto("child", "parse")
          /\ Close("child", {"startupR"})
          /\ UNCHANGED <<status, unsent, piped, received, ready>>
     ELSE Exit("child", 1)
  /\ UNCHANGED <<request, childVars, credVars, cmdVars>>

(* policy.Parse validates again, and now sees the rules of --ro and --rw.  *)
ParsePolicy ==
  /\ pc["child"] = "parse"
  /\ IF request.emptyPath
     THEN Exit("child", 1)
     ELSE Goto("child", "mountProc") /\ UNCHANGED <<status, pipeVars>>
  /\ UNCHANGED <<request, childVars, credVars, cmdVars>>

MountProc ==
  /\ pc["child"] = "mountProc"
  /\ \/ /\ Goto("child", "loopback")
        /\ ownProc' = ("mount_proc" \in request.unshare)
        /\ ownProc' => capable["child"] # {}
        /\ UNCHANGED <<status, pipeVars>>
     \/ /\ Faults /\ "mount_proc" \in request.unshare
        /\ Exit("child", 1)
        /\ UNCHANGED ownProc
  /\ UNCHANGED <<request, namespaces, loopback, plumbingEnv, credVars, cmdVars>>

BringLoopbackUp ==
  /\ pc["child"] = "loopback"
  /\ \/ /\ Goto("child", "dropCaps")
        /\ loopback' = (request.net = "isolated")
        /\ loopback' => capable["child"] # {}
        /\ UNCHANGED <<status, pipeVars>>
     \/ /\ Faults /\ request.net = "isolated"
        /\ Exit("child", 1)
        /\ UNCHANGED loopback
  /\ UNCHANGED <<request, namespaces, ownProc, plumbingEnv, credVars, cmdVars>>

DropAllCaps ==
  /\ pc["child"] = "dropCaps"
  /\ \/ /\ capable' = [capable EXCEPT !["child"] = @ \ AllThreads]
        /\ Goto("child", "reportReady")
        /\ UNCHANGED <<status, pipeVars>>
     \/ Faults /\ Exit("child", 1) /\ UNCHANGED capable
  /\ UNCHANGED <<request, childVars, domain, cmdVars>>

(* The two bytes reach the pipe unless its reader is gone.                 *)
OkWrittenBug == FALSE
OkWritten    == holders["setupR"] # {}

(* Report "ok" on the setup pipe and close it.                             *)
ReportReady ==
  /\ pc["child"] = "reportReady"
  /\ ready' = OkWritten
  /\ Close("child", {"setupW"})
  /\ Goto("child", "enforce")
  /\ UNCHANGED <<request, status, unsent, piped, received, childVars,
                 credVars, cmdVars>>

(* reaperExec: fork the command, from the goroutine's locked thread.       *)
ForkCommand ==
  /\ pc["child"] = "fork"
  /\ \/ /\ \E t \in Thread : StartCommand("child", t)
        /\ Goto("child", "reaper")
        /\ UNCHANGED <<status, pipeVars>>
     \/ /\ Faults
        /\ \E code \in {126, 127} : Exit("child", code)
        /\ UNCHANGED cmdVars
  /\ UNCHANGED <<request, childVars, credVars>>

(* reaperExec: the command is reaped, and the child exits with its code.   *)
ReapCommand ==
  /\ pc["child"] = "reaper"
  /\ command = "ended" /\ Reaps(outcome)
  /\ Exit("child", ReaperCode(outcome))
  /\ UNCHANGED <<request, childVars, credVars, cmdVars>>

(* policy.Enforce in process p, as Landlock models it: all of its threads  *)
(* enter the domain, or the process exits.                                 *)
Enforce(p) ==
  /\ pc[p] = "enforce"
  /\ \/ /\ domain' = [domain EXCEPT ![p] = @ \cup AllThreads]
        /\ Goto(p, IF p = "child" THEN "fork" ELSE "exec")
        /\ UNCHANGED <<status, pipeVars>>
     \/ Faults /\ Exit(p, 1) /\ UNCHANGED domain
  /\ UNCHANGED <<request, childVars, capable, cmdVars>>

-----------------------------------------------------------------------------
(* The world around them.                                                  *)

(* The command ends.  In the parent's place it takes the launcher with it. *)
CommandEnds ==
  /\ command = "running"
  /\ command' = "ended"
  /\ outcome' \in PayloadEnd
  /\ IF "parent" \in ranBy
     THEN EndProcess("parent", outcome')
     ELSE UNCHANGED <<procVars, pipeVars>>
  /\ UNCHANGED <<request, childVars, credVars, ranBy, box>>

KillParent ==
  /\ Faults
  /\ status["parent"] = Alive /\ pc["parent"] # "payload"
  /\ EndProcess("parent", Signaled(SIGKILL))
  /\ UNCHANGED <<request, childVars, credVars, cmdVars>>

(* The child dies; as the init of a pid namespace it takes the command     *)
(* with it.                                                                *)
ChildDies ==
  /\ status["child"] = Alive
  /\ EndProcess("child", Signaled(SIGKILL))
  /\ IF command = "running" /\ "pid" \in namespaces
     THEN command' = "ended" /\ outcome' = Signaled(SIGKILL)
     ELSE UNCHANGED <<command, outcome>>
  /\ UNCHANGED <<request, childVars, credVars, ranBy, box>>

KillChild == Faults /\ ChildDies

(* PDEATHSIG: the child is killed some time after its parent.              *)
ParentDeathSignal == Pdeathsig /\ status["parent"] \in Ended /\ ChildDies

-----------------------------------------------------------------------------
Parent ==
  \/ Resolve \/ SetupNamespaces \/ PrepareChild \/ CloneChild \/ StartFails
  \/ CloseChildEnds \/ WriteStartup \/ CloseStartup \/ ReadSetup
  \/ ReapFailedChild \/ WaitChild \/ Enforce("parent") \/ ExecCommand

Child ==
  \/ Boot \/ ReadStartup \/ StartupRead \/ ParsePolicy \/ MountProc
  \/ BringLoopbackUp \/ DropAllCaps \/ ReportReady \/ Enforce("child")
  \/ ForkCommand \/ ReapCommand

Environment == CommandEnds \/ KillParent \/ KillChild \/ ParentDeathSignal

Next == Parent \/ Child \/ Environment

Spec == Init /\ [][Next]_vars

(* The scheduler runs both processes and delivers PDEATHSIG.  Nothing says *)
(* that a command ends, that a call fails or that anyone is killed.        *)
FairSpec == Spec /\ WF_vars(Parent) /\ WF_vars(Child) /\ WF_vars(ParentDeathSignal)

-----------------------------------------------------------------------------
ControlOK ==
  /\ pc \in [Process -> ParentStep \cup ChildStep]
  /\ pc["parent"] \in ParentStep /\ pc["child"] \in ChildStep
  /\ status \in [Process -> Ended \cup {Alive, Absent}]

PipesOK ==
  /\ holders \in [PipeEnd -> SUBSET Process]
  /\ unsent \in 0..StartupSize /\ piped \in 0..PipeSize
  /\ received \in 0..StartupSize
  /\ unsent + piped + received = StartupSize
  /\ ready \in BOOLEAN

WorldOK ==
  /\ namespaces \subseteq Namespace
  /\ loopback \in BOOLEAN /\ ownProc \in BOOLEAN /\ plumbingEnv \in BOOLEAN
  /\ capable \in [Process -> SUBSET Thread]
  /\ domain \in [Process -> SUBSET Thread]

CommandOK ==
  /\ command \in {"waiting", "running", "ended"}
  /\ ranBy \subseteq Process
  /\ box \in Box
  /\ outcome \in PayloadEnd \cup {Signaled(SIGKILL), NoOutcome}

(* Type correctness: every variable stays in its range, and the blocks of  *)
(* the startup payload are neither lost nor duplicated.                    *)
TypeOK == request \in Requests /\ ControlOK /\ PipesOK /\ WorldOK /\ CommandOK

(* What the caller of landcage has learnt, in the words of Sandbox.        *)
report ==
  IF status["parent"] \notin Ended THEN -1
  ELSE IF status["parent"].how = "signaled" /\ "parent" \notin ranBy THEN -2
  ELSE ShellCode(status["parent"])

Promise == INSTANCE Sandbox WITH
  Requests <- Requests, PayloadEnd <- PayloadEnd, request <- request,
  command <- command, box <- box, outcome <- outcome, report <- report

(* Whoever started the command, parent or child, and after whichever       *)
(* failures: the command got a box its request permits.  It is in the      *)
(* Landlock domain, holds no capability it did not bring, has all of the   *)
(* namespaces or (host network only) none, and inherited no plumbing.      *)
Confined == command # "waiting" => Promise!Permitted(request, box)

(* The command is never started both by the child and by the fallback.     *)
AtMostOnce == ranBy # Process

(* The parent runs the command itself only when nothing of the attempt     *)
(* with namespaces is left: the child is gone, it never reported ready,    *)
(* and no pipe end is open anywhere.                                       *)
CleanFallback ==
  "parent" \in ranBy =>
    /\ status["child"] # Alive
    /\ ~ready
    /\ \A e \in PipeEnd : holders[e] = {}

(* A launcher that exits by itself leaves no child behind.                 *)
NoChildLeftBehind ==
  status["parent"].how = "exited" => status["child"] # Alive

(* Exit code 0 of a launch means that the command ran and exited with 0.   *)
NoFalseSuccess ==
  status["parent"] = Exited(0) /\ request.mode = "run"
    => command = "ended" /\ outcome = Exited(0)

(* If no call fails and nobody is killed, a command whose namespaces the   *)
(* kernel grants runs in them: an ignored empty path (documented as        *)
(* treated as missing) makes no difference to that.                        *)
NamespacesIfGranted ==
  ~Faults /\ command # "waiting" /\ ClonePermitted(request)
    => box.namespaces = Promise!Asked(request)

(* The handshake never hangs: every launch ends or gets the command going. *)
Settles == <>(status["parent"] \in Ended \/ command # "waiting")

(* When the command has ended, the launcher ends too.                      *)
EndIsReported == command = "ended" ~> status["parent"] \in Ended

(* A command with its own pid namespace does not outlive the launcher.     *)
NoOrphan ==
  report = Promise!Killed /\ command = "running" /\ "pid" \in box.namespaces
    ~> command = "ended"

(* Launch implements Sandbox: the exit code in particular tells the same   *)
(* story whether the command was exec'd in place or relayed by the child.  *)
Implements == Promise!Spec

-----------------------------------------------------------------------------
(* An inductive invariant: what both processes may rely on at each step.   *)

ChildSetup == {"boot", "readStartup", "parse", "mountProc", "loopback",
               "dropCaps", "reportReady"}
ChildAfter == {"enforce", "fork", "reaper"}
ChildGone  == {"absent", "done"}

(* A process and its program counter agree.  A launcher that exits by      *)
(* itself has seen its child end.                                          *)
Life ==
  /\ \/ pc["parent"] = "done" /\ status["parent"] \in Ended
     \/ pc["parent"] # "done" /\ status["parent"] = Alive
  /\ \/ pc["child"] = "absent" /\ status["child"] = Absent
     \/ pc["child"] = "done" /\ status["child"] \in Ended
     \/ pc["child"] \in ChildSetup \cup ChildAfter /\ status["child"] = Alive
  /\ status["parent"].how = "exited" => pc["child"] \in ChildGone

(* Who may hold the pipe ends, and what that says to the other side.       *)
Holding ==
  /\ pc["child"] \in ChildGone => \A e \in PipeEnd : "child" \notin holders[e]
  /\ pc["parent"] \in {"resolve", "setup", "prepare", "enforce", "exec",
                       "payload", "done"}
       => \A e \in PipeEnd : "parent" \notin holders[e]
  /\ pc["parent"] \in {"start", "closeEnds", "writeStartup", "closeStartup",
                       "readSetup"}
       => "parent" \in holders["setupR"]
  /\ pc["child"] \in ChildSetup => "child" \in holders["setupW"]
  /\ "child" \notin holders["setupR"] /\ "child" \notin holders["startupW"]
  /\ pc["child"] \in (ChildSetup \ {"boot", "readStartup"}) \cup ChildAfter
       => "child" \notin holders["startupR"]
  /\ pc["child"] \in ChildAfter => "child" \notin holders["setupW"]

(* The "ok" decides who runs the command: with it only the child may, and  *)
(* without it the child gets that far only if the parent is dead.          *)
Handshake ==
  /\ pc["parent"] \in {"resolve", "setup", "prepare", "start"}
       => pc["child"] = "absent"
  /\ pc["child"] \in ChildSetup \cup {"absent"} => ~ready
  /\ pc["parent"] = "wait" => ready
  /\ pc["parent"] \in {"reap", "enforce", "exec", "payload"}
       => ~ready /\ pc["child"] \in ChildGone
  /\ ~ready /\ (pc["child"] \in ChildAfter \/ "child" \in ranBy)
       => pc["parent"] = "done"

(* Who started the command, and how far it must have come for that.        *)
Started ==
  /\ command = "waiting" <=> ranBy = {}
  /\ "child" \in ranBy => pc["child"] \in {"reaper", "done"}
  /\ "parent" \in ranBy =>
       /\ pc["parent"] \in {"payload", "done"}
       /\ pc["child"] \in ChildGone
       /\ ~ready
       /\ "child" \notin ranBy

(* The parts of the box are in place before the command starts.            *)
Boxing ==
  /\ capable["parent"] = IF request.root THEN Thread ELSE {}
  /\ pc["child"] \in {"reportReady", "enforce", "fork"} => capable["child"] = {}
  /\ pc["child"] = "fork" => domain["child"] = Thread
  /\ pc["parent"] = "exec" => domain["parent"] = Thread
  /\ pc["parent"] \in {"enforce", "exec"} => ~private(request.net)
  /\ pc["child"] # "absent" => namespaces = CloneFlags(request)
  /\ pc["child"] \in (ChildSetup \ {"boot"}) \cup ChildAfter => ~plumbingEnv
  /\ pc["child"] \in {"loopback", "dropCaps", "reportReady"} \cup ChildAfter
       => (ownProc <=> "mount_proc" \in request.unshare)
  /\ pc["child"] \in {"dropCaps", "reportReady"} \cup ChildAfter
       => (loopback <=> request.net = "isolated")
  /\ ranBy # {} => Promise!Permitted(request, box)

(* The child's exit code tells of the command whatever it tells at all.    *)
Verdict ==
  /\ status["child"] = Exited(0) => command = "ended" /\ outcome = Exited(0)
  /\ status["parent"] = Exited(0) /\ request.mode = "run"
       => command = "ended" /\ outcome = Exited(0)

(* Only an invocation that is to run something gets past its resolution;   *)
(* a child that exits by itself does so with the command's code, or with   *)
(* some other than 0 before it started a command; and a command in the     *)
(* launcher's place runs until the launcher is done.                       *)
Tells ==
  /\ pc["parent"] \notin {"resolve", "done"} => request.mode = "run"
  /\ pc["child"] # "absent" => request.mode = "run"
  /\ status["child"] \in Ended /\ status["child"].how = "exited" =>
       \/ "child" \notin ranBy /\ status["child"].n # 0
       \/ command = "ended" /\ status["child"].n = ShellCode(outcome)
  /\ pc["parent"] = "payload" => "parent" \in ranBy
  /\ "parent" \in ranBy =>
       \/ pc["parent"] = "payload" /\ command = "running"
       \/ pc["parent"] = "done" /\ command = "ended"
  /\ command = "ended" => outcome \in PayloadEnd \cup {Signaled(SIGKILL)}

(* If nothing goes wrong and the kernel grants the namespaces, the child   *)
(* never gives up: it reads the whole payload and finds the parent reading *)
(* the setup pipe; the parent goes on without a child only if none is      *)
(* needed.                                                                 *)
Unhindered == ~Faults /\ ~request.emptyPath /\ ClonePermitted(request)

OnTrack ==
  /\ pc["parent"] # "reap"
  /\ pc["parent"] \in {"enforce", "exec", "payload"} \/ "parent" \in ranBy
       => ~NeedsChild(request)
  /\ pc["parent"] = "done" => pc["child"] \in ChildGone
  /\ pc["child"] \in ChildAfter \cup {"done"} => ready
  /\ pc["parent"] \in {"closeEnds", "writeStartup", "closeStartup", "readSetup"}
       => pc["child"] # "absent"
  /\ pc["child"] \in {"boot", "readStartup"} =>
       /\ "child" \in holders["startupR"]
       /\ pc["parent"] \in {"closeStartup", "readSetup"} => unsent = 0
  /\ pc["parent"] \in {"closeEnds", "writeStartup", "closeStartup"}
       => "parent" \in holders["startupW"]
  /\ command # "waiting" => box.namespaces = Promise!Asked(request)

Undisturbed == Unhindered => OnTrack

(* The inductive invariant behind Confined, AtMostOnce, CleanFallback,     *)
(* NoChildLeftBehind, NoFalseSuccess, NamespacesIfGranted and the          *)
(* refinement of Sandbox: the steps of the handshake, seen from both sides *)
(* of its two pipes.                                                       *)
IndInv ==
  /\ TypeOK /\ Life /\ Holding /\ Handshake /\ Started /\ Boxing /\ Verdict
  /\ Tells /\ Undisturbed
=============================================================================
