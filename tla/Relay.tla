------------------------------- MODULE Relay -------------------------------
(***************************************************************************)
(* Signals around a launch.  From just before it starts the child until it *)
(* ends, the launcher collects seven signals in a Go channel and, once the *)
(* child has reported "ok", forwards them to it.  The child (the reaper)   *)
(* collects the same signals and SIGCHLD in a channel of its own, forwards *)
(* the seven to the command and reaps on SIGCHLD.  A Go channel given to   *)
(* signal.Notify drops what does not fit, and a pending signal swallows    *)
(* another of its kind.                                                    *)
(*                                                                         *)
(* The launch itself is reduced to its phases; Launch has the details.     *)
(* SIGKILL is the business of Launch, too.                                 *)
(***************************************************************************)
EXTENDS Naturals, Sequences, FiniteSets

CONSTANTS
  Signal,      \* the forwarded signals considered
  QueueSize,   \* capacity of each channel: 16 in the code
  MaxSent,     \* bound: copies of signals sent from outside
  MaxOrphans   \* bound: orphans that end in the command's pid namespace

Forwarded == {"TERM", "INT", "HUP", "QUIT", "WINCH", "USR1", "USR2"}

ASSUME SignalAssumption == Signal \subseteq Forwarded
ASSUME RelayAssumption  == QueueSize \in Nat \ {0} /\ MaxSent \in Nat /\ MaxOrphans \in Nat

(* What the Go runtime does to a process with a signal nobody subscribed   *)
(* to: these end it, the others it ignores.                                *)
Fatal == {"TERM", "INT", "HUP", "QUIT"}

Process  == {"launcher", "child", "command"}
Notifier == {"launcher", "child"}

VARIABLES
  pidns,      \* the command has a pid namespace of its own
  private,    \* a private network was asked for: no fallback
  launcher,   \* the phase of the launcher
  child,      \* the phase of the child
  ok,         \* "ok" is in the setup pipe
  command,    \* "none", "running", "zombie" or "reaped"
  orphans,    \* ended orphans the child has not reaped
  adopted,    \* orphans that ended so far
  pending,    \* [Process -> the signals on their way to it]
  queue,      \* [Notifier -> the contents of its channel]
  sent,       \* [Signal -> copies sent from outside so far]
  total,      \* their sum
  got,        \* [Signal -> copies the command was given]
  stray       \* a signal went to the command's pid after it was reaped

launch == <<pidns, private>>
phases == <<launcher, child, ok, command>>
ended  == <<orphans, adopted>>
counts == <<sent, total, got, stray>>
vars == <<launch, phases, ended, pending, queue, counts>>

LauncherPhase == {"boot", "starting", "handshake", "relay", "fallback",
                  "payload", "done"}
ChildPhase    == {"absent", "setup", "ready", "fork", "loop", "reap", "done"}

-----------------------------------------------------------------------------
(* Helpers, and after each ...Bug the definition it spoils.                *)

(* signal.Notify is in force.                                              *)
SubscribedBug(p) ==
  IF p = "launcher" THEN launcher \in {"starting", "handshake", "relay"}
  ELSE child \in {"loop", "reap"}
Subscribed(p) ==
  IF p = "launcher" THEN launcher \in {"starting", "handshake", "relay"}
  ELSE child \in {"fork", "loop", "reap"}

Alive(p) ==
  CASE p = "launcher" -> launcher \notin {"payload", "done"}
    [] p = "child"    -> child \notin {"absent", "done"}
    [] p = "command"  -> command = "running"

(* The non-blocking send of os/signal.                                     *)
Offer(q, s) == IF Len(q) < QueueSize THEN Append(q, s) ELSE q

(* The receive of a forwarding loop takes the signal out of the channel.   *)
RestBug(q) == q
Rest(q)    == Tail(q)

(* What the reaper does with a signal it received from its channel: go     *)
(* reaping or kill the command.                                            *)
KillsBug(s) == FALSE
Kills(s)    == s # "CHLD"

(* wait4 has reaped one of n processes that have ended: it returns 0 when  *)
(* there is none, and that is no process.                                  *)
ReapedBug(n) == n >= 0
Reaped(n)    == n > 0

(* Where the reaper goes when it has reaped an orphan, and the command.    *)
AfterOrphanBug == "loop"
AfterOrphan    == "reap"
AfterCommandBug == "reap"
AfterCommand    == "done"

Deliver(S, s) == pending' = [p \in Process |-> IF p \in S THEN pending[p] \cup {s}
                                               ELSE pending[p]]

-----------------------------------------------------------------------------
Init ==
  /\ pidns \in BOOLEAN /\ private \in BOOLEAN
  /\ launcher = "boot" /\ child = "absent" /\ command = "none"
  /\ ok = FALSE
  /\ orphans = 0 /\ adopted = 0
  /\ pending = [p \in Process |-> {}]
  /\ queue = [p \in Notifier |-> <<>>]
  /\ sent = [s \in Signal |-> 0] /\ total = 0 /\ got = [s \in Signal |-> 0]
  /\ stray = FALSE

-----------------------------------------------------------------------------
(* The launcher: forkChild.                                                *)

Subscribe ==
  /\ launcher = "boot"
  /\ launcher' = "starting"
  /\ UNCHANGED <<launch, child, ok, command, ended, pending, queue, counts>>

(* The namespaces are not to be had.  signal.Stop gives the signals their  *)
(* default meaning back; what is in the channel is never looked at.        *)
Unavailable ==
  /\ launcher' = IF private THEN "done" ELSE "fallback"
  /\ queue' = [queue EXCEPT !["launcher"] = <<>>]

StartChild ==
  /\ launcher = "starting"
  /\ \/ launcher' = "handshake" /\ child' = "setup" /\ UNCHANGED queue
     \/ Unavailable /\ UNCHANGED child
     \/ launcher' = "done" /\ UNCHANGED <<child, queue>>
  /\ UNCHANGED <<launch, ok, command, ended, pending, counts>>

ReadSetup ==
  /\ launcher = "handshake"
  /\ \/ ok /\ launcher' = "relay" /\ UNCHANGED queue
     \/ ~ok /\ child = "done" /\ Unavailable
  /\ UNCHANGED <<launch, child, ok, command, ended, pending, counts>>

(* The forwarding goroutine.                                               *)
ForwardToChild ==
  /\ launcher = "relay" /\ queue["launcher"] # <<>>
  /\ Deliver({"child"} \cap {p \in Process : Alive(p)}, Head(queue["launcher"]))
  /\ queue' = [queue EXCEPT !["launcher"] = Rest(@)]
  /\ UNCHANGED <<launch, phases, ended, counts>>

WaitChild ==
  /\ launcher = "relay" /\ child = "done"
  /\ launcher' = "done"
  /\ UNCHANGED <<launch, child, ok, command, ended, pending, queue, counts>>

(* runSandboxed without a child: the command replaces the launcher and     *)
(* inherits what is still pending.                                         *)
ExecCommand ==
  /\ launcher = "fallback"
  /\ \/ launcher' = "payload" /\ command' = "running"
     \/ launcher' = "done" /\ UNCHANGED command
  /\ pending' = [pending EXCEPT !["command"] = pending["launcher"],
                                !["launcher"] = {}]
  /\ UNCHANGED <<launch, child, ok, ended, queue, counts>>

-----------------------------------------------------------------------------
(* The child: childMain and reaperExec.                                    *)

ReportReady ==
  /\ child = "setup"
  /\ \/ child' = "ready" /\ ok' = TRUE
     \/ child' = "done" /\ UNCHANGED ok
  /\ UNCHANGED <<launch, launcher, command, ended, pending, queue, counts>>

(* Enforcement, then signal.Notify.                                        *)
SubscribeReaper ==
  /\ child = "ready"
  /\ child' \in {"fork", "done"}
  /\ UNCHANGED <<launch, launcher, ok, command, ended, pending, queue, counts>>

(* ForkExec: the command may run, and end, before the call returns.        *)
ForkCommand ==
  /\ child = "fork"
  /\ \/ command = "none" /\ command' = "running" /\ UNCHANGED child
     \/ command = "none" /\ child' = "done" /\ UNCHANGED command
     \/ command # "none" /\ child' = "loop" /\ UNCHANGED command
  /\ UNCHANGED <<launch, launcher, ok, ended, pending, queue, counts>>

(* One round of the reaper's loop.  A zombie does not notice a kill.       *)
ReceiveSignal ==
  /\ child = "loop" /\ queue["child"] # <<>>
  /\ LET s == Head(queue["child"]) IN
       /\ IF s = "CHLD" THEN child' = "reap" ELSE UNCHANGED child
       /\ IF Kills(s) THEN Deliver({p \in {"command"} : Alive(p)}, s) ELSE UNCHANGED pending
       /\ stray' = (stray \/ (Kills(s) /\ command = "reaped"))
  /\ queue' = [queue EXCEPT !["child"] = Rest(@)]
  /\ UNCHANGED <<launch, launcher, ok, command, ended, sent, total, got>>

(* wait4(-1, WNOHANG): an orphan, the command, or nobody to be reaped.     *)
Wait4 ==
  /\ child = "reap"
  /\ \/ /\ Reaped(orphans)
        /\ orphans' = orphans - 1
        /\ child' = AfterOrphan
        /\ UNCHANGED command
     \/ /\ command = "zombie"
        /\ command' = "reaped"
        /\ child' = AfterCommand
        /\ UNCHANGED orphans
     \/ /\ ~Reaped(orphans) /\ command # "zombie"
        /\ child' = "loop"
        /\ UNCHANGED <<command, orphans>>
  /\ UNCHANGED <<launch, launcher, ok, adopted, pending, queue, counts>>

-----------------------------------------------------------------------------
(* The world around them.                                                  *)

(* kill(2) of the launcher's pid or, from the terminal, of the process     *)
(* group.                                                                  *)
Reached(S) == { p \in S : Alive(p) } \cup
              (IF launcher = "payload" /\ Alive("command") THEN {"command"} ELSE {})

Send(s) ==
  \E S \in {{"launcher"}, Process} :
    /\ Reached(S) # {}
    /\ total' = total + Cardinality(Reached(S)) /\ total' <= MaxSent
    /\ Deliver(Reached(S), s)
    /\ sent' = [sent EXCEPT ![s] = @ + Cardinality(Reached(S))]
    /\ UNCHANGED <<launch, phases, ended, queue, got, stray>>

(* A pending signal takes effect: it goes into the channel or, without a   *)
(* subscription, does what the Go runtime makes of it.                     *)
TakeSignal(p, s) ==
  /\ Alive(p) /\ s \in pending[p]
  /\ pending' = [pending EXCEPT ![p] = @ \ {s}]
  /\ queue' = IF Subscribed(p) THEN [queue EXCEPT ![p] = Offer(@, s)] ELSE queue
  /\ launcher' = IF p = "launcher" /\ ~Subscribed(p) /\ s \in Fatal
                 THEN "done" ELSE launcher
  /\ child' = IF p = "child" /\ ~Subscribed(p) /\ s \in Fatal THEN "done" ELSE child
  /\ UNCHANGED <<launch, ok, command, ended, counts>>

(* What the command makes of a signal is its own affair.                   *)
CommandTakesSignal(s) ==
  /\ command = "running" /\ s \in pending["command"]
  /\ pending' = [pending EXCEPT !["command"] = @ \ {s}]
  /\ got' = [got EXCEPT ![s] = @ + 1]
  /\ UNCHANGED <<launch, phases, ended, queue, sent, total, stray>>

CommandEnds ==
  /\ command = "running"
  /\ IF launcher = "payload"
     THEN launcher' = "done" /\ command' = "reaped" /\ UNCHANGED pending
     ELSE command' = "zombie" /\ Deliver({"child"}, "CHLD") /\ UNCHANGED launcher
  /\ UNCHANGED <<launch, child, ok, ended, queue, counts>>

(* A descendant of the command, left to the init of its pid namespace,     *)
(* ends.                                                                   *)
OrphanEnds ==
  /\ pidns /\ Alive("child") /\ command \in {"running", "zombie"}
  /\ adopted < MaxOrphans
  /\ adopted' = adopted + 1 /\ orphans' = orphans + 1
  /\ Deliver({"child"}, "CHLD")
  /\ UNCHANGED <<launch, phases, queue, counts>>

-----------------------------------------------------------------------------
Launcher == Subscribe \/ StartChild \/ ReadSetup \/ ForwardToChild \/ WaitChild
            \/ ExecCommand
Child    == ReportReady \/ SubscribeReaper \/ ForkCommand \/ ReceiveSignal \/ Wait4
Taking   == \/ \E p \in Notifier : \E s \in pending[p] : TakeSignal(p, s)
            \/ \E s \in Signal : CommandTakesSignal(s)
World    == (\E s \in Signal : Send(s)) \/ CommandEnds \/ OrphanEnds

Next == Launcher \/ Child \/ Taking \/ World

Spec == Init /\ [][Next]_vars

(* Both processes run, and the kernel and the Go runtime deliver what is   *)
(* pending.  Nobody has to send a signal, and a command may run for ever.  *)
FairSpec ==
  /\ Spec
  /\ WF_vars(Launcher) /\ WF_vars(Child)
  /\ \A p \in Notifier : \A s \in Signal \cup {"CHLD"} : WF_vars(TakeSignal(p, s))
  /\ \A s \in Signal : WF_vars(CommandTakesSignal(s))

-----------------------------------------------------------------------------
(* Type correctness; no channel holds more than its capacity.              *)
TypeOK ==
  /\ pidns \in BOOLEAN /\ private \in BOOLEAN
  /\ launcher \in LauncherPhase /\ child \in ChildPhase
  /\ ok \in BOOLEAN
  /\ command \in {"none", "running", "zombie", "reaped"}
  /\ orphans \in 0..adopted /\ adopted \in 0..MaxOrphans
  /\ pending \in [Process -> SUBSET (Signal \cup {"CHLD"})]
  /\ \A p \in Notifier :
       /\ Len(queue[p]) <= QueueSize
       /\ \A i \in DOMAIN queue[p] : queue[p][i] \in Signal \cup {"CHLD"}
  /\ sent \in [Signal -> 0..total] /\ total \in 0..MaxSent /\ got \in [Signal -> 0..MaxSent]
  /\ stray \in BOOLEAN

(* The copies of the signals in K on their way.                            *)
Pending(K)   == { d \in Process \X K : d[2] \in pending[d[1]] }
Queued(p, K) == { i \in DOMAIN queue[p] : queue[p][i] \in K }
Copies(K)    == Cardinality(Pending(K)) + Cardinality(Queued("launcher", K))
                                        + Cardinality(Queued("child", K))

(* Forwarding through two processes never multiplies a signal: the command *)
(* gets at most the copies sent from outside.                              *)
NothingInvented == \A s \in Signal : got[s] + Copies({s}) <= sent[s]

(* The reaper kills by pid, and the pid may belong to somebody else once   *)
(* the command is reaped.                                                  *)
NoStrayKill == ~stray

(* SIGCHLDs coalesce, and orphans end between them: still the reaper never *)
(* goes back to its loop while somebody is to be reaped without another    *)
(* SIGCHLD on its way.                                                     *)
ReaperAlert ==
  child \in {"fork", "loop"} /\ (orphans > 0 \/ command = "zombie") =>
    \/ "CHLD" \in pending["child"]
    \/ \E i \in DOMAIN queue["child"] : queue["child"][i] = "CHLD"

(* A command that has ended is reaped and reported: no SIGCHLD is missed.  *)
(* ("Subscribe to signals BEFORE fork to avoid missing a fast SIGCHLD",    *)
(* says reaperExec.)                                                       *)
EndIsReported == command = "zombie" ~> launcher = "done"

(* A signal the launcher collects reaches the command, or the launch is    *)
(* over.  Falling back is the exception: see FastSignalNotLost.            *)
SignalsReachCommand ==
  \A s \in Signal \cap Fatal :
    (launcher \in {"starting", "handshake", "relay"} /\ s \in pending["launcher"])
      ~> (got[s] > 0 \/ command \in {"zombie", "reaped"}
          \/ launcher \in {"fallback", "payload", "done"})

(* A signal collected while the child starts is not lost ("Subscribe to    *)
(* signals BEFORE Start to avoid losing a fast SIGTERM", says forkChild).  *)
FastSignalNotLost ==
  \A s \in Signal \cap Fatal :
    (launcher \in {"starting", "handshake"} /\ s \in pending["launcher"])
      ~> (got[s] > 0 \/ command \in {"zombie", "reaped"} \/ launcher = "done")
=============================================================================
