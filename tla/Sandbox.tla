------------------------------ MODULE Sandbox ------------------------------
(***************************************************************************)
(* What landcage promises to whoever runs `landcage -p policy -- command`, *)
(* whatever happens inside: the command runs at most once, only inside a   *)
(* box the request permits, and the launcher's exit code tells the truth   *)
(* about it.  Launch implements this specification with two processes, two *)
(* pipes and a fallback.                                                   *)
(***************************************************************************)
EXTENDS Invocation

(* The namespaces the flags and the policy ask for, and those that these  *)
(* need: a private network is reached through a user namespace, an own     *)
(* /proc through a mount namespace.                                        *)
Asked(r) ==
  { ns \in Namespace :
      \/ ns \in r.unshare
      \/ ns \in {"user", "net"} /\ r.net # "host"
      \/ ns = "mount" /\ "mount_proc" \in r.unshare }

(* The boxes a request permits.  Either all of the namespaces or, with the *)
(* host network only, none.                                                *)
Permitted(r, b) ==
  /\ b.landlocked
  /\ ~b.plumbing
  /\ b.namespaces \in {Asked(r), {}}
  /\ r.net # "host" => "net" \in b.namespaces
  /\ b.loopback <=> r.net = "isolated"
  /\ b.ownProc <=> "mount" \in b.namespaces
  /\ b.capable => r.root /\ b.namespaces = {}

(* The launcher has not ended; someone killed it.                          *)
Pending == -1
Killed  == -2

VARIABLES
  request,   \* the invocation
  command,   \* "waiting", "running" or "ended"
  box,       \* the command's box, from its start on
  outcome,   \* how the command ended
  report     \* the launcher: Pending while it lives, then its shell code, or
             \* Killed if someone killed it

vars == <<request, command, box, outcome, report>>

Code == 0..511

TypeOK ==
  /\ request \in Requests
  /\ command \in {"waiting", "running", "ended"}
  /\ box \in Box
  /\ outcome \in Ended \cup {NoOutcome}
  /\ report \in Code \cup {Pending, Killed}

Init ==
  /\ request \in Requests
  /\ command = "waiting"
  /\ box = NoBox
  /\ outcome = NoOutcome
  /\ report = Pending

(* --dry-run and --expand only print.                                      *)
PrintOnly ==
  /\ request.mode # "run"
  /\ command = "waiting" /\ report = Pending
  /\ \E code \in {0, 1, 2} : report' = code
  /\ UNCHANGED <<request, command, box, outcome>>

(* The command will not be run, and the exit code says that it was not.    *)
Refuse ==
  /\ command = "waiting" /\ report = Pending
  /\ \E code \in Code \ {0} : report' = code
  /\ UNCHANGED <<request, command, box, outcome>>

(* The command starts; a killed launcher may still have a child on its way.*)
Run ==
  /\ request.mode = "run"
  /\ command = "waiting" /\ report \in {Pending, Killed}
  /\ command' = "running"
  /\ \E b \in Box : Permitted(request, b) /\ box' = b
  /\ UNCHANGED <<request, outcome, report>>

(* The command ends.  If it took over the launcher's process, the shell    *)
(* learns of it at once.                                                   *)
End ==
  /\ command = "running"
  /\ command' = "ended"
  /\ outcome' \in Ended
  /\ report' \in {report} \cup (IF report = Pending THEN {ShellCode(outcome')}
                                ELSE {})
  /\ UNCHANGED <<request, box>>

Report ==
  /\ command = "ended" /\ report = Pending
  /\ report' = ShellCode(outcome)
  /\ UNCHANGED <<request, command, box, outcome>>

(* The launcher lost the process that watched the command.                 *)
Abandon ==
  /\ command # "waiting" /\ report = Pending
  /\ report' = 255
  /\ UNCHANGED <<request, command, box, outcome>>

KillLauncher ==
  /\ report = Pending
  /\ report' = Killed
  /\ UNCHANGED <<request, command, box, outcome>>

Next == PrintOnly \/ Refuse \/ Run \/ End \/ Report \/ Abandon \/ KillLauncher

Spec == Init /\ [][Next]_vars
=============================================================================
