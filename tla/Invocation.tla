----------------------------- MODULE Invocation -----------------------------
(***************************************************************************)
(* The words Sandbox and Launch share: an invocation of landcage, how a    *)
(* process ends, and what a command finds around it when it starts.        *)
(***************************************************************************)
EXTENDS Integers

CONSTANTS
  Requests,     \* the invocations considered, a subset of Request
  PayloadEnd    \* the wait statuses the command may end with

NetworkMode == {"host", "none", "isolated"}
Unshare     == {"user", "pid", "cgroup", "mount_proc"}
Namespace   == {"user", "pid", "cgroup", "mount", "net"}
Mode        == {"run", "dry-run", "expand"}

(* --dry-run, --expand or neither; the policy's unshare object; --net;     *)
(* whether a --ro or --rw flag carries an empty path; whether the caller   *)
(* has capabilities of its own; and whether anything may go wrong around   *)
(* the launch: a call that fails, a process that someone kills.            *)
Request == [mode : Mode, unshare : SUBSET Unshare, net : NetworkMode,
            emptyPath : BOOLEAN, root : BOOLEAN, faults : BOOLEAN]

(* What wait(2) tells of a process.                                        *)
Ended       == [how : {"exited", "signaled"}, n : 0..255]
Exited(c)   == [how |-> "exited", n |-> c]
Signaled(s) == [how |-> "signaled", n |-> s]
NoOutcome   == [how |-> "none", n |-> 0]
SIGKILL     == 9

(* What the caller's shell shows as $? for it.                             *)
ShellCode(ws) == IF ws.how = "exited" THEN ws.n ELSE 128 + ws.n

(* landlocked: its thread is in the Landlock domain; capable: its thread   *)
(* holds a capability; loopback: lo is up in a network namespace of its    *)
(* own; ownProc: /proc shows its own pid namespace; plumbing: it inherited *)
(* a pipe end or a _LANDCAGE_ variable.                                    *)
Box == [landlocked : BOOLEAN, capable : BOOLEAN, namespaces : SUBSET Namespace,
        loopback : BOOLEAN, ownProc : BOOLEAN, plumbing : BOOLEAN]
NoBox == [landlocked |-> FALSE, capable |-> FALSE, namespaces |-> {},
          loopback |-> FALSE, ownProc |-> FALSE, plumbing |-> FALSE]

ASSUME RequestsAssumption   == Requests \subseteq Request
ASSUME PayloadEndAssumption ==
         PayloadEnd \subseteq { ws \in Ended : ws.how = "signaled" => ws.n \in 1..64 }
=============================================================================
