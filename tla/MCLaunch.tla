------------------------------ MODULE MCLaunch ------------------------------
(* Instances of Launch for TLC.                                            *)
EXTENDS Launch

CONSTANTS t1, t2

MCThread     == {t1, t2}
MCPayloadEnd == {Exited(0), Exited(3), Signaled(15)}

Run(unshare, net, emptyPath, root) ==
  [mode |-> "run", unshare |-> unshare, net |-> net,
   emptyPath |-> emptyPath, root |-> root, faults |-> TRUE]

(* Every combination of the options that steer a launch: 13 unshare        *)
(* objects, one of them invalid, and the printing modes once.              *)
AllRuns ==
  { r \in Request : r.mode = "run" /\ r.faults /\ (Valid(r) \/ r.unshare = {"mount_proc"}) }

(* Launches in which nothing fails: with an empty --ro or --rw path, and   *)
(* without.                                                                *)
QuietRuns == { [r EXCEPT !.faults = FALSE] : r \in AllRuns }
PlainRuns == { r \in QuietRuns : ~r.emptyPath }

AllRequests ==
  AllRuns \cup PlainRuns \cup { [r EXCEPT !.mode = m] :
                   r \in { Run({"user", "pid"}, "host", FALSE, FALSE),
                           Run({"mount_proc"}, "none", FALSE, FALSE) },
                   m \in {"dry-run", "expand"} }
=============================================================================
