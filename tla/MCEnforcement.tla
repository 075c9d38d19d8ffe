--------------------------- MODULE MCEnforcement ---------------------------
(* Instances of Enforcement for TLC.  Two names in a directory, a pattern  *)
(* that matches both, and a pattern in the wrong place.  "d/b" may be a    *)
(* symlink to "d/a".                                                       *)
EXTENDS Enforcement

MCPath      == {"d", "d/a", "d/b", "d/*", "*/a"}
MCGlob      == {"d/*"}
MCMalformed == {"*/a"}
MCMatches   == [g \in MCGlob |-> {"d/*", "d/a", "d/b"}]
MCRank      == [p \in MCPath |-> CASE p = "d/*" -> 1 [] p = "d/a" -> 2 [] p = "d/b" -> 3
                                   [] OTHER -> 0]
MCDir       == [g \in MCGlob |-> "d"]
MCAbove     == [p \in MCPath |-> IF p \in {"d/a", "d/b", "d/*"} THEN {"d"} ELSE {}]
MCLeading   == [p \in MCPath |-> IF p = "d/a" THEN {"d/b"} ELSE {}]

-----------------------------------------------------------------------------
(* Policies.                                                               *)

NoIPC    == [abstractUnix |-> "", signal |-> ""]
AllowNet == [allow |-> TRUE, rules |-> {}]
FSOnly(rules) == [fs |-> rules, net |-> AllowNet, ipc |-> NoIPC]

(* Rules without refer and ioctl_dev, with rights for both kinds of paths  *)
(* or for directories only.                                                *)
Rules(paths, accesses) ==
  { r \in [path : paths, access : accesses, refer : {FALSE},
           ioctlDev : {FALSE}, ignoreMissing : BOOLEAN, createDir : BOOLEAN,
           open : BOOLEAN] : ValidRule(r) /\ (r.open \/ r.createDir) }

ContestedRules == Rules({"d/a", "d/*", "*/a"}, {{"x"}, {"x", "c"}})
ContestedPolicies ==
  { FSOnly(<<r>>) : r \in ContestedRules }
  \cup { FSOnly(<<r, q>>) : r, q \in { x \in ContestedRules : x.path # "*/a" /\ "c" \in x.access } }

(* Rules for every kind of right, for the tables of ABIs, with refer on a  *)
(* directory; every kind of network and IPC configuration.                 *)
KernelRules ==
  { r \in [path : {"d", "d/a"}, access : {{"r", "x", "d"}, {"w"}, {"u"}, {"c", "u"}},
           refer : BOOLEAN, ioctlDev : BOOLEAN, ignoreMissing : {FALSE}, createDir : {FALSE},
           open : {TRUE}] :
      r.refer <=> r.path = "d" }
NetRules == { [access |-> "connect", proto |-> ""], [access |-> "bind", proto |-> "udp"],
              [access |-> "connect+bind", proto |-> "any"] }
Nets == {AllowNet} \cup [allow : {FALSE}, rules : SUBSET NetRules]
KernelPolicies ==
  { [fs |-> <<r>>, net |-> AllowNet, ipc |-> NoIPC] : r \in KernelRules }
  \cup { [fs |-> <<>>, net |-> n, ipc |-> i] : n \in Nets, i \in IPC }

QuietRules == Rules({"d", "d/a", "d/*", "*/a", ""}, {{"r"}, {"w", "c"}})
QuietPolicies ==
  { FSOnly(<<>>) } \cup { FSOnly(<<r>>) : r \in QuietRules }
  \cup { FSOnly(<<r, q>>) : r, q \in { x \in QuietRules : x.path # "*/a" /\ x.access = {"w", "c"} } }

-----------------------------------------------------------------------------
(* Filesystems.  What is below "d" depends on what "d" is; no name looks   *)
(* like a pattern at first.                                                *)
Tree(d, a, b) ==
  [p \in MCPath |-> CASE p = "d" -> d [] p = "d/a" -> a [] p = "d/b" -> b
                      [] p = "d/*" -> IF d = "dir" THEN "missing" ELSE a
                      [] OTHER -> "missing"]
Trees(kinds) ==
  UNION { { Tree(d, a, b) : a \in Below(d), b \in IF d = "dir" THEN kinds ELSE Below(d) } : d \in Kind }

(* Not every kind for "d/b", to keep the number of states down.            *)
SomeFilesystems == Trees({"missing", "dead", "notdir", "file"})
FewFilesystems  == Trees({"missing", "file"})

DirFilesystems  == { Tree("dir", "dir", "dir"), Tree("dir", "file", "dead") }

-----------------------------------------------------------------------------
(* What is enforced where: rules on anything that nobody changes; rules of  *)
(* every kind at every ABI; and rules while somebody makes a change.        *)
MCPolicies    == QuietPolicies \cup KernelPolicies \cup ContestedPolicies
MCFilesystems == SomeFilesystems \cup FewFilesystems \cup DirFilesystems

Considered ==
  \/ policy \in QuietPolicies /\ abi \in {1, 9} /\ fs \in SomeFilesystems
  \/ policy \in KernelPolicies /\ fs \in DirFilesystems
  \/ policy \in ContestedPolicies /\ abi = 9 /\ fs \in FewFilesystems
MCInit == Init /\ Considered
MCSpec == MCInit /\ [][Next]_vars
=============================================================================
