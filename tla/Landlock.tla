------------------------------ MODULE Landlock ------------------------------
(***************************************************************************)
(* How a policy's rules become Landlock rights on a kernel of a given ABI: *)
(* what the ruleset handles, what a rule grants, what is silently dropped  *)
(* and what is refused.  Sets of rights stand for the bit masks.           *)
(***************************************************************************)
EXTENDS Naturals, FiniteSets

(* The filesystem rights in the order of their bits.                       *)
FSBit == << "execute", "write_file", "read_file", "read_dir", "remove_dir",
            "remove_file", "make_char", "make_dir", "make_reg", "make_sock",
            "make_fifo", "make_block", "make_sym", "refer", "truncate",
            "ioctl_dev", "resolve_unix" >>
FSRight == { FSBit[i] : i \in 1..17 }

(* The rights the kernel accepts in a rule for something other than a      *)
(* directory.                                                              *)
FileRight == {"execute", "write_file", "read_file", "truncate", "ioctl_dev",
              "resolve_unix"}

Operation == {"connect", "bind"}
Protocol  == {"tcp", "udp"}
NetRight  == Operation \X Protocol
Scope     == {"abstract_unix_socket", "signal"}

(* The rules of a policy.  Ports are left out; the modes of create_dir are *)
(* reduced to whether there is one.                                        *)
Flag    == {"r", "w", "x", "c", "d", "u"}
NetRule == [access : {"connect", "bind", "connect+bind"},
            proto : {"", "tcp", "udp", "any"}]
IPC     == [abstractUnix : {"", "deny", "allow"}, signal : {"", "deny", "allow"}]

-----------------------------------------------------------------------------
SupportsRefer(abi)       == abi >= 2
SupportsTruncate(abi)    == abi >= 3
SupportsNet(abi)         == abi >= 4
SupportsIoctlDev(abi)    == abi >= 5
SupportsScoped(abi)      == abi >= 6
SupportsResolveUnix(abi) == abi >= 9
SupportsUDP(abi)         == abi >= 10

(* The first bits, as many as the ABI has.                                 *)
MaxFSAccessBug(abi) ==
  LET n == IF abi >= 9 THEN 17 ELSE IF abi >= 5 THEN 16 ELSE IF abi >= 3 THEN 14 ELSE 13
  IN { FSBit[i] : i \in 1..n }
MaxFSAccess(abi) ==
  LET n == IF abi >= 9 THEN 17 ELSE IF abi >= 5 THEN 16
           ELSE IF abi >= 3 THEN 15 ELSE IF abi >= 2 THEN 14 ELSE 13
  IN { FSBit[i] : i \in 1..n }

MaxNetAccess(abi) ==
  Operation \X (IF SupportsUDP(abi) THEN {"tcp", "udp"} ELSE {"tcp"})

minABIForFSAccess == [refer |-> 2, truncate |-> 3, ioctl_dev |-> 5, resolve_unix |-> 9]

-----------------------------------------------------------------------------
(* Filesystem rules.                                                       *)

fsRuleError(r, isDir) == ~isDir /\ r.access \cap {"c", "d"} # {}

MakeRightBug == {"make_reg", "make_dir", "make_sym", "make_fifo", "make_sock",
                 "make_char", "make_block"}
MakeRight    == {"make_reg", "make_dir", "make_sym", "make_fifo", "make_sock"}

FlagRights(flag, isDir, abi) ==
  CASE flag = "r" -> {"read_file"} \cup (IF isDir THEN {"read_dir"} ELSE {})
    [] flag = "w" -> {"write_file"} \cup (IF SupportsTruncate(abi) THEN {"truncate"} ELSE {})
    [] flag = "x" -> {"execute"}
    [] flag = "c" -> MakeRight
    [] flag = "d" -> {"remove_file", "remove_dir"}
    [] flag = "u" -> IF SupportsResolveUnix(abi) THEN {"resolve_unix"} ELSE {}

(* The rights a rule grants on a path.  A rule has flags, refer and        *)
(* ioctlDev.                                                               *)
fsAccessSetBug(r, isDir, abi) ==
  (UNION { FlagRights(f, isDir, abi) : f \in r.access })
    \cup (IF r.refer /\ SupportsRefer(abi) THEN {"refer"} ELSE {})
    \cup (IF r.ioctlDev THEN {"ioctl_dev"} ELSE {})
fsAccessSet(r, isDir, abi) ==
  (UNION { FlagRights(f, isDir, abi) : f \in r.access })
    \cup (IF r.refer /\ SupportsRefer(abi) THEN {"refer"} ELSE {})
    \cup (IF r.ioctlDev /\ SupportsIoctlDev(abi) THEN {"ioctl_dev"} ELSE {})

(* The rights ValidateFSAccess finds missing: it asks for the rights of a  *)
(* directory on this very kernel.                                          *)
ValidateFSAccess(r, abi) ==
  { right \in DOMAIN minABIForFSAccess \cap fsAccessSet(r, TRUE, abi) :
      abi < minABIForFSAccess[right] }

-----------------------------------------------------------------------------
(* Network rules.                                                          *)

usesUDPBug(r) == r.proto = "udp"
usesTCP(r) == r.proto \in {"", "tcp", "any"}
usesUDP(r) == r.proto \in {"udp", "any"}

buildNetRules(r) ==
  { right \in NetRight :
      /\ right[1] = r.access \/ r.access = "connect+bind"
      /\ right[2] = "tcp" => usesTCP(r)
      /\ right[2] = "udp" => usesUDP(r) }

(* net has allow and, without it, rules.                                   *)
NetRefused(net, abi) ==
  /\ ~net.allow
  /\ \E r \in net.rules : (usesUDP(r) /\ ~SupportsUDP(abi)) \/ ~SupportsNet(abi)

handledNet(net, abi) ==
  IF ~net.allow /\ SupportsNet(abi) THEN MaxNetAccess(abi) ELSE {}

-----------------------------------------------------------------------------
(* IPC scopes.                                                             *)

hasHardDeny(ipc) == ipc.abstractUnix = "deny" \/ ipc.signal = "deny"

IPCRefused(ipc, abi) == hasHardDeny(ipc) /\ ~SupportsScoped(abi)

ScopesRefused(ipc, abi) ==
  ~SupportsScoped(abi) /\ (ipc.abstractUnix = "deny" \/ ipc.signal = "deny")

resolveScopes(ipc, abi) ==
  IF ~SupportsScoped(abi) THEN {}
  ELSE (IF ipc.abstractUnix # "allow" THEN {"abstract_unix_socket"} ELSE {})
       \cup (IF ipc.signal # "allow" THEN {"signal"} ELSE {})

(* The variant the tests use, to be kept in sync with resolveScopes.       *)
resolveIPC(ipc, abi) ==
  IF ipc.abstractUnix = "allow" /\ ipc.signal = "allow" THEN "exclude"
  ELSE IF SupportsScoped(abi) THEN "include"
  ELSE IF hasHardDeny(ipc) THEN "unavailable" ELSE "exclude"
=============================================================================
