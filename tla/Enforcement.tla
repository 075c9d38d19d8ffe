---------------------------- MODULE Enforcement ----------------------------
(***************************************************************************)
(* policy.Enforce: the rules of a policy are resolved one after the other  *)
(* against a filesystem that other processes may change meanwhile, and     *)
(* handed to go-landlock in one call.  policy.DryRun judges the same       *)
(* policy on the filesystem as it is, without touching it.                 *)
(***************************************************************************)
EXTENDS Landlock, Sequences

CONSTANTS
  Path,        \* the names that occur in rules or are found by globbing
  Glob,        \* the names among them with a pattern in the last component
  Malformed,   \* those with a pattern in an earlier component
  Matches,     \* [Glob -> the names the pattern would match]
  Rank,        \* [Path -> its place in the order of os.ReadDir]
  Dir,         \* [Glob -> the directory the pattern is looked up in]
  Above,       \* [Path -> the names it lies below]
  Leading,     \* [Path -> the names that may lead to it or below it, through a
               \*  symlink or as another spelling]
  Empty,       \* the empty path
  Policies,    \* the policies considered
  ABIs,        \* the Landlock ABIs considered; 0 is a kernel without it
  Filesystems, \* the filesystems to begin with
  Contested,   \* the policies while which are enforced others change it
  MaxChanges   \* bound: changes they make to it

(* What stat(2) finds at a name: nothing there, nothing where nothing can  *)
(* be made either ("barred"), a dead symlink, a name below a file          *)
(* (ENOTDIR), a directory that may not be searched (EACCES), or something. *)
Kind    == {"missing", "barred", "dead", "notdir", "denied", "file", "dir"}
Nothing == {"missing", "barred"}
Absent  == Nothing \cup {"dead"}

(* What can be below a name of a kind.                                     *)
Below(kind) ==
  CASE kind \in Nothing            -> {kind}
    [] kind = "dead"              -> {"barred"}
    [] kind \in {"file", "notdir"} -> {"notdir"}
    [] kind = "denied"            -> {"denied"}
    [] kind = "dir"               -> Kind

(* open: the mode of create_dir lets the caller make and find names in the *)
(* directory.                                                              *)
FSRule == [path : Path \cup {Empty}, access : SUBSET Flag, refer : BOOLEAN,
           ioctlDev : BOOLEAN, ignoreMissing : BOOLEAN, createDir : BOOLEAN,
           open : BOOLEAN]

(* What Policy.Validate lets through.  (A rule of --ro or --rw may have an *)
(* empty path all the same.)                                               *)
ValidRule(r) == r.access # {} /\ ~(r.createDir /\ r.ignoreMissing)

ASSUME NamesAssumption ==
  /\ Glob \subseteq Path /\ Malformed \subseteq Path \ Glob /\ Empty \notin Path
  /\ Matches \in [Glob -> SUBSET Path] /\ Dir \in [Glob -> Path] /\ Rank \in [Path -> Nat]
  /\ Above \in [Path -> SUBSET Path] /\ Leading \in [Path -> SUBSET Path]
Valid(p) ==
  /\ p.fs \in Seq(FSRule) /\ \A i \in DOMAIN p.fs : ValidRule(p.fs[i])
  /\ p.net \in [allow : BOOLEAN, rules : SUBSET NetRule] /\ p.ipc \in IPC
  /\ p.net.allow => p.net.rules = {}
ASSUME PoliciesAssumption == \A p \in Policies : Valid(p)
ASSUME KernelAssumption ==
  /\ ABIs \subseteq Nat /\ MaxChanges \in Nat
  /\ Filesystems \subseteq [Path -> Kind]
  /\ \A f \in Filesystems : \A p \in Path : \A q \in Above[p] : f[p] \in Below(f[q])

VARIABLES
  policy,   \* the policy to enforce
  abi,      \* the kernel's Landlock ABI
  fs,       \* [Path -> Kind]
  start,    \* the filesystem at the beginning
  changes,  \* changes other processes have made
  pc,       \* "detect", "validate", "rule", "stat", "restrict", "restricted"
            \* or "failed"
  index,    \* the rule at hand
  todo,     \* its paths still to be examined
  batch,    \* the grants of the rule at hand
  grants,   \* the grants of the rules before it
  warned    \* the rules a downgrade warning was printed for

vars == <<policy, abi, fs, start, changes, pc, index, todo, batch, grants, warned>>

Rule == policy.fs[index]

(* A grant as PathAccess has it: by name.                                  *)
Grant == [path : Path, rights : SUBSET FSRight]

-----------------------------------------------------------------------------
(* Resolving, the same for Enforce and DryRun.                             *)

Found(kind)      == kind \in {"file", "dir"}
StatError(kind)  == CASE kind \in Absent   -> "ENOENT"
                      [] kind = "notdir" -> "ENOTDIR"
                      [] kind = "denied" -> "EACCES"

(* resolvePath: an error or the matches there are.                         *)
resolveError(f, path) ==
  CASE path \in Malformed -> "pattern"
    [] path \in Glob -> (CASE f[Dir[path]] = "dir"  -> "none"
                           [] f[Dir[path]] = "file" -> "ENOTDIR"
                           [] OTHER -> StatError(f[Dir[path]]))
    [] OTHER -> "none"

resolvePathBug(f, path) ==
  IF path \in Glob THEN { p \in Matches[path] : f[p] \notin Nothing \cup {"dir"} } ELSE {path}
resolvePath(f, path) ==
  IF path \in Glob THEN { p \in Matches[path] : f[p] \notin Nothing } ELSE {path}

isPathError(err) == err \in {"ENOENT", "ENOTDIR"}

-----------------------------------------------------------------------------
Init ==
  /\ policy \in Policies /\ abi \in ABIs
  /\ fs \in Filesystems /\ start = fs
  /\ changes = 0
  /\ pc = "detect"
  /\ index = 1
  /\ todo = {} /\ batch = {} /\ grants = {}
  /\ warned = {}

Fail == pc' = "failed" /\ UNCHANGED <<index, todo, batch, grants>>

(* DetectFeatures.                                                         *)
Detect ==
  /\ pc = "detect"
  /\ IF abi < 1 THEN Fail ELSE pc' = "validate" /\ UNCHANGED <<index, todo, batch, grants>>
  /\ UNCHANGED <<policy, abi, fs, start, changes, warned>>

(* validatePolicyFeatures and buildConfig.                                 *)
Validate ==
  /\ pc = "validate"
  /\ warned' = { i \in DOMAIN policy.fs : ValidateFSAccess(policy.fs[i], abi) # {} }
  /\ IF NetRefused(policy.net, abi) \/ IPCRefused(policy.ipc, abi)
        \/ ScopesRefused(policy.ipc, abi)
     THEN Fail
     ELSE /\ pc' = IF policy.fs = <<>> THEN "restrict" ELSE "rule"
          /\ UNCHANGED <<index, todo, batch, grants>>
  /\ UNCHANGED <<policy, abi, fs, start, changes>>

NextRuleBug(new) ==
  /\ pc' = IF index = Len(policy.fs) THEN "restrict" ELSE "rule"
  /\ index' = index + 1
  /\ grants' = grants \cup new
  /\ batch' = new /\ todo' = {}
NextRule(new) ==
  /\ pc' = IF index = Len(policy.fs) THEN "restrict" ELSE "rule"
  /\ index' = index + 1
  /\ grants' = grants \cup new
  /\ batch' = {} /\ todo' = {}

(* The rule's paths are missing: with ignore_missing Enforce goes on,      *)
(* without what the rule has gathered so far.                              *)
RuleError(err) == IF Rule.ignoreMissing /\ isPathError(err) THEN NextRule({}) ELSE Fail

(* os.MkdirAll leaves an existing directory alone and makes a missing one, *)
(* its missing parents first and with the same mode.                       *)
New(f, path) ==
  IF f[path] = "missing" THEN { p \in Above[path] \cup {path} : f[p] = "missing" } ELSE {}

MkdirRefused(f, r) ==
  \/ f[r.path] \notin {"missing", "dir"}
  \/ f[r.path] = "missing" /\ \E p \in Above[r.path] : f[p] \notin {"missing", "dir"}
  \/ ~r.open /\ ~(New(f, r.path) \subseteq {r.path})

(* What else the new directories bring about: other names come to lead     *)
(* there, and a directory that is not open keeps its caller out.           *)
Disturbed(f, r) ==
  { q \in Path \ New(f, r.path) :
      /\ f[q] \in Absent
      /\ \E p \in New(f, r.path) : q \in Leading[p] \/ (~r.open /\ p \in Above[q]) }

Made(f, r) ==
  LET lead == Disturbed(f, r)
  IN { [p \in Path |-> IF p \in New(f, r.path) THEN "dir"
                        ELSE IF p \in lead THEN kind[p] ELSE f[p]] :
         kind \in [lead -> Kind \ {"file", "notdir"}] }

(* buildFSRules up to the loop over the paths.                             *)
BeginRule ==
  /\ pc = "rule"
  /\ IF Rule.path = Empty
     THEN UNCHANGED fs /\ IF Rule.ignoreMissing THEN NextRule({}) ELSE Fail
     ELSE IF Rule.createDir /\ MkdirRefused(fs, Rule) THEN UNCHANGED fs /\ Fail
     ELSE /\ fs' \in IF Rule.createDir THEN Made(fs, Rule) ELSE {fs}
          /\ LET err   == resolveError(fs', Rule.path)
                 paths == resolvePath(fs', Rule.path)
             IN CASE err # "none" -> RuleError(err)
                  [] err = "none" /\ paths = {} -> IF Rule.ignoreMissing THEN NextRule({}) ELSE Fail
                  [] OTHER -> pc' = "stat" /\ todo' = paths /\ UNCHANGED <<index, batch, grants>>
  /\ UNCHANGED <<policy, abi, start, changes, warned>>

IsLastBug(path) == todo = {}
IsLast(path)    == todo = {path}

(* The loop: stat the next path and work out its rights.                   *)
StatPath ==
  /\ pc = "stat"
  /\ \E path \in todo :
       /\ \A q \in todo : Rank[path] <= Rank[q]
       /\ LET kind == fs[path]
              more == IF Found(kind)
                      THEN {[path |-> path, rights |-> fsAccessSet(Rule, kind = "dir", abi)]}
                      ELSE {}
          IN IF IF Found(kind) THEN ~fsRuleError(Rule, kind = "dir")
                ELSE Rule.ignoreMissing /\ StatError(kind) = "ENOENT"
             THEN IF IsLast(path)
                  THEN NextRule(batch \cup more)
                  ELSE /\ todo' = todo \ {path} /\ batch' = batch \cup more
                       /\ UNCHANGED <<pc, index, grants>>
             ELSE IF Found(kind) THEN Fail ELSE RuleError(StatError(kind))
  /\ UNCHANGED <<policy, abi, fs, start, changes, warned>>

(* The kernel: the rights each ABI knows.                                  *)
KernelFS(a) == { right \in FSRight :
  right \in DOMAIN minABIForFSAccess => a >= minABIForFSAccess[right] }
KernelNet(a)   == { right \in NetRight : a >= IF right[2] = "tcp" THEN 4 ELSE 10 }
KernelScope(a) == IF a >= 6 THEN Scope ELSE {}

(* go-landlock adds the rules one by one, opening each path, and restricts *)
(* the process if the kernel accepts all of them.  It leaves out a rule    *)
(* without rights.                                                         *)
Accepted(g) ==
  \/ g.rights = {}
  \/ /\ g.rights \subseteq MaxFSAccess(abi)
     /\ Found(fs[g.path])
     /\ fs[g.path] = "dir" \/ g.rights \subseteq FileRight

netGrants == UNION { buildNetRules(r) : r \in policy.net.rules }

RestrictSelf ==
  /\ pc = "restrict"
  /\ IF /\ MaxFSAccess(abi) \subseteq KernelFS(abi)
        /\ handledNet(policy.net, abi) \subseteq KernelNet(abi)
        /\ resolveScopes(policy.ipc, abi) \subseteq KernelScope(abi)
        /\ netGrants \subseteq handledNet(policy.net, abi)
        /\ \A g \in grants : Accepted(g)
     THEN pc' = "restricted" /\ UNCHANGED <<index, todo, batch, grants>>
     ELSE Fail
  /\ UNCHANGED <<policy, abi, fs, start, changes, warned>>

(* Somebody else removes, creates or replaces what a name stands for.      *)
Change ==
  /\ policy \in Contested /\ changes < MaxChanges /\ pc \notin {"restricted", "failed"}
  /\ \E p \in Path : \E k \in Kind \ {fs[p]} : fs' = [fs EXCEPT ![p] = k]
  /\ changes' = changes + 1
  /\ UNCHANGED <<policy, abi, start, pc, index, todo, batch, grants, warned>>

Enforce == Detect \/ Validate \/ BeginRule \/ StatPath \/ RestrictSelf
Next == Enforce \/ Change
Spec == Init /\ [][Next]_vars

-----------------------------------------------------------------------------
(* DryRun, up to what it prints: does it accept the policy on f?           *)

DryPathBug(r, kind) ==
  IF Found(kind) THEN r.createDir => kind = "dir"
  ELSE r.ignoreMissing /\ StatError(kind) = "ENOENT"
DryPath(r, kind) ==
  IF Found(kind) THEN (r.createDir => kind = "dir") /\ ~fsRuleError(r, kind = "dir")
  ELSE r.ignoreMissing /\ StatError(kind) = "ENOENT"

DryRule(f, r) ==
  IF r.path = Empty THEN r.ignoreMissing
  ELSE LET err   == resolveError(f, r.path)
           paths == resolvePath(f, r.path)
       IN CASE err # "none" -> r.ignoreMissing
            [] err = "none" /\ r.createDir
                 /\ \E p \in Path : paths = {p} /\ f[p] \in Absent -> TRUE
            [] err = "none" /\ paths = {} -> r.ignoreMissing
            [] OTHER -> \A p \in paths : DryPath(r, f[p])

DryRun(f) ==
  /\ \A i \in DOMAIN policy.fs : DryRule(f, policy.fs[i])
  /\ ~NetRefused(policy.net, abi) /\ ~IPCRefused(policy.ipc, abi)

-----------------------------------------------------------------------------
(* The rights the policy documentation gives a rule.                       *)
Documented(r) ==
  { right \in FSRight :
      \/ "r" \in r.access /\ right \in {"read_file", "read_dir"}
      \/ "w" \in r.access /\ right \in {"write_file", "truncate"}
      \/ "x" \in r.access /\ right = "execute"
      \/ "c" \in r.access /\ right \in {"make_reg", "make_dir", "make_sym",
                                          "make_fifo", "make_sock"}
      \/ "d" \in r.access /\ right \in {"remove_file", "remove_dir"}
      \/ "u" \in r.access /\ right = "resolve_unix"
      \/ r.refer /\ right = "refer"
      \/ r.ioctlDev /\ right = "ioctl_dev" }

(* The names a rule is about, and those of them that exist on f.           *)
Names(r, path) ==
  \/ r.path = path
  \/ r.path \in Glob /\ path \in Matches[r.path]

(* A grant is a rule's if the rule names its path and asks for its rights. *)
Asked(g, r) == Names(r, g.path) /\ g.rights \subseteq Documented(r)

Present(r, f) ==
  { p \in Path : /\ Found(f[p])
                 /\ IF r.path \in Glob
                    THEN f[Dir[r.path]] = "dir" /\ p \in Matches[r.path]
                    ELSE r.path = p }

-----------------------------------------------------------------------------
(* Type correctness.                                                       *)
TypeOK ==
  /\ Valid(policy) /\ abi \in ABIs
  /\ fs \in [Path -> Kind] /\ start \in Filesystems
  /\ changes \in 0..MaxChanges
  /\ pc \in {"detect", "validate", "rule", "stat", "restrict", "restricted", "failed"}
  /\ index \in 1..(Len(policy.fs) + 1)
  /\ todo \subseteq Path /\ (pc = "stat" => todo # {})
  /\ batch \subseteq Grant /\ grants \subseteq Grant
  /\ warned \subseteq DOMAIN policy.fs

(* No rule asks go-landlock for a right the ruleset does not handle, on no *)
(* kernel: two tables of ABIs, kept apart, agree.                          *)
Compatible == \A g \in batch \cup grants : g.rights \subseteq MaxFSAccess(abi)

(* Deny by default: once restricted, the domain handles every right this   *)
(* kernel knows, and no right it does not know; without "allow" that goes  *)
(* for the network and for each scope, too.                                *)
FullyHandled ==
  pc = "restricted" =>
    /\ MaxFSAccess(abi) = KernelFS(abi)
    /\ handledNet(policy.net, abi) = IF policy.net.allow THEN {} ELSE KernelNet(abi)
    /\ resolveScopes(policy.ipc, abi) =
         KernelScope(abi) \ ((IF policy.ipc.abstractUnix = "allow" THEN {"abstract_unix_socket"} ELSE {})
                             \cup (IF policy.ipc.signal = "allow" THEN {"signal"} ELSE {}))

(* Per-port rules and IPC "deny" are not downgraded: a process is only     *)
(* restricted where the kernel enforces every one of them.                 *)
NotDowngraded ==
  pc = "restricted" =>
    /\ \A r \in policy.net.rules :
         abi >= IF r.proto \in {"udp", "any"} THEN 10 ELSE 4
    /\ policy.ipc.abstractUnix = "deny" => "abstract_unix_socket" \in KernelScope(abi)
    /\ policy.ipc.signal = "deny" => "signal" \in KernelScope(abi)

(* Whatever happens to the filesystem meanwhile: every right granted on a  *)
(* path is one that the documentation gives to a rule naming that path,    *)
(* and what ends up with directory rights is a directory.                  *)
OnlyWhatIsAsked ==
  pc = "restricted" =>
    \A g \in grants :
      /\ \E i \in DOMAIN policy.fs : Asked(g, policy.fs[i])
      /\ g.rights \subseteq FileRight \/ fs[g.path] = "dir"

(* On a filesystem nobody changes, every path that exists and is named by  *)
(* a rule gets what the rule says, on this kernel, whatever else the rule  *)
(* names: a file, a dead symlink, nothing at all.  The one exception is a  *)
(* pattern with ignore_missing where a match is a symlink through a file:  *)
(* it ends the rule, and the rule loses what it has gathered.              *)
CutShort(r, f) ==
  r.ignoreMissing /\ r.path \in Glob /\ \E p \in Matches[r.path] : f[p] = "notdir"

Full(r, p) ==
  [path |-> p,
   rights |-> KernelFS(abi) \cap Documented(r)
                \cap (IF start[p] = "dir" THEN FSRight ELSE FSRight \ {"read_dir"})]

NothingLost ==
  pc = "restricted" /\ changes = 0 =>
    \A i \in DOMAIN policy.fs :
      CutShort(policy.fs[i], start) \/ \A p \in Present(policy.fs[i], start) :
                                         Full(policy.fs[i], p) \in grants

(* The documentation knows no exception: "Dead symlinks (target doesn't    *)
(* exist) -> treated as missing path (respects `ignore_missing`)", so that *)
(* such a match costs the others nothing.                                  *)
DeadLinksAreMissing ==
  pc = "restricted" /\ changes = 0 =>
    \A i \in DOMAIN policy.fs : \A p \in Present(policy.fs[i], start) :
      Full(policy.fs[i], p) \in grants

(* Where the dry run of a rule may err.  It takes ignore_missing to cover   *)
(* every error of a pattern, where Enforce goes on after a missing path    *)
(* only; it knows neither that refer on a file is refused nor what         *)
(* create_dir makes of a pattern, of a dead symlink, where nothing can be  *)
(* made, or of missing parents under a mode that is not open.              *)
Examined(f, path) == IF resolveError(f, path) = "none" THEN resolvePath(f, path) ELSE {}
Judged(r, f) ==
  /\ r.ignoreMissing => /\ resolveError(f, r.path) \notin {"pattern", "EACCES"}
                        /\ \A p \in Examined(f, r.path) : f[p] # "notdir"
  /\ r.refer => \A p \in Examined(f, r.path) : f[p] # "file"
  /\ r.createDir => /\ r.path \notin Glob /\ f[r.path] \notin {"dead", "barred"}
                    /\ r.open \/ New(f, r.path) \subseteq {r.path}

(* The directories that a rule creates are there for the rules after it,   *)
(* and for the dry run they are not: they must not matter to them, nor may *)
(* what they bring about elsewhere.                                        *)
Used(q) ==
  IF q.path \in Glob THEN Matches[q.path] \cup {Dir[q.path]}
  ELSE {q.path} \cup (IF q.createDir THEN Above[q.path] ELSE {})
Apart(r, q, f) ==
  r.createDir =>
    /\ q.path \in New(f, r.path) => q.createDir \/ q.ignoreMissing
    /\ q.path \in Glob => Used(q) \cap New(f, r.path) = {}
    /\ Used(q) \cap Disturbed(f, r) = {}

Comparable ==
  /\ abi >= 1
  /\ \A i \in DOMAIN policy.fs :
       policy.fs[i].path # Empty =>
         /\ Judged(policy.fs[i], start)
         /\ \A j \in DOMAIN policy.fs :
              i < j /\ policy.fs[j].path # Empty => Apart(policy.fs[i], policy.fs[j], start)

(* DryRun "resolves all rules and prints what would be enforced": with     *)
(* these exceptions it accepts a policy exactly if enforcing it on the     *)
(* same filesystem works.                                                  *)
DryRunAgrees ==
  changes = 0 /\ pc \in {"restricted", "failed"} /\ Comparable =>
    (pc = "restricted" <=> DryRun(start))

-----------------------------------------------------------------------------
(* The invariant of the proofs: why no step is taken without a rule at     *)
(* hand or on a kernel that was not checked, and where each grant comes    *)
(* from.  What is gathered belongs to the rule at hand and to no other.    *)
InHand ==
  /\ pc \in {"detect", "validate"} => index = 1
  /\ pc \in {"rule", "stat"} => index \in DOMAIN policy.fs
  /\ pc \notin {"stat", "failed"} => batch = {}

Checked ==
  /\ pc \notin {"detect", "failed"} => abi >= 1
  /\ pc \in {"rule", "stat", "restrict", "restricted"} =>
       ~NetRefused(policy.net, abi) /\ ~IPCRefused(policy.ipc, abi)

Justified ==
  /\ \A g \in grants : \E i \in DOMAIN policy.fs : Asked(g, policy.fs[i])
  /\ pc = "stat" => /\ \A g \in batch : Asked(g, Rule)
                    /\ \A p \in todo : Names(Rule, p)

IndInv == TypeOK /\ InHand /\ Checked /\ Compatible /\ Justified /\ OnlyWhatIsAsked
=============================================================================
