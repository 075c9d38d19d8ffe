------------------------------ MODULE Seatbelt ------------------------------
(* A launch on macOS: the policy's directories are made, its rules become a *)
(* Seatbelt profile over the files there are, the profile is applied and    *)
(* the command replaces the launcher.  Seatbelt compares canonical paths,   *)
(* so each rule is written for what its path resolves to, and each symlink  *)
(* met on the way becomes a grant of its own.                               *)
(*                                                                          *)
(* A path is a sequence of parts, absolute or not; the tree is a function   *)
(* from the canonical paths of what exists.  Nobody else changes the tree   *)
(* meanwhile.  A final "*" is a pattern that matches every name.            *)
EXTENDS Landlock, Integers, SequencesExt

CONSTANTS
  Name,      \* names of files and directories
  Trees,     \* the trees a launch may find
  Policies,  \* [fs, net]: sequences of rules
  Cwd,       \* the launcher's directory, a canonical path
  Pwd,       \* what PWD says it is, an absolute path
  MaxLinks,  \* links the kernel follows in one path
  MaxParts,  \* parts of a link's target
  MaxPort    \* 65535

Root == <<>>
Part == Name \cup {".."}
Node == [kind : {"dir", "file", "link"}, abs : BOOLEAN, target : Seq(Part)]

Dir(t, p)  == p \in DOMAIN t /\ t[p].kind = "dir"
Link(t, p) == p \in DOMAIN t /\ t[p].kind = "link"

(* What exists lies in a directory, up to the root.                         *)
IsTree(t) ==
  /\ t \in [DOMAIN t -> Node]
  /\ DOMAIN t \subseteq Seq(Name) /\ Dir(t, Root)
  /\ \A p \in DOMAIN t :
       /\ \A k \in 0 .. Len(p) - 1 : Dir(t, SubSeq(p, 1, k))
       /\ Link(t, p) => Len(t[p].target) <= MaxParts

Rule == [path : [abs : BOOLEAN, parts : Seq(Part)], access : SUBSET Flag,
         ioctlDev : BOOLEAN, ignoreMissing : BOOLEAN, createDir : BOOLEAN]

Port     == 0 .. MaxPort
PortRule == [access : {"connect", "bind", "connect+bind"}, proto : {"", "tcp", "udp", "any"},
             port : Port]

ASSUME SeatbeltAssumption ==
  MaxLinks \in Nat /\ MaxParts \in Nat /\ MaxPort \in Nat \ {0} /\ ".." \notin Name /\ "*" \in Name

ASSUME LaunchAssumption ==
  /\ \A t \in Trees : IsTree(t) /\ Dir(t, Cwd)
  /\ Pwd \in Seq(Part)
  /\ \A p \in Policies :
       p.fs \in Seq(Rule) /\ p.net.allow \in BOOLEAN /\ p.net.rules \in Seq(PortRule)

VARIABLES
  tree,     \* canonical path -> [kind, abs, target]
  policy,
  pc,       \* the next step of runSandboxed
  n,        \* the rule it works on
  todo,     \* the rule's matches that are not compiled yet
  stack,    \* allowPathAliases' calls: [prefix, rest], innermost first
  aliases,  \* sbplGen.aliases
  profile   \* what (allow ...) lines have been written

vars == <<tree, policy, pc, n, todo, stack, aliases, profile>>

-----------------------------------------------------------------------------
(* The kernel's walk along a path, as Stat and EvalSymlinks do it.          *)

Absolute(path) == IF path.abs THEN path.parts ELSE Cwd \o path.parts

(* A walk is [at, rest, links, error]: where it has come, what it still has *)
(* to go, the links it has followed.                                        *)
Over(w)  == w.rest = <<>> \/ w.error # "none"
Up(p)    == IF p = Root THEN Root ELSE Front(p)
Ahead(w) == IF Head(w.rest) = ".." THEN Up(w.at) ELSE Append(w.at, Head(w.rest))
Step(t, w) ==
  LET p == Ahead(w)
  IN  IF Over(w) THEN w
      ELSE IF ~Dir(t, w.at) THEN [w EXCEPT !.error = "notdir"]
      ELSE IF p \notin DOMAIN t THEN [w EXCEPT !.error = "missing"]
      ELSE IF ~Link(t, p) THEN [w EXCEPT !.at = p, !.rest = Tail(@)]
      ELSE IF Len(w.links) = MaxLinks THEN [w EXCEPT !.error = "loop"]
      ELSE [w EXCEPT !.at = IF t[p].abs THEN Root ELSE @, !.rest = t[p].target \o Tail(@),
                     !.links = Append(@, p)]

Steps(w) == Len(w.rest) + (MaxLinks - Len(w.links)) * MaxParts
Follow(t, w) ==
  LET v[k \in 0 .. Steps(w)] == IF k = 0 THEN w ELSE Step(t, v[k - 1])
  IN  v[Steps(w)]

Start(parts)   == [at |-> Root, rest |-> parts, links |-> <<>>, error |-> "none"]
Walk(t, parts) == Follow(t, Start(parts))

(* os.Getwd goes by PWD, however it is spelt, if it leads where the process *)
(* is.                                                                      *)
Getwd(t) ==
  LET found == Walk(t, Pwd)
  IN  IF found.error = "none" /\ found.at = Cwd THEN Pwd ELSE Cwd

isPathError(error) == error \in {"missing", "notdir"}

(* filepath.Join cleans: ".." takes the name before it away, link or not.   *)
Clean(path) ==
  LET ps[k \in 0 .. Len(path.parts)] ==
        IF k = 0 THEN <<>>
        ELSE IF path.parts[k] # ".." THEN Append(ps[k - 1], path.parts[k])
        ELSE IF ps[k - 1] # <<>> /\ Last(ps[k - 1]) # ".." THEN Front(ps[k - 1])
        ELSE IF path.abs THEN ps[k - 1] ELSE Append(ps[k - 1], "..")
  IN  [path EXCEPT !.parts = ps[Len(path.parts)]]

(* The matches, and an error: a pattern is for the last part of a path.     *)
Above(path)        == [path EXCEPT !.parts = Front(@)]
Within(path, name) == [path EXCEPT !.parts = Append(Front(@), name)]
Entries(t, at)     == { Last(p) : p \in { q \in DOMAIN t \ {Root} : Front(q) = at } }

resolvePath(t, r) ==
  LET found    == Walk(t, Absolute(Above(r.path)))
      Fails(e) == [paths |-> {}, error |-> e]
  IN  IF "*" \notin ToSet(r.path.parts) THEN [paths |-> {r.path}, error |-> "none"]
      ELSE IF "*" \in ToSet(Front(r.path.parts)) THEN Fails("pattern")
      ELSE IF found.error # "none" THEN Fails(found.error)
      ELSE IF ~Dir(t, found.at) THEN Fails("notdir")
      ELSE [paths |-> { Clean(Within(r.path, name)) : name \in Entries(t, found.at) },
            error |-> "none"]

(* mkdir(2): the tree it leaves, or none if it fails.                       *)
Mkdir(t, parts) ==
  LET above == Walk(t, Front(parts))
      p     == Append(above.at, Last(parts))
  IN  IF above.error # "none" \/ ~Dir(t, above.at) \/ Last(parts) = ".." \/ p \in DOMAIN t THEN {}
      ELSE {[q \in DOMAIN t \cup {p} |->
               IF q = p THEN [kind |-> "dir", abs |-> FALSE, target |-> <<>>] ELSE t[q]]}

(* os.MkdirAll, from the top; ok is whether all of it is a directory now.   *)
MakeDir(made, parts) ==
  LET found == Walk(made.tree, parts)
      trees == Mkdir(made.tree, parts)
  IN  IF ~made.ok \/ (found.error = "none" /\ Dir(made.tree, found.at)) THEN made
      ELSE IF trees = {} THEN [made EXCEPT !.ok = FALSE]
      ELSE [made EXCEPT !.tree = CHOOSE t \in trees : TRUE]
MkdirAll(t, parts) ==
  LET made[k \in 0 .. Len(parts)] ==
        IF k = 0 THEN [tree |-> t, ok |-> TRUE] ELSE MakeDir(made[k - 1], SubSeq(parts, 1, k))
  IN  made[Len(parts)]

-----------------------------------------------------------------------------
(* The lines of a profile: operations on the paths, or on the sockets at    *)
(* the paths, of a filter; operations on ports.                             *)

Allow(ops, filter, at)     == [op : ops, filter : {filter}, at : {at}]
allowPort(ops, proto, port) == [op : ops, proto : {proto}, port : {port}]
AnyPort == MaxPort + 1  \* no port: "*"

Preamble == Allow({"file-read-data", "file-read-metadata"}, "literal", Root)

FlagOps(flag, isDir) ==
  CASE flag = "r" -> {"file-read*"}
    [] flag = "w" -> {"file-write-data"}
    [] flag = "x" -> {"file-map-executable", "process-exec"}
    [] flag = "c" -> IF isDir THEN {"file-write-create"} ELSE {}
    [] flag = "d" -> IF isDir THEN {"file-write-unlink"} ELSE {}
    [] flag = "u" -> {}
fsOps(r, isDir) ==
  (UNION { FlagOps(f, isDir) : f \in r.access }) \cup (IF r.ioctlDev THEN {"file-ioctl"} ELSE {})

allowUnix(r, isDir, at) ==
  LET filter == IF isDir THEN "unix-subpath" ELSE "unix-literal"
  IN  Allow(IF "u" \in r.access THEN {"network-outbound"} ELSE {}, filter, at)
        \cup Allow(IF isDir /\ "c" \in r.access THEN {"network-bind", "network-inbound"} ELSE {},
                   filter, at)

Protocols(r) == (IF usesTCP(r) THEN {"tcp"} ELSE {}) \cup (IF usesUDP(r) THEN {"udp"} ELSE {})

allowConnect(r) == UNION { allowPort({"network-outbound"}, proto, r.port) : proto \in Protocols(r) }

(* No port is ephemeral for Seatbelt: 0 stands for all of them.             *)
allowBind(r) ==
  UNION { allowPort({"network-bind", "network-inbound"}, proto,
                    IF r.port = 0 THEN AnyPort ELSE r.port) : proto \in Protocols(r) }

compileNetRule(r) ==
  (IF r.access \in {"connect", "connect+bind"} THEN allowConnect(r) ELSE {})
    \cup (IF r.access \in {"bind", "connect+bind"} THEN allowBind(r) ELSE {})

compileNet(net) ==
  IF net.allow
  THEN UNION { allowPort({"network-outbound", "network-bind", "network-inbound"}, proto, AnyPort) :
                 proto \in Protocol }
  ELSE UNION { compileNetRule(net.rules[i]) : i \in DOMAIN net.rules }

-----------------------------------------------------------------------------
Init ==
  /\ tree \in Trees /\ policy \in Policies
  /\ pc = "dirs" /\ n = 1
  /\ todo = {} /\ stack = <<>> /\ aliases = {}
  /\ profile = {}

rule  == policy.fs[n]
Empty == rule.path.parts = <<>> /\ ~rule.path.abs

CreatePolicyDir ==
  /\ pc = "dirs" /\ n <= Len(policy.fs)
  /\ LET made == MkdirAll(tree, Absolute(rule.path))
     IN  IF rule.createDir
         THEN tree' = made.tree /\ pc' = IF made.ok THEN pc ELSE "failed"
         ELSE UNCHANGED <<tree, pc>>
  /\ n' = n + 1
  /\ UNCHANGED <<policy, todo, stack, aliases, profile>>

CompileSBPL ==
  /\ pc = "dirs" /\ n > Len(policy.fs)
  /\ pc' = "fs" /\ n' = 1
  /\ profile' = Preamble
  /\ UNCHANGED <<tree, policy, todo, stack, aliases>>

(* What a rule is taken off the list for: its path, its pattern, or none.   *)
compileFS ==
  /\ pc = "fs" /\ n <= Len(policy.fs)
  /\ LET found == resolvePath(tree, rule)
         bad   == IF Empty THEN ~rule.ignoreMissing
                  ELSE /\ found.paths = {}
                       /\ rule.ignoreMissing => found.error # "none" /\ ~isPathError(found.error)
     IN  /\ todo' = IF Empty THEN {} ELSE found.paths
         /\ pc' = IF bad THEN "failed" ELSE "paths"
  /\ UNCHANGED <<tree, policy, n, stack, aliases, profile>>

NextRule ==
  /\ pc = "paths" /\ todo = {}
  /\ pc' = "fs" /\ n' = n + 1
  /\ UNCHANGED <<tree, policy, todo, stack, aliases, profile>>

(* EvalSymlinks' result, which stays relative for a relative path that no   *)
(* absolute link is met on: one step of a walk, and how it is spelt.        *)
Spell(t, s) ==
  LET w    == s.walk
      next == Step(t, w)
  IN  [walk |-> next,
       spelt |-> IF Over(w) \/ next.error # "none" THEN s.spelt
                 ELSE IF ~Link(t, Ahead(w)) THEN Append(s.spelt, Head(w.rest))
                 ELSE IF t[Ahead(w)].abs THEN Root ELSE s.spelt]

(* A relative result is put behind the directory's name and cleaned.        *)
canonicalSBPLPathBug(t, path) == Absolute(path)
canonicalSBPLPath(t, path) ==
  LET w0 == [Start(path.parts) EXCEPT !.at = IF path.abs THEN Root ELSE Cwd]
      v[k \in 0 .. Steps(w0)] ==
        IF k = 0 THEN [walk |-> w0, spelt |-> IF path.abs THEN Root ELSE Getwd(t)]
        ELSE Spell(t, v[k - 1])
  IN  Clean([abs |-> TRUE, parts |-> v[Steps(w0)].spelt]).parts

(* The path allowPathAliases walks, which is not cleaned.                   *)
Spelt(t, path) == IF path.abs THEN path.parts ELSE Getwd(t) \o path.parts

Frame(parts) == [prefix |-> Root, rest |-> parts]

compilePath ==
  /\ pc = "paths"
  /\ \E path \in todo :
       LET stat  == Walk(tree, Absolute(path))
           isDir == Dir(tree, stat.at)
           at    == canonicalSBPLPath(tree, path)
       IN  /\ todo' = todo \ {path}
           /\ IF stat.error # "none"
              THEN /\ pc' = IF rule.ignoreMissing /\ isPathError(stat.error) THEN pc ELSE "failed"
                   /\ UNCHANGED <<stack, profile>>
              ELSE IF fsRuleError(rule, isDir)
              THEN pc' = "failed" /\ UNCHANGED <<stack, profile>>
              ELSE /\ profile' = profile
                        \cup Allow(fsOps(rule, isDir), IF isDir THEN "subpath" ELSE "literal", at)
                        \cup allowUnix(rule, isDir, at)
                   /\ stack' = <<Frame(Spelt(tree, path))>>
                   /\ pc' = "aliases"
  /\ UNCHANGED <<tree, policy, n, aliases>>

TargetBug(parent, link) == IF link.abs THEN link.target ELSE Cwd \o link.target
Target(parent, link)    == IF link.abs THEN link.target ELSE parent \o link.target

(* One part of a path: a symlink not seen before is granted and its target  *)
(* is walked in turn.  The prefix is not cleaned: its links are followed    *)
(* before a "..", and PWD's count among those the kernel follows.           *)
allowPathAliases ==
  /\ pc = "aliases" /\ stack # <<>> /\ Head(stack).rest # <<>>
  /\ LET frame  == Head(stack)
         part   == Head(frame.rest)
         found  == Walk(tree, frame.prefix)
         alias  == Append(found.at, part)
         on     == [prefix |-> Append(frame.prefix, part), rest |-> Tail(frame.rest)]
     IN  IF found.error # "none"
         THEN pc' = "failed" /\ UNCHANGED <<stack, aliases, profile>>
         ELSE IF Link(tree, alias) /\ alias \notin aliases
         THEN /\ pc' = pc /\ aliases' = aliases \cup {alias}
              /\ profile' = profile \cup Allow({"file-read-metadata"}, "literal", alias)
              /\ stack' = <<Frame(Target(found.at, tree[alias])), on>> \o Tail(stack)
         ELSE /\ stack' = <<on>> \o Tail(stack)
              /\ UNCHANGED <<pc, aliases, profile>>
  /\ UNCHANGED <<tree, policy, n, todo>>

AliasesDone ==
  /\ pc = "aliases" /\ stack # <<>> /\ Head(stack).rest = <<>>
  /\ stack' = Tail(stack)
  /\ pc' = IF Len(stack) = 1 THEN "paths" ELSE pc
  /\ UNCHANGED <<tree, policy, n, todo, aliases, profile>>

CompileNet ==
  /\ pc = "fs" /\ n > Len(policy.fs)
  /\ profile' = profile \cup compileNet(policy.net)
  /\ pc' = "apply"
  /\ UNCHANGED <<tree, policy, n, todo, stack, aliases>>

(* The system may refuse the profile, and the command.                      *)
Apply ==
  /\ pc = "apply" /\ pc' \in {"exec", "failed"}
  /\ UNCHANGED <<tree, policy, n, todo, stack, aliases, profile>>

Exec ==
  /\ pc = "exec" /\ pc' \in {"running", "failed"}
  /\ UNCHANGED <<tree, policy, n, todo, stack, aliases, profile>>

Next ==
  \/ CreatePolicyDir \/ CompileSBPL \/ compileFS \/ NextRule \/ compilePath
  \/ allowPathAliases \/ AliasesDone \/ CompileNet \/ Apply \/ Exec

Spec == Init /\ [][Next]_vars

-----------------------------------------------------------------------------
(* Properties.                                                              *)

Complete == pc \in {"apply", "exec", "running"}

(* The paths a rule means, a pattern's by the directory it is read in, and  *)
(* what the kernel makes of those that exist.                               *)
Meant(r) ==
  LET dir == Front(Absolute(r.path))
  IN  IF resolvePath(tree, r).paths = {r.path} THEN {Absolute(r.path)}
      ELSE { Append(dir, name) : name \in Entries(tree, Walk(tree, dir).at) }
Granted ==
  UNION { { [rule |-> r, walk |-> Walk(tree, parts)] : parts \in Meant(r) } :
            r \in { r \in ToSet(policy.fs) : r.path.abs \/ r.path.parts # <<>> } }
Resolved == { g \in Granted : g.walk.error = "none" }

(* allowPathAliases: whichever rules and links lead through a symlink, the  *)
(* profile lets its metadata be read, or the path would not resolve in the  *)
(* sandbox; and the metadata of nothing else.  A relative path is led to    *)
(* along PWD.                                                               *)
Along(g) == IF g.rule.path.abs THEN <<>> ELSE Walk(tree, Getwd(tree)).links

AliasesReadable ==
  Complete =>
    { line.at : line \in { l \in profile : l.op = "file-read-metadata" } }
      = {Root} \cup UNION { ToSet(g.walk.links) \cup ToSet(Along(g)) : g \in Resolved }

(* A match is written with its directory cleaned, so a rule means another   *)
(* directory than it reads if a name is before a ".." in its pattern.       *)
PatternsClean ==
  \A p \in Policies : \A i \in DOMAIN p.fs :
    LET path == p.fs[i].path
    IN  "*" \in ToSet(path.parts) => \A x \in Name : Clean(Within(path, x)) = Within(path, x)

(* What a flag promises, as operations on a file or on the socket in it.    *)
Promised ==
  { <<"r", "file", "file-read*">>, <<"w", "file", "file-write-data">>,
    <<"x", "file", "process-exec">>, <<"x", "file", "file-map-executable">>,
    <<"c", "file", "file-write-create">>, <<"d", "file", "file-write-unlink">>,
    <<"u", "socket", "network-outbound">>,
    <<"c", "socket", "network-bind">>, <<"c", "socket", "network-inbound">> }

Permits(what, op, p) ==
  \E l \in profile :
    /\ l.op = op /\ "at" \in DOMAIN l
    /\ IF l.filter \in {"subpath", "unix-subpath"} THEN IsPrefix(l.at, p) ELSE l.at = p
    /\ what = "socket" <=> l.filter \in {"unix-subpath", "unix-literal"}

PermitsPort(op, proto, port) ==
  \E l \in profile : l.op = op /\ "port" \in DOMAIN l /\ l.proto = proto /\ l.port \in {port, AnyPort}

(* A finished profile permits on a file or directory what the rules that    *)
(* resolve to it or to a directory above it promise, and nothing else, a    *)
(* socket's connections apart from its data.                                *)
FilesFollowRules ==
  \A p \in { q \in DOMAIN tree : ~Link(tree, q) } : \A f \in Promised :
    Permits(f[2], f[3], p) <=>
      \E g \in Resolved : IsPrefix(g.walk.at, p)
        /\ \E flag \in g.rule.access : <<flag, f[2], f[3]>> \in Promised

(* And on a port what Landlock would, but that a bind to port 0 is to every *)
(* port.                                                                    *)
PortsFollowRules ==
  \A proto \in Protocol :
  \A port \in {0, 1} \cup { r.port : r \in ToSet(policy.net.rules) } :
    LET landlock(op, ports) ==
          \/ policy.net.allow
          \/ \E r \in ToSet(policy.net.rules) : r.port \in ports /\ <<op, proto>> \in buildNetRules(r)
    IN  /\ PermitsPort("network-outbound", proto, port) <=> landlock("connect", {port})
        /\ \A op \in {"network-bind", "network-inbound"} :
             PermitsPort(op, proto, port) <=> landlock("bind", {port, 0})

(* CompileSBPL: the files' part needs a directory's own name, or no         *)
(* relative path: see RelativeRulesFollowed.                                *)
WellSpelt == Getwd(tree) = Cwd \/ \A r \in ToSet(policy.fs) : r.path.abs

GrantsFollowRules == Complete => (WellSpelt => FilesFollowRules) /\ PortsFollowRules

(* docs/osx-sbpl.md: every path is made absolute and symlink-resolved, with *)
(* the aliases of macOS.  canonicalSBPLPath resolves first: where PWD leads *)
(* through a symlink, it puts that symlink before what it has resolved.     *)
RelativeRulesFollowed == Complete => FilesFollowRules
=============================================================================
